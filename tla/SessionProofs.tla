---------------------------- MODULE SessionProofs ----------------------------
(***************************************************************************)
(* Theorems about a connection, for every limit, bitrate and way the       *)
(* network behaves, any number of users, channels and requests: its voice  *)
(* goes over a path that answers and keeps to the bandwidth of the server, *)
(* and its requests are heard in order and do what they mean.  Each is     *)
(* proved of the part it is about, which the connection implements.        *)
(***************************************************************************)
EXTENDS Session, ListAndModTheorems

-----------------------------------------------------------------------------
(* The pings.                                                              *)

(* The steps of a connection are steps of its pings, or leave them alone.  *)
LEMMA StepIsPing == [SessionNext]_allVars => [Next]_vars
BY DEF SessionNext, Pings, Keyed, Synced, Answers, Receives, SetsAudio, Requests, OverUdp,
       allVars, Next

(* What is counted up to the fallback does not wrap.                       *)
LEMMA CountedUp ==
    ASSUME udp_ping_acc \in 0 .. (Byte - 1)
    PROVE  /\ Counted \in 0 .. (Byte - 1)
           /\ udp_ping_acc < UdpTcpFallback => Counted = udp_ping_acc + 1
<1>1. Byte \in Nat \ {0} /\ UdpTcpFallback \in Nat /\ UdpTcpFallback < Byte
  BY PingAssumption
<1>2. udp_ping_acc + 1 \in Int
  OBVIOUS
<1>3. (udp_ping_acc + 1) % Byte \in 0 .. (Byte - 1)
  BY <1>1, <1>2, ModDef, Zenon
<1>4. ASSUME udp_ping_acc < UdpTcpFallback
      PROVE  (udp_ping_acc + 1) % Byte = udp_ping_acc + 1
  BY <1>1, <1>4
<1> QED
  BY <1>3, <1>4 DEF Counted

(* A ping that stays outside the tunnel is one more without an answer.     *)
LEMMA PingIsCounted ==
    ASSUME UdpIsAnswered, Ping, valid' \in BOOLEAN, synced' \in BOOLEAN
    PROVE  UdpIsAnswered'
<1>1. up' \in BOOLEAN
  BY Zenon DEF UdpIsAnswered, TypeOK, Ping, SendUdp
<1>2. tcp_udp_tunnel' \in BOOLEAN
  BY Zenon DEF Ping
<1>3. /\ udp_ping_acc' \in 0 .. (Byte - 1) /\ silent' \in 0 .. MaxSilent
      /\ pings' \in 0 .. MaxFlight /\ pongs' \in 0 .. MaxFlight
  BY PingAssumption, CountedUp DEF UdpIsAnswered, TypeOK, Ping, SendUdp
<1>4. ASSUME ~tcp_udp_tunnel'
      PROVE  silent' = udp_ping_acc' /\ silent' <= UdpTcpFallback
  <2>1. ~tcp_udp_tunnel /\ ~(udp_ping_acc >= UdpTcpFallback)
    BY <1>4, Zenon DEF Ping, FallsBack
  <2> QED
    BY <2>1, PingAssumption, CountedUp DEF UdpIsAnswered, TypeOK, Ping
<1> QED
  BY <1>1, <1>2, <1>3, <1>4 DEF UdpIsAnswered, TypeOK

(* So is an answer, and whatever the network does.                         *)
LEMMA OthersAreAnswered ==
    ASSUME UdpIsAnswered, Pong(TRUE) \/ Pong(FALSE) \/ UNCHANGED <<tcp_udp_tunnel, udp_ping_acc, silent>>,
           pings' \in 0 .. MaxFlight, pongs' \in 0 .. MaxFlight,
           up' \in BOOLEAN, valid' \in BOOLEAN, synced' \in BOOLEAN
    PROVE  UdpIsAnswered'
<1>1. CASE UNCHANGED <<tcp_udp_tunnel, udp_ping_acc, silent>>
  BY <1>1 DEF UdpIsAnswered, TypeOK
<1>2. CASE Pong(TRUE) \/ Pong(FALSE)
  <2>1. tcp_udp_tunnel' \in BOOLEAN
    BY <1>2, Zenon DEF Pong
  <2>2. udp_ping_acc' = 0 /\ silent' = 0
    BY <1>2 DEF Pong
  <2> QED
    BY <2>1, <2>2, PingAssumption DEF UdpIsAnswered, TypeOK
<1> QED
  BY <1>1, <1>2

(* Every step of the pings keeps what UdpIsAnswered says.                  *)
LEMMA StepIsAnswered == UdpIsAnswered /\ [Next]_vars => UdpIsAnswered'
<1> SUFFICES ASSUME UdpIsAnswered, [Next]_vars PROVE UdpIsAnswered'
  OBVIOUS
<1> USE DEF client, network, vars, NoPing
<1>types. /\ valid \in BOOLEAN /\ synced \in BOOLEAN /\ up \in BOOLEAN
          /\ pings \in 0 .. MaxFlight /\ pongs \in 0 .. MaxFlight
  BY DEF UdpIsAnswered, TypeOK
<1>1. CASE PingTimer
  <2>1. CASE valid
    BY <1>1, <2>1, PingIsCounted DEF PingTimer
  <2>2. CASE ~valid
    BY <1>1, <2>2, <1>types, OthersAreAnswered DEF PingTimer
  <2> QED
    BY <2>1, <2>2
<1>2. CASE ServerSync
  BY <1>2, <1>types, OthersAreAnswered DEF ServerSync
<1>3. CASE CryptSetup
  <2>1. valid' \in BOOLEAN /\ synced' = synced
    BY <1>3, Zenon DEF CryptSetup
  <2>2. CASE Ping
    BY <2>1, <2>2, <1>types, PingIsCounted, Zenon
  <2>3. CASE NoPing
    BY <2>1, <2>3, <1>types, OthersAreAnswered
  <2> QED
    BY <1>3, <2>2, <2>3 DEF CryptSetup
<1>4. CASE ReceiveUdp \/ ReceiveTunnel
  <2>1. (Pong(TRUE) \/ Pong(FALSE)) /\ UNCHANGED <<valid, synced, up, pings>>
    BY <1>4 DEF ReceiveUdp, ReceiveTunnel
  <2>2. pongs' \in 0 .. MaxFlight
    <3>1. pongs > 0 /\ pongs' = pongs - 1
      BY <1>4, Zenon DEF ReceiveUdp, ReceiveTunnel
    <3> QED
      BY <3>1, <1>types, PingAssumption
  <2> QED
    BY <2>1, <2>2, <1>types, OthersAreAnswered
<1>5. CASE Answer
  BY <1>5, <1>types, PingAssumption, OthersAreAnswered DEF Answer
<1>6. CASE LosePing \/ LosePong
  <2>1. pings' \in 0 .. MaxFlight /\ pongs' \in 0 .. MaxFlight
    BY <1>6, <1>types, PingAssumption DEF LosePing, LosePong
  <2> QED
    BY <1>6, <2>1, <1>types, OthersAreAnswered DEF LosePing, LosePong
<1>7. CASE UpOrDown
  <2>1. up' \in BOOLEAN
    BY <1>7, Zenon DEF UpOrDown
  <2> QED
    BY <1>7, <2>1, <1>types, OthersAreAnswered DEF UpOrDown
<1>8. CASE UNCHANGED vars
  BY <1>8, <1>types, OthersAreAnswered
<1> QED
  BY <1>1, <1>2, <1>3, <1>4, <1>5, <1>6, <1>7, <1>8 DEF Next

(* A connection pings as UdpPing says.                                     *)
THEOREM ConnectionImplementsPings == SessionSpec => Spec
<1>1. SessionInit => Init
  BY DEF SessionInit
<1> QED
  BY <1>1, StepIsPing, PTL DEF SessionSpec, Spec

(* Voice goes out over UDP only while at most UDP_TCP_FALLBACK pings went  *)
(* unanswered (mumble.c:150-180), for any number of them and any loss,     *)
(* although the counter wraps at Byte.                                     *)
THEOREM VoiceIsAnswered == SessionSpec => []UdpIsAnswered
<1>1. Init => UdpIsAnswered
  <2> SUFFICES ASSUME Init PROVE UdpIsAnswered
    OBVIOUS
  <2>1. valid \in BOOLEAN /\ synced \in BOOLEAN /\ tcp_udp_tunnel \in BOOLEAN /\ up \in BOOLEAN
    BY Zenon DEF Init
  <2>2. tcp_udp_tunnel
    BY Zenon DEF Init
  <2> QED
    BY <2>1, <2>2, PingAssumption DEF Init, UdpIsAnswered, TypeOK
<1> QED
  BY <1>1, StepIsAnswered, ConnectionImplementsPings, PTL DEF Spec

-----------------------------------------------------------------------------
(* The bandwidth.                                                          *)

(* The steps of a connection are steps of its audio, or leave it alone.    *)
LEMMA StepIsAudio == [SessionNext]_allVars => [Audio!Next]_(Audio!vars)
BY DEF SessionNext, Pings, Keyed, Synced, Answers, Receives, SetsAudio, Requests, OverUdp,
       allVars, audioVars, Audio!Next, Audio!vars

(* A connection adjusts its audio as Bandwidth says.                       *)
THEOREM ConnectionImplementsAudio == SessionSpec => Audio!Spec
<1>1. SessionInit => Audio!Init
  BY DEF SessionInit
<1> QED
  BY <1>1, StepIsAudio, PTL DEF SessionSpec, Audio!Spec

(* Less bitrate needs less bandwidth.                                      *)
LEMMA OverGrows ==
    ASSUME NEW a \in Int, NEW b \in Int, a <= b, NEW limit \in Nat, Audio!Over(a, limit)
    PROVE  Audio!Over(b, limit)
<1>1. (a \div 8) * 2 <= (b \div 8) * 2 /\ (a \div 8) * 2 \in Int /\ (b \div 8) * 2 \in Int
  OBVIOUS
<1>2. limit # NoLimit /\ a + 61 + (a \div 8) * 2 > limit
  BY DEF Audio!Over, Audio!getNetworkBandwidth
<1>3. b + 61 + (b \div 8) * 2 > limit
  BY <1>1, <1>2
<1> QED
  BY <1>2, <1>3 DEF Audio!Over, Audio!getNetworkBandwidth

(* The loop ends, at the first bitrate at which it may stop: the one       *)
(* before it is that at which it began, or may not be stopped at.          *)
LEMMA LoopStops ==
    ASSUME NEW rate \in Nat, NEW limit
    PROVE  LET low == Audio!Lowered(rate, limit)
           IN  /\ low \in Int /\ low <= rate - 1000
               /\ Audio!Stops(low, limit)
               /\ low = rate - 1000 \/ ~Audio!Stops(low + 1000, limit)
<1> DEFINE Turns == 1 .. (rate \div 1000) + 1
           At(k) == rate - 1000 * k
           Good  == {k \in Turns : Audio!Stops(At(k), limit)}
           Rates == {r \in {At(k) : k \in Turns} : Audio!Stops(r, limit)}
<1>1. (rate \div 1000) + 1 \in Turns /\ At((rate \div 1000) + 1) <= 8000
  OBVIOUS
<1>2. (rate \div 1000) + 1 \in Good
  BY <1>1 DEF Audio!Stops
<1>3. PICK k \in Good : \A m \in Good : k <= m
  <2>1. Good \subseteq Nat /\ Good # {}
    <3>1. Turns \subseteq Nat
      OBVIOUS
    <3>2. Good \subseteq Turns
      <4> HIDE DEF Turns, At
      <4> QED
        OBVIOUS
    <3> HIDE DEF Good, Turns
    <3> QED
      BY <1>2, <3>1, <3>2
  <2> HIDE DEF Good
  <2> QED
    BY <2>1, SmallestOf, Zenon
<1>4. k \in Turns /\ Audio!Stops(At(k), limit) /\ k \in Nat /\ k >= 1
  BY <1>3
<1>5. At(k) \in Rates /\ \A r \in Rates : At(k) >= r
  BY <1>3, <1>4
<1>6. \A r \in Rates : r \in Int
  OBVIOUS
<1>7. At(k) = Audio!Lowered(rate, limit)
  BY <1>5, <1>6 DEF Audio!Lowered, Audio!Max
<1>8. At(k) = rate - 1000 \/ ~Audio!Stops(At(k) + 1000, limit)
  <2>1. CASE k = 1
    BY <2>1
  <2>2. CASE k # 1
    <3>1. k - 1 \in Turns /\ At(k - 1) = At(k) + 1000 /\ ~(k <= k - 1)
      BY <2>2, <1>4
    <3>2. k - 1 \notin Good
      BY <3>1, <1>3
    <3> QED
      BY <3>1, <3>2
  <2> QED
    BY <2>1, <2>2
<1> QED
  BY <1>4, <1>7, <1>8

(* A bitrate that was adjusted to a limit fits in it, or is the least; and *)
(* no higher one by a thousand would.                                      *)
LEMMA AdjustFits ==
    ASSUME bitrate \in Nat \ {0}, audio_frames \in Audio!Sizes,
           NEW limit \in Nat, limit # NoLimit, Audio!Adjust(limit)
    PROVE  /\ bitrate' \in Nat \ {0} /\ audio_frames' \in Audio!Sizes
           /\ bitrate' >= 8000
           /\ bitrate' > 8000 => ~Audio!Over(bitrate', limit)
           /\ bitrate' + 1000 <= bitrate => Audio!Over(bitrate' + 1000, limit)
<1> DEFINE over   == Audio!Over(bitrate, limit)
           low    == Audio!Lowered(bitrate, limit)
           frames == IF over THEN Audio!Longer(audio_frames \div 10, limit)
                     ELSE audio_frames \div 10
<1>1. /\ bitrate' = Audio!AtLeast(IF over THEN low ELSE bitrate)
      /\ audio_frames' = IF bitrate' = bitrate THEN audio_frames ELSE frames * 10
  BY DEF Audio!Adjust
<1>2. audio_frames' \in Audio!Sizes
  <2>1. audio_frames \div 10 \in {1, 2, 4, 6}
    BY DEF Audio!Sizes
  <2>2. frames \in {1, 2, 4, 6}
    BY <2>1 DEF Audio!Longer
  <2> HIDE DEF frames
  <2> QED
    BY <1>1, <2>2 DEF Audio!Sizes
<1>3. CASE ~over
  <2> HIDE DEF over, low
  <2>1. bitrate' = (IF bitrate < 8000 THEN 8000 ELSE bitrate)
    BY <1>1, <1>3 DEF Audio!AtLeast
  <2> QED
    BY <1>2, <1>3, <2>1 DEF over
<1>4. CASE over
  <2>1. /\ low \in Int /\ low <= bitrate - 1000
        /\ low <= 8000 \/ ~Audio!Over(low, limit)
        /\ low = bitrate - 1000 \/ (low + 1000 > 8000 /\ Audio!Over(low + 1000, limit))
    BY LoopStops, bitrate \in Nat DEF Audio!Stops
  <2> HIDE DEF low
  <2>2. CASE low >= 8000
    <3>1. bitrate' = low
      BY <1>1, <1>4, <2>1, <2>2 DEF Audio!AtLeast
    <3>2. low + 1000 = bitrate => Audio!Over(low + 1000, limit)
      BY <1>4
    <3> QED
      BY <1>2, <2>1, <2>2, <3>1, <3>2
  <2>3. CASE low < 8000
    <3>1. bitrate' = 8000
      BY <1>1, <1>4, <2>1, <2>3 DEF Audio!AtLeast
    <3>2. ASSUME 9000 <= bitrate PROVE Audio!Over(9000, limit)
      <4>1. low + 1000 \in Int /\ low + 1000 <= 9000 /\ Audio!Over(low + 1000, limit)
        BY <2>1, <2>3, <3>2
      <4>2. \A a, b \in Int : a <= b /\ Audio!Over(a, limit) => Audio!Over(b, limit)
        BY OverGrows
      <4> QED
        BY <4>1, <4>2
    <3> QED
      BY <1>2, <3>1, <3>2
  <2> QED
    BY <2>1, <2>2, <2>3
<1> QED
  BY <1>3, <1>4, <1>2, <1>1

(* In the limit of the last sync the bandwidth stays, whatever the script  *)
(* sets that is no bitrate.                                                *)
LEMMA AudioStepFits == FitsTheLimit /\ [Audio!Next]_(Audio!vars) => FitsTheLimit'
<1> SUFFICES ASSUME FitsTheLimit, [Audio!Next]_(Audio!vars) PROVE FitsTheLimit'
  OBVIOUS
<1> USE DEF FitsTheLimit, Audio!FitsTheLimit, Audio!TypeOK
<1>1. CASE UNCHANGED Audio!vars
  BY <1>1 DEF Audio!vars, Audio!Over
<1>2. ASSUME NEW limit \in Limits, max_bandwidth' = limit, Audio!Adjust(limit), before' = bitrate
      PROVE  FitsTheLimit'
  <2>1. limit \in Nat /\ limit # NoLimit
    BY SessionAssumption
  <2>2. /\ bitrate' \in Nat \ {0} /\ audio_frames' \in Audio!Sizes
        /\ bitrate' >= 8000
        /\ bitrate' > 8000 => ~Audio!Over(bitrate', limit)
        /\ bitrate' + 1000 <= bitrate => Audio!Over(bitrate' + 1000, limit)
    BY <1>2, <2>1, AdjustFits
  <2> QED
    <3>1. max_bandwidth' = limit /\ before' = bitrate
      BY <1>2
    <3>2. Audio!TypeOK'
      BY <2>2, <3>1
    <3>3. bitrate' > 8000 => ~Audio!Over(bitrate, max_bandwidth)'
      BY <2>2, <3>1 DEF Audio!Over, Audio!getNetworkBandwidth
    <3>4. bitrate' + 1000 <= before' => Audio!Over(bitrate + 1000, max_bandwidth)'
      BY <2>2, <3>1 DEF Audio!Over, Audio!getNetworkBandwidth
    <3>5. bitrate' >= 8000
      BY <2>2
    <3> HIDE DEF Audio!TypeOK
    <3> QED
      BY <3>2, <3>3, <3>4, <3>5
<1>3. ASSUME NEW rate \in Bitrates, Audio!SetBitRate(rate) PROVE FitsTheLimit'
  BY <1>3, SessionAssumption DEF Audio!SetBitRate
<1>4. ASSUME NEW size \in Audio!Sizes, Audio!SetPacketSize(size) PROVE FitsTheLimit'
  BY <1>4 DEF Audio!SetPacketSize, Audio!Over
<1> QED
  BY <1>1, <1>2, <1>3, <1>4 DEF Audio!Next, Audio!ServerSync, Audio!Script

(* After a ServerSync the audio fits in any limit, or has the least        *)
(* bitrate, and was not lowered by a thousand too much; until a script     *)
(* sets another bitrate (mumble.c:771-817).                                *)
THEOREM VoiceFits == SessionSpec => []FitsTheLimit
<1>1. Audio!Init => FitsTheLimit
  BY DEF Audio!Init, FitsTheLimit, Audio!FitsTheLimit, Audio!TypeOK, Audio!Sizes
<1> QED
  BY <1>1, AudioStepFits, ConnectionImplementsAudio, PTL DEF Audio!Spec

-----------------------------------------------------------------------------
(* The requests: what they mean.                                           *)

(* What the server has made of some messages: it has all the fields, and   *)
(* who is deaf is mute.                                                    *)
Fields == {"here", "muted", "deaf", "registered", "place", "listens", "rooms", "links",
           "made", "recording", "target", "told"}

IsWorld(w) ==
    /\ w = [f \in Fields |-> w[f]]
    /\ w.place = [u \in Users |-> w.place[u]]
    /\ w.deaf \subseteq w.muted

(* A request does what it means, if it is right.                           *)
Fulfils(body, meant, right) ==
    /\ IsWorld(meant)
    /\ right => \A m : m.body = body => Tcp!Obeys(wish, m) = meant

(* Two of these with the same fields are the same.                         *)
Same(v, w) ==
    /\ v.here = w.here /\ v.muted = w.muted /\ v.deaf = w.deaf
    /\ v.registered = w.registered /\ v.place = w.place /\ v.listens = w.listens
    /\ v.rooms = w.rooms /\ v.links = w.links /\ v.made = w.made
    /\ v.recording = w.recording /\ v.target = w.target /\ v.told = w.told

(* Two worlds are the same if their fields are.                            *)
LEMMA SameWorld ==
    ASSUME NEW v, NEW w, v = [f \in Fields |-> v[f]], w = [f \in Fields |-> w[f]], Same(v, w)
    PROVE  v = w
BY DEF Fields, Same

(* What a message about a user does.                                       *)
LEMMA UserStateIs ==
    ASSUME NEW w, w = [f \in Fields |-> w[f]], NEW m
    PROVE  LET u       == m.session
               deafens == IF Tcp!Has(m, "deaf") THEN m.deaf ELSE u \in w.deaf
               muted   == IF Tcp!Has(m, "mute")
                          THEN m.mute \/ (Tcp!Has(m, "deaf") /\ m.deaf)
                          ELSE u \in w.muted \/ deafens
               r       == Tcp!UserState(w, m)
           IN  /\ r = [f \in Fields |-> r[f]]
               /\ r.here = w.here
               /\ r.muted = Tcp!Put(w.muted, u, muted)
               /\ r.deaf = Tcp!Put(w.deaf, u, deafens /\ muted)
               /\ r.registered = Tcp!Put(w.registered, u,
                                         u \in w.registered \/ Tcp!Has(m, "user_id"))
               /\ r.place = IF Tcp!Has(m, "channel_id")
                            THEN [w.place EXCEPT ![u] = m.channel_id] ELSE w.place
               /\ r.listens = (w.listens \cup {<<u, c>> : c \in m.listening_channel_add})
                              \ {<<u, c>> : c \in m.listening_channel_remove}
               /\ r.rooms = w.rooms /\ r.links = w.links /\ r.made = w.made
               /\ r.recording = (IF Tcp!Has(m, "recording") THEN m.recording ELSE w.recording)
               /\ r.target = w.target /\ r.told = w.told
<1> DEFINE u       == m.session
           deafens == IF Tcp!Has(m, "deaf") THEN m.deaf ELSE u \in w.deaf
           muted   == IF Tcp!Has(m, "mute")
                      THEN m.mute \/ (Tcp!Has(m, "deaf") /\ m.deaf)
                      ELSE u \in w.muted \/ deafens
           a == Tcp!Put(w.muted, u, muted)
           b == Tcp!Put(w.deaf, u, deafens /\ muted)
           c == Tcp!Put(w.registered, u, u \in w.registered \/ Tcp!Has(m, "user_id"))
           d == IF Tcp!Has(m, "channel_id") THEN [w.place EXCEPT ![u] = m.channel_id]
                ELSE w.place
           e == (w.listens \cup {<<u, x>> : x \in m.listening_channel_add})
                \ {<<u, x>> : x \in m.listening_channel_remove}
           g == IF Tcp!Has(m, "recording") THEN m.recording ELSE w.recording
           r == Tcp!UserState(w, m)
<1>1. r = [w EXCEPT !.muted = a, !.deaf = b, !.registered = c, !.place = d, !.listens = e,
                    !.recording = g]
  BY Zenon DEF Tcp!UserState
<1> HIDE DEF a, b, c, d, e, g, r
<1>2. /\ r = [f \in Fields |-> r[f]]
      /\ r.here = w.here /\ r.muted = a /\ r.deaf = b
      /\ r.registered = c /\ r.place = d /\ r.listens = e
      /\ r.rooms = w.rooms /\ r.links = w.links /\ r.made = w.made
      /\ r.recording = g /\ r.target = w.target /\ r.told = w.told
  BY <1>1 DEF Fields
<1> QED
  BY <1>2, Zenon DEF a, b, c, d, e, g, r


(* A message about a user is obeyed if the user is there; one that says    *)
(* nothing of muting changes only what it names.                           *)
LEMMA UserRequest ==
    ASSUME IsWorld(wish), NEW body, body.type = "UserState", body.session \in wish.here,
           "mute" \notin DOMAIN body, "deaf" \notin DOMAIN body, NEW right,
           NEW meant, IsWorld(meant),
           meant.here = wish.here, meant.muted = wish.muted, meant.deaf = wish.deaf,
           meant.registered = IF "user_id" \in DOMAIN body
                              THEN wish.registered \cup {body.session} ELSE wish.registered,
           meant.place = IF "channel_id" \in DOMAIN body
                         THEN [wish.place EXCEPT ![body.session] = body.channel_id]
                         ELSE wish.place,
           meant.listens = (wish.listens
                            \cup {<<body.session, c>> : c \in body.listening_channel_add})
                           \ {<<body.session, c>> : c \in body.listening_channel_remove},
           meant.rooms = wish.rooms, meant.links = wish.links, meant.made = wish.made,
           meant.recording = IF "recording" \in DOMAIN body THEN body.recording
                             ELSE wish.recording,
           meant.target = wish.target, meant.told = wish.told
    PROVE  Fulfils(body, meant, right)
<1> DEFINE u == body.session
           r == Tcp!UserState(wish, body)
<1>1. /\ r = [f \in Fields |-> r[f]]
      /\ r.here = wish.here
      /\ r.muted = Tcp!Put(wish.muted, u, u \in wish.muted \/ u \in wish.deaf)
      /\ r.deaf = Tcp!Put(wish.deaf, u,
                          u \in wish.deaf /\ (u \in wish.muted \/ u \in wish.deaf))
      /\ r.registered = Tcp!Put(wish.registered, u,
                                u \in wish.registered \/ "user_id" \in DOMAIN body)
      /\ r.place = meant.place /\ r.listens = meant.listens
      /\ r.rooms = wish.rooms /\ r.links = wish.links /\ r.made = wish.made
      /\ r.recording = meant.recording /\ r.target = wish.target /\ r.told = wish.told
  <2>1. ~Tcp!Has(body, "mute") /\ ~Tcp!Has(body, "deaf")
    BY Zenon DEF Tcp!Has
  <2>2. wish = [f \in Fields |-> wish[f]]
    BY Zenon DEF IsWorld
  <2> DEFINE deafens == IF Tcp!Has(body, "deaf") THEN body.deaf ELSE u \in wish.deaf
             muted   == IF Tcp!Has(body, "mute")
                        THEN body.mute \/ (Tcp!Has(body, "deaf") /\ body.deaf)
                        ELSE u \in wish.muted \/ deafens
  <2>3. /\ r = [f \in Fields |-> r[f]]
        /\ r.here = wish.here
        /\ r.muted = Tcp!Put(wish.muted, u, muted)
        /\ r.deaf = Tcp!Put(wish.deaf, u, deafens /\ muted)
        /\ r.registered = Tcp!Put(wish.registered, u,
                                  u \in wish.registered \/ Tcp!Has(body, "user_id"))
        /\ r.place = IF Tcp!Has(body, "channel_id")
                     THEN [wish.place EXCEPT ![u] = body.channel_id] ELSE wish.place
        /\ r.listens = (wish.listens \cup {<<u, c>> : c \in body.listening_channel_add})
                       \ {<<u, c>> : c \in body.listening_channel_remove}
        /\ r.rooms = wish.rooms /\ r.links = wish.links /\ r.made = wish.made
        /\ r.recording = IF Tcp!Has(body, "recording") THEN body.recording
                         ELSE wish.recording
        /\ r.target = wish.target /\ r.told = wish.told
    BY <2>2, UserStateIs, Zenon
  <2>4. deafens = (u \in wish.deaf) /\ muted = (u \in wish.muted \/ u \in wish.deaf)
    BY <2>1, Zenon
  <2> HIDE DEF r, deafens, muted
  <2> QED
    BY <2>3, <2>4, Zenon DEF Tcp!Has
<1>2. /\ Tcp!Put(wish.muted, u, u \in wish.muted \/ u \in wish.deaf) = wish.muted
      /\ Tcp!Put(wish.deaf, u, u \in wish.deaf /\ (u \in wish.muted \/ u \in wish.deaf))
            = wish.deaf
      /\ Tcp!Put(wish.registered, u, u \in wish.registered \/ "user_id" \in DOMAIN body)
            = meant.registered
  BY DEF IsWorld, Tcp!Put
<1>3. \A m : m.body = body => Tcp!Obeys(wish, m) = r
  BY DEF Tcp!Obeys
<1> HIDE DEF r
<1>4. r = meant
  BY <1>1, <1>2, SameWorld DEF IsWorld, Same
<1> QED
  BY <1>3, <1>4 DEF Fulfils

(* A request that changes nothing on the server.                           *)
LEMMA TellsFulfil ==
    ASSUME IsWorld(wish), NEW body, NEW right,
           body.type \notin {"UserState", "ChannelState", "UserRemove", "ChannelRemove",
                             "VoiceTarget", "Other"}
    PROVE  Fulfils(body, [wish EXCEPT !.told = body], right)
<1>1. \A m : m.body = body => Tcp!Obeys(wish, m) = [wish EXCEPT !.told = body]
  BY DEF Tcp!Obeys
<1>2. IsWorld([wish EXCEPT !.told = body])
  BY DEF IsWorld, Fields
<1> QED
  BY <1>1, <1>2 DEF Fulfils

(* What a message holds to which fields were added.                        *)
LEMMA WithFields ==
    ASSUME NEW m, NEW fields
    PROVE  /\ DOMAIN Tcp!With(m, fields) = DOMAIN m \cup DOMAIN fields
           /\ \A f \in DOMAIN fields : Tcp!With(m, fields)[f] = fields[f]
           /\ \A f \in DOMAIN m \ DOMAIN fields : Tcp!With(m, fields)[f] = m[f]
BY DEF Tcp!With

(* A message about a user, with these fields.                              *)
Common == {"type", "session", "listening_channel_add", "listening_channel_remove"}

Says(m, u, fields) ==
    /\ m.type = "UserState" /\ m.session = u
    /\ m.listening_channel_add = {} /\ m.listening_channel_remove = {}
    /\ DOMAIN m = DOMAIN fields \cup Common
    /\ \A f \in DOMAIN fields : m[f] = fields[f]

(* What a message about a user says, its own fields aside.                 *)
LEMMA UserMessage ==
    ASSUME NEW u, NEW fields, DOMAIN fields \cap Common = {}
    PROVE  Says(Tcp!With(Tcp!NewUserState(u), fields), u, fields)
<1> DEFINE new == Tcp!NewUserState(u)
           m == Tcp!With(new, fields)
<1>1. /\ DOMAIN new = Common
      /\ new["type"] = "UserState" /\ new["session"] = u
      /\ new["listening_channel_add"] = {} /\ new["listening_channel_remove"] = {}
  BY DEF Tcp!NewUserState, Common
<1>2. /\ DOMAIN m = DOMAIN new \cup DOMAIN fields
      /\ \A f \in DOMAIN fields : m[f] = fields[f]
      /\ \A f \in DOMAIN new \ DOMAIN fields : m[f] = new[f]
  BY WithFields, Zenon
<1> HIDE DEF new, m
<1>3. \A f \in DOMAIN new : m[f] = new[f]
  BY <1>1, <1>2
<1>4. m["type"] = "UserState" /\ m["session"] = u
      /\ m["listening_channel_add"] = {} /\ m["listening_channel_remove"] = {}
  BY <1>1, <1>3 DEF Common
<1> QED
  BY <1>1, <1>2, <1>4 DEF m, new, Says


(* user.c: kick and ban, move, register, listen, unlisten, and those that  *)
(* change nothing.                                                         *)
LEMMA KicksFulfil ==
    ASSUME IsWorld(wish), NEW u
    PROVE  /\ Fulfils(Tcp!user_kick(u), [wish EXCEPT !.here = @ \ {u}], TRUE)
           /\ Fulfils(Tcp!user_ban(u), [wish EXCEPT !.here = @ \ {u}], TRUE)
<1> DEFINE meant == [wish EXCEPT !.here = @ \ {u}]
<1>1. ASSUME NEW body, body.type = "UserRemove", body.session = u
      PROVE  Fulfils(body, meant, TRUE)
  <2>1. IsWorld(meant)
    BY DEF IsWorld, Fields
  <2>2. \A m : m.body = body => Tcp!Obeys(wish, m) = meant
    BY <1>1 DEF Tcp!Obeys
  <2> QED
    BY <2>1, <2>2 DEF Fulfils
<1>2. Tcp!user_kick(u).type = "UserRemove" /\ Tcp!user_kick(u).session = u
  BY DEF Tcp!user_kick
<1>3. Tcp!user_ban(u).type = "UserRemove" /\ Tcp!user_ban(u).session = u
  BY DEF Tcp!user_ban, Tcp!user_kick, Tcp!With
<1> QED
  BY <1>1, <1>2, <1>3, Zenon

(* A message with these fields changes these.                              *)
LEMMA FieldsFulfil ==
    ASSUME IsWorld(wish), NEW u \in wish.here, NEW fields, NEW right,
           DOMAIN fields \cap (Common \cup {"mute", "deaf"}) = {},
           NEW meant, IsWorld(meant),
           meant.here = wish.here, meant.muted = wish.muted, meant.deaf = wish.deaf,
           meant.registered = IF "user_id" \in DOMAIN fields THEN wish.registered \cup {u}
                              ELSE wish.registered,
           meant.place = IF "channel_id" \in DOMAIN fields
                         THEN [wish.place EXCEPT ![u] = fields.channel_id] ELSE wish.place,
           meant.listens = wish.listens, meant.rooms = wish.rooms,
           meant.links = wish.links, meant.made = wish.made,
           meant.recording = IF "recording" \in DOMAIN fields THEN fields.recording
                             ELSE wish.recording,
           meant.target = wish.target, meant.told = wish.told
    PROVE  Fulfils(Tcp!With(Tcp!NewUserState(u), fields), meant, right)
<1> DEFINE body == Tcp!With(Tcp!NewUserState(u), fields)
<1>1. Says(body, u, fields)
  BY UserMessage, Zenon
<1> HIDE DEF body
<1>2. /\ body.type = "UserState" /\ body.session = u
      /\ body.listening_channel_add = {} /\ body.listening_channel_remove = {}
      /\ "mute" \notin DOMAIN body /\ "deaf" \notin DOMAIN body
  BY <1>1 DEF Says, Common
<1>3. /\ "user_id" \in DOMAIN body <=> "user_id" \in DOMAIN fields
      /\ "channel_id" \in DOMAIN body <=> "channel_id" \in DOMAIN fields
      /\ "recording" \in DOMAIN body <=> "recording" \in DOMAIN fields
  BY <1>1 DEF Says, Common
<1>4. /\ "channel_id" \in DOMAIN fields => body.channel_id = fields.channel_id
      /\ "recording" \in DOMAIN fields => body.recording = fields.recording
  BY <1>1 DEF Says
<1>5. meant.listens = (wish.listens \cup {<<u, d>> : d \in body.listening_channel_add})
                      \ {<<u, d>> : d \in body.listening_channel_remove}
  BY <1>2
<1>6. Fulfils(body, meant, right)
  BY <1>2, <1>3, <1>4, <1>5, UserRequest
<1> QED
  BY <1>6 DEF body

(* user:move does what it says.                                            *)
LEMMA MoveFulfils ==
    ASSUME IsWorld(wish), NEW u \in wish.here, NEW c
    PROVE  Fulfils(Tcp!user_move(u, c), [wish EXCEPT !.place[u] = c], TRUE)
<1> DEFINE fields == [channel_id |-> c]
           meant  == [wish EXCEPT !.place[u] = c]
<1>1. DOMAIN fields = {"channel_id"} /\ fields.channel_id = c
  OBVIOUS
<1>2. /\ IsWorld(meant) /\ meant.place = [wish.place EXCEPT ![u] = c]
      /\ meant.here = wish.here /\ meant.muted = wish.muted /\ meant.deaf = wish.deaf
      /\ meant.registered = wish.registered /\ meant.listens = wish.listens
      /\ meant.rooms = wish.rooms /\ meant.links = wish.links /\ meant.made = wish.made
      /\ meant.recording = wish.recording /\ meant.target = wish.target
      /\ meant.told = wish.told
  BY DEF IsWorld, Fields
<1> HIDE DEF fields, meant
<1>3. Fulfils(Tcp!With(Tcp!NewUserState(u), fields), meant, TRUE)
  BY <1>1, <1>2, FieldsFulfil DEF Common
<1> QED
  BY <1>3, Zenon DEF fields, meant, Tcp!user_move

(* ... user:register, too,                                                 *)
LEMMA RegisterFulfils ==
    ASSUME IsWorld(wish), NEW u \in wish.here
    PROVE  Fulfils(Tcp!user_register(u), [wish EXCEPT !.registered = @ \cup {u}], TRUE)
<1> DEFINE fields == [user_id |-> 0]
           meant  == [wish EXCEPT !.registered = @ \cup {u}]
<1>1. DOMAIN fields = {"user_id"}
  OBVIOUS
<1>2. /\ IsWorld(meant) /\ meant.registered = wish.registered \cup {u}
      /\ meant.here = wish.here /\ meant.muted = wish.muted /\ meant.deaf = wish.deaf
      /\ meant.place = wish.place /\ meant.listens = wish.listens
      /\ meant.rooms = wish.rooms /\ meant.links = wish.links /\ meant.made = wish.made
      /\ meant.recording = wish.recording /\ meant.target = wish.target
      /\ meant.told = wish.told
  BY DEF IsWorld, Fields
<1> HIDE DEF fields, meant
<1>3. Fulfils(Tcp!With(Tcp!NewUserState(u), fields), meant, TRUE)
  BY <1>1, <1>2, FieldsFulfil DEF Common
<1> QED
  BY <1>3, Zenon DEF fields, meant, Tcp!user_register

(* A message about a user who left changes nothing.                        *)
LEMMA AbsentFulfils ==
    ASSUME IsWorld(wish), NEW u, u \notin wish.here, NEW fields, NEW right,
           DOMAIN fields \cap Common = {}
    PROVE  Fulfils(Tcp!With(Tcp!NewUserState(u), fields), wish, right)
<1> DEFINE body == Tcp!With(Tcp!NewUserState(u), fields)
<1>1. Says(body, u, fields)
  BY UserMessage, Zenon
<1> HIDE DEF body
<1>2. ASSUME NEW m, m.body = body PROVE Tcp!Obeys(wish, m) = wish
  BY <1>1, <1>2 DEF Tcp!Obeys, Says
<1> QED
  BY <1>2 DEF Fulfils, body

(* The field recording: the server is told of it by the client's own user. *)
LEMMA RecordingFulfils ==
    ASSUME IsWorld(wish), NEW u, NEW any
    PROVE  Fulfils(Tcp!With(Tcp!NewUserState(u), [recording |-> any]),
                   IF u \in wish.here THEN [wish EXCEPT !.recording = any] ELSE wish, TRUE)
<1> DEFINE fields == [recording |-> any]
           body   == Tcp!With(Tcp!NewUserState(u), fields)
           meant  == [wish EXCEPT !.recording = any]
<1>1. DOMAIN fields = {"recording"} /\ fields.recording = any
  OBVIOUS
<1>2. /\ IsWorld(meant) /\ meant.recording = any
      /\ meant.here = wish.here /\ meant.muted = wish.muted /\ meant.deaf = wish.deaf
      /\ meant.registered = wish.registered
      /\ meant.place = wish.place /\ meant.listens = wish.listens
      /\ meant.rooms = wish.rooms /\ meant.links = wish.links /\ meant.made = wish.made
      /\ meant.target = wish.target /\ meant.told = wish.told
  BY DEF IsWorld, Fields
<1> HIDE DEF fields, meant
<1>3. u \in wish.here => Fulfils(body, meant, TRUE)
  BY <1>1, <1>2, FieldsFulfil DEF Common
<1>4. u \notin wish.here => Fulfils(body, wish, TRUE)
  BY <1>1, AbsentFulfils DEF Common
<1> QED
  BY <1>3, <1>4, Zenon DEF fields, meant, body

(* One that sets what is not followed.                                     *)
LEMMA TextureFulfils ==
    ASSUME IsWorld(wish), NEW u \in wish.here
    PROVE  Fulfils(Tcp!user_setTexture(u), wish, TRUE)
<1> DEFINE fields == [texture |-> TRUE]
<1>1. DOMAIN fields = {"texture"}
  OBVIOUS
<1> HIDE DEF fields
<1>2. Fulfils(Tcp!With(Tcp!NewUserState(u), fields), wish, TRUE)
  BY <1>1, FieldsFulfil DEF Common
<1> QED
  BY <1>2, Zenon DEF fields, Tcp!user_setTexture

(* ... and user:setComment.                                                *)
LEMMA CommentFulfils ==
    ASSUME IsWorld(wish)
    PROVE  Fulfils(Tcp!client_setComment, wish, TRUE)
<1> DEFINE fields == [comment |-> TRUE]
<1>1. DOMAIN fields = {"comment"}
  OBVIOUS
<1> HIDE DEF fields
<1>2. Self \in wish.here => Fulfils(Tcp!With(Tcp!NewUserState(Self), fields), wish, TRUE)
  BY <1>1, FieldsFulfil DEF Common
<1>3. Self \notin wish.here => Fulfils(Tcp!With(Tcp!NewUserState(Self), fields), wish, TRUE)
  BY <1>1, AbsentFulfils DEF Common
<1> QED
  BY <1>2, <1>3, Zenon DEF fields, Tcp!client_setComment

(* setMuted and setDeaf: who may speak may hear, and who is deaf is mute.  *)
Mutes(fields, on) ==
    /\ on \in BOOLEAN /\ DOMAIN fields \in {{"mute"}, {"mute", "deaf"}}
    /\ fields.mute = on /\ ("deaf" \in DOMAIN fields => fields.deaf = on)

OnlyMutes(meant, u, on, deafens) ==
    /\ meant.muted = IF on THEN wish.muted \cup {u} ELSE wish.muted \ {u}
    /\ meant.deaf = IF ~on THEN wish.deaf \ {u}
                    ELSE IF deafens THEN wish.deaf \cup {u} ELSE wish.deaf
    /\ meant.here = wish.here /\ meant.registered = wish.registered
    /\ meant.place = wish.place /\ meant.listens = wish.listens
    /\ meant.rooms = wish.rooms /\ meant.links = wish.links /\ meant.made = wish.made
    /\ meant.recording = wish.recording /\ meant.target = wish.target
    /\ meant.told = wish.told

(* A message that mutes or deafens does so, and nothing else:              *)
LEMMA MutingFulfils ==
    ASSUME IsWorld(wish), NEW u \in wish.here, NEW on, NEW fields, Mutes(fields, on),
           NEW meant, IsWorld(meant), OnlyMutes(meant, u, on, "deaf" \in DOMAIN fields)
    PROVE  Fulfils(Tcp!With(Tcp!NewUserState(u), fields), meant, TRUE)
<1> DEFINE body == Tcp!With(Tcp!NewUserState(u), fields)
           v == body.session
           r == Tcp!UserState(wish, body)
           deafens == IF Tcp!Has(body, "deaf") THEN body.deaf ELSE v \in wish.deaf
           muted   == IF Tcp!Has(body, "mute")
                      THEN body.mute \/ (Tcp!Has(body, "deaf") /\ body.deaf)
                      ELSE v \in wish.muted \/ deafens
<1>1. Says(body, u, fields)
  BY UserMessage DEF Common, Mutes
<1> HIDE DEF body
<1>2. /\ body.type = "UserState" /\ body.session = u
      /\ body.listening_channel_add = {} /\ body.listening_channel_remove = {}
      /\ body.mute = on /\ Tcp!Has(body, "mute")
      /\ Tcp!Has(body, "deaf") <=> "deaf" \in DOMAIN fields
      /\ "deaf" \in DOMAIN fields => body.deaf = on
  BY <1>1 DEF Says, Common, Mutes, Tcp!Has
<1>3. ~Tcp!Has(body, "user_id") /\ ~Tcp!Has(body, "channel_id") /\ ~Tcp!Has(body, "recording")
  BY <1>1 DEF Says, Common, Mutes, Tcp!Has
<1>4. wish = [f \in Fields |-> wish[f]]
  BY DEF IsWorld
<1>5. /\ r = [f \in Fields |-> r[f]]
      /\ r.here = wish.here
      /\ r.muted = Tcp!Put(wish.muted, v, muted)
      /\ r.deaf = Tcp!Put(wish.deaf, v, deafens /\ muted)
      /\ r.registered = Tcp!Put(wish.registered, v,
                                v \in wish.registered \/ Tcp!Has(body, "user_id"))
      /\ r.place = IF Tcp!Has(body, "channel_id")
                   THEN [wish.place EXCEPT ![v] = body.channel_id] ELSE wish.place
      /\ r.listens = (wish.listens \cup {<<v, c>> : c \in body.listening_channel_add})
                     \ {<<v, c>> : c \in body.listening_channel_remove}
      /\ r.rooms = wish.rooms /\ r.links = wish.links /\ r.made = wish.made
      /\ r.recording = IF Tcp!Has(body, "recording") THEN body.recording
                       ELSE wish.recording
      /\ r.target = wish.target /\ r.told = wish.told
  BY <1>4, UserStateIs, Zenon
<1>6. muted = on
  BY <1>2, Zenon DEF Mutes
<1>7. deafens = IF "deaf" \in DOMAIN fields THEN on ELSE u \in wish.deaf
  BY <1>2, Zenon
<1>8. /\ Tcp!Put(wish.muted, u, on) = meant.muted
      /\ Tcp!Put(wish.deaf, u,
                 (IF "deaf" \in DOMAIN fields THEN on ELSE u \in wish.deaf) /\ on)
            = meant.deaf
  BY DEF Mutes, OnlyMutes, IsWorld, Tcp!Put
<1> HIDE DEF muted, deafens, r
<1>9. /\ r.muted = meant.muted /\ r.deaf = meant.deaf
      /\ r.registered = meant.registered
  <2>1. r.muted = meant.muted /\ r.deaf = meant.deaf
    BY <1>2, <1>5, <1>6, <1>7, <1>8, Zenon
  <2>2. Tcp!Put(wish.registered, u, u \in wish.registered \/ Tcp!Has(body, "user_id"))
            = wish.registered
    BY <1>3 DEF IsWorld, Tcp!Put
  <2> QED
    BY <1>2, <1>5, <1>8, <2>1, <2>2 DEF v, OnlyMutes
<1>10. r.listens = meant.listens
  BY <1>2, <1>5 DEF OnlyMutes
<1>11. r = meant
  BY <1>3, <1>4, <1>5, <1>9, <1>10, SameWorld DEF OnlyMutes, IsWorld, Same
<1>12. \A m : m.body = body => Tcp!Obeys(wish, m) = r
  BY <1>2 DEF Tcp!Obeys, r
<1> QED
  BY <1>11, <1>12 DEF Fulfils, body

(* ... that of user:setMuted,                                              *)
LEMMA SetMutedFulfils ==
    ASSUME IsWorld(wish), NEW u \in wish.here, NEW b \in Tcp!Given
    PROVE  Fulfils(Tcp!user_setMuted(u, b),
                   [wish EXCEPT !.muted = Tcp!Put(@, u, b # "false"),
                                !.deaf = IF b # "false" THEN @ ELSE @ \ {u}], b # "none")
<1> DEFINE fields == [mute |-> b = "true"]
           meant  == [wish EXCEPT !.muted = Tcp!Put(@, u, b # "false"),
                                  !.deaf = IF b # "false" THEN @ ELSE @ \ {u}]
           on     == b = "true"
<1>1. DOMAIN fields = {"mute"} /\ fields.mute = on
  OBVIOUS
<1>2. /\ meant = [f \in Fields |-> meant[f]]
      /\ meant.muted = Tcp!Put(wish.muted, u, b # "false")
      /\ meant.deaf = IF b # "false" THEN wish.deaf ELSE wish.deaf \ {u}
      /\ meant.here = wish.here /\ meant.registered = wish.registered
      /\ meant.place = wish.place /\ meant.listens = wish.listens
      /\ meant.rooms = wish.rooms /\ meant.links = wish.links /\ meant.made = wish.made
      /\ meant.recording = wish.recording /\ meant.target = wish.target
      /\ meant.told = wish.told
  BY DEF IsWorld, Fields
<1> HIDE DEF fields, meant
<1>3. IsWorld(meant)
  BY <1>2 DEF IsWorld, Tcp!Put
<1>4. CASE b = "none"
  <2>1. ~(b # "none")
    BY <1>4
  <2> QED
    BY <1>3, <2>1 DEF Fulfils, meant
<1>5. CASE b # "none"
  <2>1. on \in BOOLEAN /\ (on <=> b # "false")
    BY <1>5 DEF Tcp!Given
  <2>2. /\ meant.muted = IF on THEN wish.muted \cup {u} ELSE wish.muted \ {u}
        /\ meant.deaf = IF ~on THEN wish.deaf \ {u} ELSE wish.deaf
    BY <1>2, <2>1 DEF Tcp!Put
  <2> HIDE DEF on
  <2>3. /\ Mutes(fields, on)
        /\ OnlyMutes(meant, u, on, "deaf" \in DOMAIN fields)
    BY <1>1, <1>2, <2>1, <2>2 DEF Mutes, OnlyMutes
  <2>4. Fulfils(Tcp!With(Tcp!NewUserState(u), fields), meant, TRUE)
    BY <1>3, <2>3, MutingFulfils, Zenon
  <2>5. Fulfils(Tcp!user_setMuted(u, b), meant, TRUE)
    BY <2>4, Zenon DEF fields, Tcp!user_setMuted, Tcp!toboolean
  <2> QED
    BY <2>5 DEF Fulfils, meant
<1> QED
  BY <1>4, <1>5, Zenon

(* ... and that of user:setDeaf.                                           *)
LEMMA SetDeafFulfils ==
    ASSUME IsWorld(wish), NEW u \in wish.here, NEW b \in Tcp!Given
    PROVE  Fulfils(Tcp!user_setDeaf(u, b),
                   [wish EXCEPT !.muted = Tcp!Put(@, u, b # "false"),
                                !.deaf = Tcp!Put(@, u, b # "false")], b # "none")
<1> DEFINE fields == [mute |-> b = "true", deaf |-> b = "true"]
           meant  == [wish EXCEPT !.muted = Tcp!Put(@, u, b # "false"),
                                  !.deaf = Tcp!Put(@, u, b # "false")]
           on     == b = "true"
<1>1. DOMAIN fields = {"mute", "deaf"} /\ fields.mute = on /\ fields.deaf = on
  OBVIOUS
<1>2. /\ meant = [f \in Fields |-> meant[f]]
      /\ meant.muted = Tcp!Put(wish.muted, u, b # "false")
      /\ meant.deaf = Tcp!Put(wish.deaf, u, b # "false")
      /\ meant.here = wish.here /\ meant.registered = wish.registered
      /\ meant.place = wish.place /\ meant.listens = wish.listens
      /\ meant.rooms = wish.rooms /\ meant.links = wish.links /\ meant.made = wish.made
      /\ meant.recording = wish.recording /\ meant.target = wish.target
      /\ meant.told = wish.told
  BY DEF IsWorld, Fields
<1> HIDE DEF fields, meant
<1>3. IsWorld(meant)
  BY <1>2 DEF IsWorld, Tcp!Put
<1>4. CASE b = "none"
  <2>1. ~(b # "none")
    BY <1>4
  <2> QED
    BY <1>3, <2>1 DEF Fulfils, meant
<1>5. CASE b # "none"
  <2>1. on \in BOOLEAN /\ (on <=> b # "false")
    BY <1>5 DEF Tcp!Given
  <2>2. /\ meant.muted = IF on THEN wish.muted \cup {u} ELSE wish.muted \ {u}
        /\ meant.deaf = IF ~on THEN wish.deaf \ {u} ELSE wish.deaf \cup {u}
    BY <1>2, <2>1 DEF Tcp!Put
  <2> HIDE DEF on
  <2>3. /\ Mutes(fields, on)
        /\ OnlyMutes(meant, u, on, "deaf" \in DOMAIN fields)
    BY <1>1, <1>2, <2>1, <2>2 DEF Mutes, OnlyMutes
  <2>4. Fulfils(Tcp!With(Tcp!NewUserState(u), fields), meant, TRUE)
    BY <1>3, <2>3, MutingFulfils, Zenon
  <2>5. Fulfils(Tcp!user_setDeaf(u, b), meant, TRUE)
    BY <2>4, Zenon DEF fields, Tcp!user_setDeaf, Tcp!toboolean
  <2> QED
    BY <2>5 DEF Fulfils, meant
<1> QED
  BY <1>4, <1>5, Zenon

(* A list given as plain arguments counts for its last only; with one      *)
(* argument that is all of it.                                             *)
LEMMA ListedWhole ==
    ASSUME NEW S, NEW list \in Tcp!Lists(S), NEW plain \in BOOLEAN, Tcp!Right(list, plain)
    PROVE  Tcp!Listed(list, plain) = Tcp!ToSet(list)
<1>1. PICK n \in 1 .. 2 : list \in [1 .. n -> S]
  BY DEF Tcp!Lists
<1>2. list \in Seq(S) /\ Len(list) = n /\ DOMAIN list = 1 .. n
  BY <1>1
<1>3. ASSUME plain
      PROVE  [i \in DOMAIN list |-> Tcp!Last(list)] = list
  BY <1>2, <1>3 DEF Tcp!Right, Tcp!Last
<1> QED
  BY <1>3 DEF Tcp!Listed, Tcp!OfLast

(* user:listen does what it says,                                          *)
LEMMA ListenFulfils ==
    ASSUME IsWorld(wish), NEW u \in wish.here, NEW S, NEW list \in Tcp!Lists(S),
           NEW plain \in BOOLEAN
    PROVE  Fulfils(Tcp!user_listen(u, list, plain),
                   [wish EXCEPT !.listens = @ \cup ({u} \X Tcp!ToSet(list))],
                   Tcp!Right(list, plain))
<1> DEFINE body  == Tcp!user_listen(u, list, plain)
           meant == [wish EXCEPT !.listens = @ \cup ({u} \X Tcp!ToSet(list))]
<1>1. /\ IsWorld(meant) /\ meant.listens = wish.listens \cup ({u} \X Tcp!ToSet(list))
      /\ meant.here = wish.here /\ meant.muted = wish.muted /\ meant.deaf = wish.deaf
      /\ meant.registered = wish.registered /\ meant.place = wish.place
      /\ meant.rooms = wish.rooms /\ meant.links = wish.links /\ meant.made = wish.made
      /\ meant.recording = wish.recording /\ meant.target = wish.target
      /\ meant.told = wish.told
  BY DEF IsWorld, Fields
<1>2. /\ body.type = "UserState" /\ body.session = u
      /\ body.listening_channel_add = Tcp!Listed(list, plain)
      /\ body.listening_channel_remove = {}
      /\ DOMAIN body \cap {"mute", "deaf", "user_id", "channel_id", "recording"} = {}
  BY DEF Tcp!user_listen, Tcp!NewUserState
<1> HIDE DEF body, meant
<1>3. ASSUME Tcp!Right(list, plain)
      PROVE  Fulfils(body, meant, TRUE)
  <2>1. body.listening_channel_add = Tcp!ToSet(list)
    BY <1>2, <1>3, ListedWhole
  <2>2. meant.listens = (wish.listens
                         \cup {<<body.session, c>> : c \in body.listening_channel_add})
                        \ {<<body.session, c>> : c \in body.listening_channel_remove}
    BY <1>1, <1>2, <2>1
  <2>3. /\ body.session \in wish.here
        /\ "mute" \notin DOMAIN body /\ "deaf" \notin DOMAIN body
        /\ meant.registered = IF "user_id" \in DOMAIN body
                              THEN wish.registered \cup {body.session} ELSE wish.registered
        /\ meant.place = IF "channel_id" \in DOMAIN body
                         THEN [wish.place EXCEPT ![body.session] = body.channel_id]
                         ELSE wish.place
        /\ meant.recording = IF "recording" \in DOMAIN body THEN body.recording
                             ELSE wish.recording
    BY <1>1, <1>2
  <2> QED
    BY <1>1, <1>2, <2>2, <2>3, UserRequest, Zenon
<1> QED
  BY <1>1, <1>3 DEF Fulfils, body, meant

(* ... and user:unlisten.                                                  *)
LEMMA UnlistenFulfils ==
    ASSUME IsWorld(wish), NEW u \in wish.here, NEW S, NEW list \in Tcp!Lists(S),
           NEW plain \in BOOLEAN
    PROVE  Fulfils(Tcp!user_unlisten(u, list, plain),
                   [wish EXCEPT !.listens = @ \ ({u} \X Tcp!ToSet(list))],
                   Tcp!Right(list, plain))
<1> DEFINE body  == Tcp!user_unlisten(u, list, plain)
           meant == [wish EXCEPT !.listens = @ \ ({u} \X Tcp!ToSet(list))]
<1>1. /\ IsWorld(meant) /\ meant.listens = wish.listens \ ({u} \X Tcp!ToSet(list))
      /\ meant.here = wish.here /\ meant.muted = wish.muted /\ meant.deaf = wish.deaf
      /\ meant.registered = wish.registered /\ meant.place = wish.place
      /\ meant.rooms = wish.rooms /\ meant.links = wish.links /\ meant.made = wish.made
      /\ meant.recording = wish.recording /\ meant.target = wish.target
      /\ meant.told = wish.told
  BY DEF IsWorld, Fields
<1>2. /\ body.type = "UserState" /\ body.session = u
      /\ body.listening_channel_remove = Tcp!Listed(list, plain)
      /\ body.listening_channel_add = {}
      /\ DOMAIN body \cap {"mute", "deaf", "user_id", "channel_id", "recording"} = {}
  BY DEF Tcp!user_unlisten, Tcp!NewUserState
<1> HIDE DEF body, meant
<1>3. ASSUME Tcp!Right(list, plain)
      PROVE  Fulfils(body, meant, TRUE)
  <2>1. body.listening_channel_remove = Tcp!ToSet(list)
    BY <1>2, <1>3, ListedWhole
  <2>2. meant.listens = (wish.listens
                         \cup {<<body.session, c>> : c \in body.listening_channel_add})
                        \ {<<body.session, c>> : c \in body.listening_channel_remove}
    BY <1>1, <1>2, <2>1
  <2>3. /\ body.session \in wish.here
        /\ "mute" \notin DOMAIN body /\ "deaf" \notin DOMAIN body
        /\ meant.registered = IF "user_id" \in DOMAIN body
                              THEN wish.registered \cup {body.session} ELSE wish.registered
        /\ meant.place = IF "channel_id" \in DOMAIN body
                         THEN [wish.place EXCEPT ![body.session] = body.channel_id]
                         ELSE wish.place
        /\ meant.recording = IF "recording" \in DOMAIN body THEN body.recording
                             ELSE wish.recording
    BY <1>1, <1>2
  <2> QED
    BY <1>1, <1>2, <2>2, <2>3, UserRequest, Zenon
<1> QED
  BY <1>1, <1>3 DEF Fulfils, body, meant

(* channel.c: link, unlink, setDescription, remove, create.                *)
LEMMA LinksFulfil ==
    ASSUME IsWorld(wish), NEW c, NEW S, NEW list \in Tcp!Lists(S), NEW plain \in BOOLEAN
    PROVE  /\ Fulfils(Tcp!channel_link(c, list, plain),
                      [wish EXCEPT !.links = @ \cup {{c, d} : d \in Tcp!ToSet(list)}],
                      Tcp!Right(list, plain))
           /\ Fulfils(Tcp!channel_unlink(c, list, plain),
                      [wish EXCEPT !.links = @ \ {{c, d} : d \in Tcp!ToSet(list)}],
                      Tcp!Right(list, plain))
<1> DEFINE links   == Tcp!channel_link(c, list, plain)
           unlinks == Tcp!channel_unlink(c, list, plain)
           more    == [wish EXCEPT !.links = @ \cup {{c, d} : d \in Tcp!ToSet(list)}]
           less    == [wish EXCEPT !.links = @ \ {{c, d} : d \in Tcp!ToSet(list)}]
<1>1. IsWorld(more) /\ IsWorld(less)
  BY DEF IsWorld, Fields
<1>2. /\ links.type = "ChannelState" /\ links.channel_id = c
      /\ "channel_id" \in DOMAIN links
      /\ links.links_add = Tcp!Listed(list, plain) /\ links.links_remove = {}
  BY DEF Tcp!channel_link, Tcp!NewChannelState
<1>3. /\ unlinks.type = "ChannelState" /\ unlinks.channel_id = c
      /\ "channel_id" \in DOMAIN unlinks
      /\ unlinks.links_remove = Tcp!Listed(list, plain) /\ unlinks.links_add = {}
  BY DEF Tcp!channel_unlink, Tcp!NewChannelState
<1> HIDE DEF links, unlinks
<1>4. ASSUME Tcp!Right(list, plain), NEW m, m.body = links
      PROVE  Tcp!Obeys(wish, m) = more
  <2>1. Tcp!Obeys(wish, m) = Tcp!ChannelState(wish, links)
    BY <1>2, <1>4 DEF Tcp!Obeys
  <2>2. Tcp!Listed(list, plain) = Tcp!ToSet(list)
    BY <1>4, ListedWhole
  <2> DEFINE adds    == {{links.channel_id, d} : d \in links.links_add}
             removes == {{links.channel_id, d} : d \in links.links_remove}
  <2>3. Tcp!ChannelState(wish, links) = [wish EXCEPT !.links = (@ \cup adds) \ removes]
    BY <1>2, Zenon DEF Tcp!ChannelState, Tcp!Has
  <2>4. adds = {{c, d} : d \in Tcp!ToSet(list)}
    BY <1>2, <2>2
  <2>5. removes = {}
    BY <1>2
  <2> HIDE DEF adds, removes
  <2>6. (wish.links \cup adds) \ removes = wish.links \cup adds
    BY <2>5
  <2> QED
    BY <2>1, <2>3, <2>4, <2>6, Zenon
<1>5. ASSUME Tcp!Right(list, plain), NEW m, m.body = unlinks
      PROVE  Tcp!Obeys(wish, m) = less
  <2>1. Tcp!Obeys(wish, m) = Tcp!ChannelState(wish, unlinks)
    BY <1>3, <1>5 DEF Tcp!Obeys
  <2>2. Tcp!Listed(list, plain) = Tcp!ToSet(list)
    BY <1>5, ListedWhole
  <2>3. Tcp!ChannelState(wish, unlinks) =
            [wish EXCEPT !.links = (@ \cup {{c, d} : d \in {}})
                                   \ {{c, d} : d \in Tcp!ToSet(list)}]
    BY <1>3, <2>2, Zenon DEF Tcp!ChannelState, Tcp!Has
  <2>4. (wish.links \cup {{c, d} : d \in {}}) \ {{c, d} : d \in Tcp!ToSet(list)}
            = wish.links \ {{c, d} : d \in Tcp!ToSet(list)}
    OBVIOUS
  <2> QED
    BY <2>1, <2>3, <2>4, Zenon
<1> QED
  BY <1>1, <1>4, <1>5, Zenon DEF Fulfils, links, unlinks

(* channel:setDescription does what it says,                               *)
LEMMA DescriptionFulfils ==
    ASSUME IsWorld(wish), NEW c
    PROVE  Fulfils(Tcp!channel_setDescription(c), wish, TRUE)
<1> DEFINE new  == Tcp!NewChannelState(c)
           body == Tcp!channel_setDescription(c)
<1>1. /\ new["type"] = "ChannelState" /\ new["channel_id"] = c
      /\ new["links_add"] = {} /\ new["links_remove"] = {}
      /\ DOMAIN new = {"type", "channel_id", "links_add", "links_remove"}
  BY DEF Tcp!NewChannelState
<1>2. /\ DOMAIN body = DOMAIN new \cup {"description"}
      /\ \A f \in DOMAIN new : body[f] = new[f]
  BY <1>1 DEF Tcp!channel_setDescription, Tcp!With
<1> HIDE DEF new, body
<1>3. /\ body.type = "ChannelState" /\ body.channel_id = c
      /\ body.links_add = {} /\ body.links_remove = {} /\ "channel_id" \in DOMAIN body
  BY <1>1, <1>2
<1>4. ASSUME NEW m, m.body = body
      PROVE  Tcp!Obeys(wish, m) = wish
  <2>1. Tcp!Obeys(wish, m) = Tcp!ChannelState(wish, body)
    BY <1>3, <1>4 DEF Tcp!Obeys
  <2>2. Tcp!ChannelState(wish, body) =
            [wish EXCEPT !.links = (@ \cup {{c, d} : d \in {}}) \ {{c, d} : d \in {}}]
    BY <1>3, Zenon DEF Tcp!ChannelState, Tcp!Has
  <2>3. (wish.links \cup {{c, d} : d \in {}}) \ {{c, d} : d \in {}} = wish.links
    OBVIOUS
  <2>4. [wish EXCEPT !.links = wish.links] = wish
    BY DEF IsWorld
  <2> QED
    BY <2>1, <2>2, <2>3, <2>4, Zenon
<1> QED
  BY <1>4 DEF Fulfils, body

(* ... channel:remove, too,                                                *)
LEMMA RemoveFulfils ==
    ASSUME IsWorld(wish), NEW c
    PROVE  Fulfils(Tcp!channel_remove(c), Tcp!RemoveChannel(wish, c), TRUE)
<1>1. IsWorld(Tcp!RemoveChannel(wish, c))
  BY DEF IsWorld, Fields, Tcp!RemoveChannel
<1>2. ASSUME NEW m, m.body = Tcp!channel_remove(c)
      PROVE  Tcp!Obeys(wish, m) = Tcp!RemoveChannel(wish, c)
  <2>1. m.body.type = "ChannelRemove" /\ m.body.channel_id = c
    BY <1>2 DEF Tcp!channel_remove
  <2> QED
    BY <2>1 DEF Tcp!Obeys
<1> QED
  BY <1>1, <1>2 DEF Fulfils

(* ... and channel:create is marked as one that need not.                  *)
LEMMA CreateFulfils ==
    ASSUME IsWorld(wish), NEW c
    PROVE  Fulfils(Tcp!channel_create(c), [wish EXCEPT !.made = @ \cup {c}], FALSE)
<1>1. IsWorld([wish EXCEPT !.made = @ \cup {c}])
  BY DEF IsWorld, Fields
<1> QED
  BY <1>1 DEF Fulfils

(* registerVoiceTarget.                                                    *)
LEMMA TargetFulfils ==
    ASSUME IsWorld(wish)
    PROVE  Fulfils([type |-> "VoiceTarget", id |-> 1, targets |-> Tcp!Whispers],
                   [wish EXCEPT !.target = Tcp!Whispers], TRUE)
<1> DEFINE body == [type |-> "VoiceTarget", id |-> 1, targets |-> Tcp!Whispers]
<1>1. body.type = "VoiceTarget" /\ body.targets = Tcp!Whispers
  OBVIOUS
<1> HIDE DEF body
<1>2. IsWorld([wish EXCEPT !.target = Tcp!Whispers])
  BY DEF IsWorld, Fields
<1>3. ASSUME NEW m, m.body = body
      PROVE  Tcp!Obeys(wish, m) = [wish EXCEPT !.target = Tcp!Whispers]
  BY <1>1, <1>3 DEF Tcp!Obeys
<1> QED
  BY <1>2, <1>3 DEF Fulfils, body

-----------------------------------------------------------------------------
(* The requests: every step of a script is a call that does what it means, *)
(* or asks for nothing.                                                    *)

Fulfilling ==
    \E body, meant, right :
        right \in BOOLEAN /\ Fulfils(body, meant, right) /\ Tcp!Ask(body, meant, right)

(* A call is fulfilling if its message is,                                 *)
LEMMA Witness ==
    ASSUME NEW body, NEW meant, NEW right, right \in BOOLEAN,
           Fulfils(body, meant, right), Tcp!Ask(body, meant, right)
    PROVE  Fulfilling
BY Zenon DEF Fulfilling

(* ... be it one that asks for a change,                                   *)
LEMMA AsksWitness ==
    ASSUME NEW body, NEW meant, Fulfils(body, meant, TRUE), Tcp!Asks(body, meant)
    PROVE  Fulfilling
BY Witness, Zenon DEF Tcp!Asks

(* ... or one that only tells something.                                   *)
LEMMA TellsWitness ==
    ASSUME IsWorld(wish), NEW body, Tcp!Tells(body),
           body.type \notin {"UserState", "ChannelState", "UserRemove", "ChannelRemove",
                             "VoiceTarget", "Other"}
    PROVE  Fulfilling
<1>1. Fulfils(body, [wish EXCEPT !.told = body], TRUE)
  BY TellsFulfil, Zenon
<1> QED
  BY <1>1, AsksWitness, Zenon DEF Tcp!Tells

(* All calls of a user: those that ask,                                    *)
LEMMA UserChangesFulfil ==
    ASSUME IsWorld(wish), NEW u \in wish.here, Tcp!UserChanges(u)
    PROVE  Fulfilling
<1>1. ASSUME Tcp!Asks(Tcp!user_kick(u), [wish EXCEPT !.here = @ \ {u}])
      PROVE  Fulfilling
  BY <1>1, KicksFulfil, AsksWitness, Zenon
<1>2. ASSUME Tcp!Asks(Tcp!user_ban(u), [wish EXCEPT !.here = @ \ {u}])
      PROVE  Fulfilling
  BY <1>2, KicksFulfil, AsksWitness, Zenon
<1>3. ASSUME NEW c, Tcp!Asks(Tcp!user_move(u, c), [wish EXCEPT !.place[u] = c])
      PROVE  Fulfilling
  BY <1>3, MoveFulfils, AsksWitness, Zenon
<1>4. ASSUME NEW b \in Tcp!Given,
             Tcp!Ask(Tcp!user_setMuted(u, b),
                     [wish EXCEPT !.muted = Tcp!Put(@, u, b # "false"),
                                  !.deaf = IF b # "false" THEN @ ELSE @ \ {u}], b # "none")
      PROVE  Fulfilling
  <2>1. (b # "none") \in BOOLEAN
    BY Zenon
  <2> QED
    BY <1>4, <2>1, SetMutedFulfils, Witness, Zenon
<1>5. ASSUME NEW b \in Tcp!Given,
             Tcp!Ask(Tcp!user_setDeaf(u, b),
                     [wish EXCEPT !.muted = Tcp!Put(@, u, b # "false"),
                                  !.deaf = Tcp!Put(@, u, b # "false")], b # "none")
      PROVE  Fulfilling
  <2>1. (b # "none") \in BOOLEAN
    BY Zenon
  <2> QED
    BY <1>5, <2>1, SetDeafFulfils, Witness, Zenon
<1>6. ASSUME Tcp!Asks(Tcp!user_register(u), [wish EXCEPT !.registered = @ \cup {u}])
      PROVE  Fulfilling
  BY <1>6, RegisterFulfils, AsksWitness, Zenon
<1>7. ASSUME NEW list \in Tcp!Lists(world.rooms), NEW plain \in BOOLEAN,
             Tcp!Ask(Tcp!user_listen(u, list, plain),
                     [wish EXCEPT !.listens = @ \cup ({u} \X Tcp!ToSet(list))],
                     Tcp!Right(list, plain))
      PROVE  Fulfilling
  <2>1. Tcp!Right(list, plain) \in BOOLEAN
    BY Zenon DEF Tcp!Right
  <2> QED
    BY <1>7, <2>1, ListenFulfils, Witness, Zenon
<1>8. ASSUME NEW list \in Tcp!Lists(world.rooms), NEW plain \in BOOLEAN,
             Tcp!Ask(Tcp!user_unlisten(u, list, plain),
                     [wish EXCEPT !.listens = @ \ ({u} \X Tcp!ToSet(list))],
                     Tcp!Right(list, plain))
      PROVE  Fulfilling
  <2>1. Tcp!Right(list, plain) \in BOOLEAN
    BY Zenon DEF Tcp!Right
  <2> QED
    BY <1>8, <2>1, UnlistenFulfils, Witness, Zenon
<1> QED
  BY <1>1, <1>2, <1>3, <1>4, <1>5, <1>6, <1>7, <1>8, Zenon DEF Tcp!UserChanges

(* ... and those that tell.                                                *)
LEMMA UserTellsFulfil ==
    ASSUME IsWorld(wish), NEW u \in wish.here, Tcp!UserTells(u)
    PROVE  Fulfilling
<1> DEFINE Followed == {"UserState", "ChannelState", "UserRemove", "ChannelRemove",
                        "VoiceTarget", "Other"}
<1>1. /\ Tcp!user_message(u).type \notin Followed
      /\ Tcp!user_sendPluginData(u).type \notin Followed
      /\ Tcp!user_contextAction(u).type \notin Followed
      /\ Tcp!user_requestTextureBlob(u).type \notin Followed
      /\ Tcp!user_requestCommentBlob(u).type \notin Followed
      /\ Tcp!user_request_stats(u).type \notin Followed
  BY DEF Tcp!user_message, Tcp!user_sendPluginData, Tcp!user_contextAction,
         Tcp!user_requestTextureBlob, Tcp!user_requestCommentBlob, Tcp!user_request_stats
<1>2. ASSUME NEW body, Tcp!Tells(body), body.type \notin Followed
      PROVE  Fulfilling
  BY <1>2, TellsWitness, Zenon
<1>3. ASSUME Tcp!Asks(Tcp!user_setTexture(u), wish)
      PROVE  Fulfilling
  BY <1>3, TextureFulfils, AsksWitness, Zenon
<1>4. ASSUME NEW only \in BOOLEAN,
             Tcp!Ask(Tcp!user_request_stats(u),
                     [wish EXCEPT !.told = Tcp!user_request_stats(u)], ~only)
      PROVE  Fulfilling
  <2>1. (~only) \in BOOLEAN
    BY Zenon
  <2>2. Fulfils(Tcp!user_request_stats(u),
                [wish EXCEPT !.told = Tcp!user_request_stats(u)], ~only)
    BY <1>1, TellsFulfil, Zenon
  <2> QED
    BY <1>4, <2>1, <2>2, Witness, Zenon
<1> HIDE DEF Followed
<1> QED
  BY <1>1, <1>2, <1>3, <1>4, Zenon DEF Tcp!UserTells

Telling == Tcp!Called /\ UNCHANGED <<Tcp!wire, asked, wish, astray>>

(* client:record, which may have nothing to say.                           *)
LEMMA RecordsFulfil ==
    ASSUME IsWorld(wish), NEW users, Tcp!Records(users)
    PROVE  Fulfilling \/ Telling
<1> DEFINE any   == users # {}
           meant == IF Self \in wish.here THEN [wish EXCEPT !.recording = any] ELSE wish
<1>1. CASE any = recording
  BY <1>1, Zenon DEF Tcp!Records, Telling
<1>2. CASE any # recording
  <2>1. Tcp!Asks(Tcp!With(Tcp!NewUserState(Self), [recording |-> any]), meant)
    BY <1>2, Zenon DEF Tcp!Records
  <2> HIDE DEF any
  <2>2. Fulfils(Tcp!With(Tcp!NewUserState(Self), [recording |-> any]), meant, TRUE)
    BY RecordingFulfils, Zenon
  <2> QED
    BY <2>1, <2>2, AsksWitness, Zenon
<1> QED
  BY <1>1, <1>2, Zenon

(* All calls of a channel: those that ask,                                 *)
LEMMA ChannelChangesFulfil ==
    ASSUME IsWorld(wish), NEW c, Tcp!ChannelChanges(c)
    PROVE  Fulfilling
<1>1. ASSUME NEW list \in Tcp!Lists(world.rooms \ {c}), NEW plain \in BOOLEAN,
             Tcp!Ask(Tcp!channel_link(c, list, plain),
                     [wish EXCEPT !.links = @ \cup {{c, d} : d \in Tcp!ToSet(list)}],
                     Tcp!Right(list, plain))
      PROVE  Fulfilling
  <2>1. Tcp!Right(list, plain) \in BOOLEAN
    BY Zenon DEF Tcp!Right
  <2> QED
    BY <1>1, <2>1, LinksFulfil, Witness, Zenon
<1>2. ASSUME NEW list \in Tcp!Lists(world.rooms \ {c}), NEW plain \in BOOLEAN,
             Tcp!Ask(Tcp!channel_unlink(c, list, plain),
                     [wish EXCEPT !.links = @ \ {{c, d} : d \in Tcp!ToSet(list)}],
                     Tcp!Right(list, plain))
      PROVE  Fulfilling
  <2>1. Tcp!Right(list, plain) \in BOOLEAN
    BY Zenon DEF Tcp!Right
  <2> QED
    BY <1>2, <2>1, LinksFulfil, Witness, Zenon
<1>3. ASSUME Tcp!Asks(Tcp!channel_setDescription(c), wish)
      PROVE  Fulfilling
  BY <1>3, DescriptionFulfils, AsksWitness, Zenon
<1>4. ASSUME Tcp!Asks(Tcp!channel_remove(c), Tcp!RemoveChannel(wish, c))
      PROVE  Fulfilling
  BY <1>4, RemoveFulfils, AsksWitness, Zenon
<1>5. ASSUME Tcp!Ask(Tcp!channel_create(c), [wish EXCEPT !.made = @ \cup {c}], FALSE)
      PROVE  Fulfilling
  <2>1. FALSE \in BOOLEAN
    BY Zenon
  <2> QED
    BY <1>5, <2>1, CreateFulfils, Witness, Zenon
<1> QED
  BY <1>1, <1>2, <1>3, <1>4, <1>5, Zenon DEF Tcp!ChannelChanges

(* ... and those that tell.                                                *)
LEMMA ChannelTellsFulfil ==
    ASSUME IsWorld(wish), NEW c, Tcp!ChannelTells(c)
    PROVE  Fulfilling
<1> DEFINE Followed == {"UserState", "ChannelState", "UserRemove", "ChannelRemove",
                        "VoiceTarget", "Other"}
<1>1. /\ Tcp!channel_message(c).type \notin Followed
      /\ Tcp!channel_requestACL(c).type \notin Followed
      /\ Tcp!channel_contextAction(c).type \notin Followed
      /\ Tcp!channel_requestPermissions(c).type \notin Followed
      /\ Tcp!channel_requestDescriptionBlob(c).type \notin Followed
  BY DEF Tcp!channel_message, Tcp!channel_requestACL, Tcp!channel_contextAction,
         Tcp!channel_requestPermissions, Tcp!channel_requestDescriptionBlob
<1>2. ASSUME NEW body, Tcp!Tells(body), body.type \notin Followed
      PROVE  Fulfilling
  BY <1>2, TellsWitness, Zenon
<1> HIDE DEF Followed
<1> QED
  BY <1>1, <1>2, Zenon DEF Tcp!ChannelTells

(* All calls of the client.                                                *)
LEMMA ClientCallsFulfil ==
    ASSUME IsWorld(wish), Tcp!ClientCalls
    PROVE  Fulfilling
<1> DEFINE Followed == {"UserState", "ChannelState", "UserRemove", "ChannelRemove",
                        "VoiceTarget", "Other"}
<1>1. /\ Tcp!client_auth.type \notin Followed
      /\ Tcp!client_setTokens.type \notin Followed
      /\ Tcp!client_requestBanList.type \notin Followed
      /\ Tcp!client_requestUserList.type \notin Followed
  BY DEF Tcp!client_auth, Tcp!client_setTokens, Tcp!client_requestBanList,
         Tcp!client_requestUserList
<1>2. \A list : /\ Tcp!client_sendPluginData(list).type \notin Followed
                /\ Tcp!client_requestTextureBlob(list).type \notin Followed
                /\ Tcp!client_requestCommentBlob(list).type \notin Followed
                /\ Tcp!client_requestDescriptionBlob(list).type \notin Followed
  BY DEF Tcp!client_sendPluginData, Tcp!client_requestTextureBlob,
         Tcp!client_requestCommentBlob, Tcp!client_requestDescriptionBlob
<1>3. ASSUME NEW body, Tcp!Tells(body), body.type \notin Followed
      PROVE  Fulfilling
  BY <1>3, TellsWitness, Zenon
<1>4. ASSUME Tcp!Asks(Tcp!client_setComment, wish)
      PROVE  Fulfilling
  BY <1>4, CommentFulfils, AsksWitness, Zenon
<1>5. ASSUME Tcp!Ask(Tcp!channel_create(Root), [wish EXCEPT !.made = @ \cup {Root}], FALSE)
      PROVE  Fulfilling
  <2>1. FALSE \in BOOLEAN
    BY Zenon
  <2> QED
    BY <1>5, <2>1, CreateFulfils, Witness, Zenon
<1> HIDE DEF Followed
<1> QED
  BY <1>1, <1>2, <1>3, <1>4, <1>5, Zenon DEF Tcp!ClientCalls

(* Every step of the requests.                                             *)
LEMMA StepIsRequest ==
    ASSUME IsWorld(wish), Tcp!Next
    PROVE  \/ Fulfilling
           \/ Telling
           \/ Tcp!Other
           \/ UNCHANGED <<Tcp!wire, Tcp!ghosts>>
<1>1. ASSUME NEW u \in Users, Tcp!UserCalls(u)
      PROVE  Fulfilling \/ Telling
  <2>1. u \in wish.here
    BY <1>1, Zenon DEF Tcp!UserCalls
  <2> QED
    BY <1>1, <2>1, UserChangesFulfil, UserTellsFulfil, RecordsFulfil, Zenon
    DEF Tcp!UserCalls, Tcp!user_startRecord, Tcp!user_stopRecord
<1>2. ASSUME NEW c \in Channels, Tcp!ChannelCalls(c)
      PROVE  Fulfilling
  BY <1>2, ChannelChangesFulfil, ChannelTellsFulfil, Zenon DEF Tcp!ChannelCalls
<1>3. ASSUME Tcp!channel_setListeningVolumeAdjustment
      PROVE  Telling
  BY <1>3 DEF Tcp!channel_setListeningVolumeAdjustment, Telling
<1>4. ASSUME Tcp!TargetCalls
      PROVE  Telling
  BY <1>4, Zenon DEF Tcp!TargetCalls, Telling
<1>5. ASSUME Tcp!CollectGroup \/ Tcp!Ends
      PROVE  UNCHANGED <<Tcp!wire, Tcp!ghosts>>
  BY <1>5 DEF Tcp!CollectGroup, Tcp!Ends
<1>6. ASSUME Tcp!client_registerVoiceTarget
      PROVE  Fulfilling \/ Telling
  <2>1. CASE group = "freed"
    BY <1>6, <2>1 DEF Tcp!client_registerVoiceTarget, Telling
  <2>2. CASE group # "freed"
    <3>1. Tcp!Asks([type |-> "VoiceTarget", id |-> 1, targets |-> Tcp!Whispers],
                   [wish EXCEPT !.target = Tcp!Whispers])
      BY <1>6, <2>2, Zenon DEF Tcp!client_registerVoiceTarget
    <3> QED
      BY <3>1, TargetFulfils, AsksWitness, Zenon
  <2> QED
    BY <2>1, <2>2, Zenon
<1>7. ASSUME Tcp!SendsAfterEnd
      PROVE  Telling
  BY <1>7 DEF Tcp!SendsAfterEnd, Telling
<1>8. ASSUME NEW u \in Users, Tcp!UserGoes(u)
      PROVE  UNCHANGED <<Tcp!wire, Tcp!ghosts>>
  BY <1>8 DEF Tcp!UserGoes
<1>9. ASSUME Tcp!RecordsGone
      PROVE  Fulfilling \/ Telling
  BY <1>9, RecordsFulfil, Zenon DEF Tcp!RecordsGone
<1> QED
  BY <1>1, <1>2, <1>3, <1>4, <1>5, <1>6, <1>7, <1>8, <1>9, ClientCallsFulfil, Zenon
  DEF Tcp!Next

-----------------------------------------------------------------------------
(* The requests: the inductive invariant.                                  *)

(* What the server has made of any messages.                               *)
Made(w) ==
    /\ w = [f \in Fields |-> w[f]]
    /\ w.here \subseteq Users /\ w.rooms \subseteq Channels

(* What the client holds.                                                  *)
Holds ==
    /\ DOMAIN target = {"session", "channel_id"}
    /\ target.session \subseteq Users /\ target.channel_id \in Channels \cup {None}
    /\ group \in {"none", "set", "freed"}
    /\ recorded \subseteq Users /\ recording \in BOOLEAN /\ left \in BOOLEAN
    /\ connected \in BOOLEAN /\ fault \in BOOLEAN

(* Requests were heard in order, and none that was not asked.              *)
InOrder ==
    /\ calls \in 0 .. MaxCalls /\ asked \in 0 .. calls
    /\ heard \in Seq(1 .. asked) /\ Len(heard) <= asked
    /\ \A i, j \in DOMAIN heard : i < j => heard[i] < heard[j]

(* OpenSSL keeps a message only when the socket was full; it is one of     *)
(* voice, or a request later than all that were heard.                     *)
Kept ==
    /\ ~blocked => pending = None
    /\ ~blocked /\ ~torn => Len(heard) = asked
    /\ pending # None =>
        /\ pending.number \in 0 .. asked
        /\ pending.number = 0 => pending.body = Tcp!Voice
        /\ pending.number # 0 =>
            Len(heard) < asked /\ \A i \in DOMAIN heard : heard[i] < pending.number

(* When all requests were heard, but for the one that is kept, the server  *)
(* has done what they mean, or will with that one.                         *)
Obeyed ==
    ~astray =>
        /\ (pending = None \/ pending.number = 0) /\ Len(heard) = asked => world = wish
        /\ pending # None /\ pending.number # 0 /\ Len(heard) + 1 = asked =>
            Tcp!Obeys(world, pending) = wish

RequestsInv ==
    /\ torn \in BOOLEAN /\ blocked \in BOOLEAN /\ astray \in BOOLEAN
    /\ Made(world) /\ IsWorld(wish)
    /\ Holds /\ InOrder /\ Kept /\ Obeyed

(* No message makes a world of another shape.                              *)
LEMMA ObeysMade ==
    ASSUME NEW w, Made(w), NEW m
    PROVE  Made(Tcp!Obeys(w, m))
<1> DEFINE body == m.body
<1>1. w = [f \in Fields |-> w[f]] /\ w.here \subseteq Users /\ w.rooms \subseteq Channels
  BY DEF Made
<1>2. Made(Tcp!UserState(w, body))
  <2> DEFINE u       == body.session
             deafens == IF Tcp!Has(body, "deaf") THEN body.deaf ELSE u \in w.deaf
             muted   == IF Tcp!Has(body, "mute")
                        THEN body.mute \/ (Tcp!Has(body, "deaf") /\ body.deaf)
                        ELSE u \in w.muted \/ deafens
             a == Tcp!Put(w.muted, u, muted)
             b == Tcp!Put(w.deaf, u, deafens /\ muted)
             c == Tcp!Put(w.registered, u, u \in w.registered \/ Tcp!Has(body, "user_id"))
             d == IF Tcp!Has(body, "channel_id")
                  THEN [w.place EXCEPT ![u] = body.channel_id] ELSE w.place
             e == (w.listens \cup {<<u, x>> : x \in body.listening_channel_add})
                  \ {<<u, x>> : x \in body.listening_channel_remove}
             g == IF Tcp!Has(body, "recording") THEN body.recording ELSE w.recording
  <2>1. Tcp!UserState(w, body) =
            [w EXCEPT !.muted = a, !.deaf = b, !.registered = c, !.place = d,
                      !.listens = e, !.recording = g]
    BY Zenon DEF Tcp!UserState
  <2> HIDE DEF a, b, c, d, e, g
  <2> QED
    BY <1>1, <2>1 DEF Made, Fields
<1>3. Made(Tcp!ChannelState(w, body))
  <2>1. ASSUME NEW l PROVE Made([w EXCEPT !.links = l])
    BY <1>1 DEF Made, Fields
  <2>2. ASSUME NEW l PROVE Made([w EXCEPT !.made = l])
    BY <1>1 DEF Made, Fields
  <2> QED
    BY <2>1, <2>2, Zenon DEF Tcp!ChannelState
<1>4. Made([w EXCEPT !.here = @ \ {body.session}])
  BY <1>1 DEF Made, Fields
<1>5. Made(Tcp!RemoveChannel(w, body.channel_id))
  BY <1>1 DEF Made, Fields, Tcp!RemoveChannel
<1>6. Made([w EXCEPT !.target = body.targets])
  BY <1>1 DEF Made, Fields
<1>7. Made([w EXCEPT !.told = body])
  BY <1>1 DEF Made, Fields
<1> QED
  <2>1. CASE body.type = "UserState"
    BY <1>2, <2>1 DEF Tcp!Obeys
  <2>2. CASE body.type = "ChannelState"
    BY <1>3, <2>2 DEF Tcp!Obeys
  <2>3. CASE body.type = "UserRemove"
    BY <1>4, <2>3 DEF Tcp!Obeys
  <2>4. CASE body.type = "ChannelRemove"
    BY <1>5, <2>4 DEF Tcp!Obeys
  <2>5. CASE body.type = "VoiceTarget"
    BY <1>6, <2>5 DEF Tcp!Obeys
  <2>6. CASE body.type = "Other"
    BY <2>6 DEF Tcp!Obeys
  <2>7. CASE body.type \notin {"UserState", "ChannelState", "UserRemove", "ChannelRemove",
                               "VoiceTarget", "Other"}
    BY <1>7, <2>7 DEF Tcp!Obeys
  <2> QED
    BY <2>1, <2>2, <2>3, <2>4, <2>5, <2>6, <2>7

(* What the client holds keeps its type.                                   *)
LEMMA HoldsKept ==
    ASSUME Holds, Made(world), [Tcp!Next]_(Tcp!vars)
    PROVE  Holds'
<1>1. ASSUME UNCHANGED Tcp!objects, fault' \in BOOLEAN
      PROVE  Holds'
  BY <1>1 DEF Holds, Tcp!objects
<1>rec. ASSUME NEW users, users \subseteq Users, Tcp!Records(users), UNCHANGED fault
        PROVE  Holds'
  <2>1. /\ recorded' = users /\ recording' \in BOOLEAN /\ left' = FALSE
        /\ UNCHANGED <<target, group, connected>>
    <3>1. CASE (users # {}) = recording
      BY <1>rec, <3>1 DEF Tcp!Records, Holds
    <3>2. CASE (users # {}) # recording
      BY <1>rec, <3>2 DEF Tcp!Records
    <3> QED
      BY <3>1, <3>2
  <2> QED
    BY <1>rec, <2>1 DEF Holds
<1>2. ASSUME NEW u \in Users, Tcp!UserCalls(u)
      PROVE  Holds'
  <2>2. recorded \cup {u} \subseteq Users /\ recorded \ {u} \subseteq Users
    BY DEF Holds
  <2>3. fault' \in BOOLEAN
    BY <1>2 DEF Holds, Tcp!UserCalls
  <2>4. CASE UNCHANGED Tcp!objects
    BY <1>1, <2>3, <2>4
  <2>5. CASE Tcp!user_startRecord(u)
    BY <1>2, <1>rec, <2>2, <2>5, Zenon DEF Tcp!user_startRecord, Tcp!UserCalls
  <2>6. CASE Tcp!user_stopRecord(u)
    BY <1>2, <1>rec, <2>2, <2>6, Zenon DEF Tcp!user_stopRecord, Tcp!UserCalls
  <2> QED
    BY <1>2, <2>4, <2>5, <2>6, Zenon DEF Tcp!UserCalls
<1>3. ASSUME Tcp!TargetCalls
      PROVE  Holds'
  <2>1. ASSUME NEW u \in world.here, Tcp!target_addUser(u)
        PROVE  Holds'
    BY <1>3, <2>1 DEF Tcp!TargetCalls, Tcp!target_addUser, Holds, Made
  <2>2. ASSUME NEW c \in world.rooms, Tcp!target_setChannel(c)
        PROVE  Holds'
    BY <1>3, <2>2 DEF Tcp!TargetCalls, Tcp!target_setChannel, Holds, Made
  <2>3. ASSUME Tcp!target_setGroup
        PROVE  Holds'
    BY <1>3, <2>3 DEF Tcp!TargetCalls, Tcp!target_setGroup, Holds
  <2> QED
    BY <1>3, <2>1, <2>2, <2>3, Zenon DEF Tcp!TargetCalls
<1>4. ASSUME NEW c \in Channels, Tcp!ChannelCalls(c)
      PROVE  Holds'
  BY <1>1, <1>4 DEF Tcp!ChannelCalls, Holds
<1>5. ASSUME \/ Tcp!channel_setListeningVolumeAdjustment \/ Tcp!ClientCalls
             \/ Tcp!Other \/ Tcp!SendsAfterEnd
      PROVE  Holds'
  BY <1>1, <1>5 DEF Tcp!channel_setListeningVolumeAdjustment, Tcp!ClientCalls, Tcp!Other,
                    Tcp!SendsAfterEnd, Holds
<1>6. ASSUME Tcp!client_registerVoiceTarget
      PROVE  Holds'
  BY <1>1, <1>6 DEF Tcp!client_registerVoiceTarget, Holds
<1>7. ASSUME Tcp!CollectGroup
      PROVE  Holds'
  BY <1>7 DEF Tcp!CollectGroup, Holds
<1>8. ASSUME Tcp!Ends
      PROVE  Holds'
  BY <1>8 DEF Tcp!Ends, Holds
<1>9. ASSUME UNCHANGED Tcp!vars
      PROVE  Holds'
  BY <1>1, <1>9 DEF Tcp!vars, Holds
<1>10. ASSUME NEW u \in Users, Tcp!UserGoes(u)
       PROVE  Holds'
  <2>1. recorded \ {u} \subseteq Users
    BY DEF Holds
  <2> QED
    BY <1>10, <2>1 DEF Tcp!UserGoes, Holds
<1>11. ASSUME Tcp!RecordsGone
       PROVE  Holds'
  <2>1. recorded \subseteq Users
    BY DEF Holds
  <2> QED
    BY <1>11, <1>rec, <2>1, Zenon DEF Tcp!RecordsGone
<1> QED
  BY <1>2, <1>3, <1>4, <1>5, <1>6, <1>7, <1>8, <1>9, <1>10, <1>11, Zenon DEF Tcp!Next

(* Another request is heard after all the others.                          *)
LEMMA HeardGrows ==
    ASSUME asked \in Nat, heard \in Seq(1 .. asked),
           \A i, j \in DOMAIN heard : i < j => heard[i] < heard[j],
           NEW top \in Nat, asked <= top, NEW n \in 1 .. top,
           \A i \in DOMAIN heard : heard[i] < n
    PROVE  /\ Append(heard, n) \in Seq(1 .. top)
           /\ Len(Append(heard, n)) = Len(heard) + 1
           /\ \A i, j \in DOMAIN Append(heard, n) :
                i < j => Append(heard, n)[i] < Append(heard, n)[j]
<1> DEFINE new == Append(heard, n)
<1>1. heard \in Seq(1 .. top)
  BY 1 .. asked \subseteq 1 .. top
<1>2. new \in Seq(1 .. top) /\ Len(new) = Len(heard) + 1 /\ Len(heard) \in Nat
  BY <1>1
<1>3. DOMAIN new = 1 .. Len(heard) + 1 /\ DOMAIN heard = 1 .. Len(heard)
  BY <1>1, <1>2
<1>4. \A i \in 1 .. Len(heard) : new[i] = heard[i]
  BY <1>1
<1>5. new[Len(heard) + 1] = n
  BY <1>1
<1> HIDE DEF new
<1>6. \A i, j \in DOMAIN new : i < j => new[i] < new[j]
  <2>1. ASSUME NEW i \in DOMAIN new, NEW j \in DOMAIN new, i < j
        PROVE  new[i] < new[j]
    <3>1. i \in 1 .. Len(heard) /\ new[i] = heard[i]
      BY <1>2, <1>3, <1>4, <2>1
    <3>2. CASE j = Len(heard) + 1
      BY <1>3, <1>5, <3>1, <3>2
    <3>3. CASE j # Len(heard) + 1
      BY <1>2, <1>3, <1>4, <2>1, <3>1, <3>3
    <3> QED
      BY <3>2, <3>3
  <2> QED
    BY <2>1
<1> QED
  BY <1>2, <1>6 DEF new

(* Voice is obeyed by doing nothing.                                       *)
LEMMA VoiceObeyed ==
    ASSUME NEW w, NEW m, m.body = Tcp!Voice
    PROVE  Tcp!Obeys(w, m) = w
<1>1. m.body.type = "Other"
  BY DEF Tcp!Voice
<1> QED
  BY <1>1 DEF Tcp!Obeys

(* A call that asks: what is kept, heard and done afterwards.              *)
LEMMA FulfillingKeeps ==
    ASSUME RequestsInv, ~torn, Fulfilling
    PROVE  /\ torn' \in BOOLEAN /\ blocked' \in BOOLEAN /\ astray' \in BOOLEAN
           /\ Made(world)' /\ IsWorld(wish)' /\ InOrder' /\ Kept' /\ Obeyed'
<1>1. PICK body, meant, right :
        right \in BOOLEAN /\ Fulfils(body, meant, right) /\ Tcp!Ask(body, meant, right)
  BY Zenon DEF Fulfilling
<1>long. PICK long \in BOOLEAN :
        Tcp!packet_sendex([number |-> asked + 1, long |-> long, body |-> body])
  <2>1. Tcp!Lengths(body) \subseteq BOOLEAN
    BY DEF Tcp!Lengths
  <2> QED
    BY <1>1, <2>1 DEF Tcp!Ask
<1> DEFINE m == [number |-> asked + 1, long |-> long, body |-> body]
<1>2. m.number = asked + 1 /\ m.body = body
  OBVIOUS
<1>3. /\ calls < MaxCalls /\ calls' = calls + 1 /\ asked' = asked + 1
      /\ wish' = meant /\ astray' = (astray \/ ~right)
      /\ Tcp!packet_sendex(m)
  BY <1>1, <1>long, Zenon DEF Tcp!Ask, Tcp!Called
<1> HIDE DEF m
<1>4. /\ calls \in 0 .. MaxCalls /\ asked \in 0 .. calls /\ heard \in Seq(1 .. asked)
      /\ Len(heard) <= asked /\ Len(heard) \in Nat /\ asked \in Nat
      /\ DOMAIN heard = 1 .. Len(heard)
      /\ \A i, j \in DOMAIN heard : i < j => heard[i] < heard[j]
  BY SessionAssumption DEF RequestsInv, InOrder
<1>len. Len(heard) <= asked /\ Len(heard) \in Nat /\ asked \in Nat
  BY <1>4
<1>5. calls' \in 0 .. MaxCalls /\ asked' \in 0 .. calls' /\ asked' \in Nat
  BY <1>3, <1>4, SessionAssumption
<1>6. \A i \in DOMAIN heard : heard[i] \in 1 .. asked /\ heard[i] < asked + 1
  BY <1>4
<1>7. astray' \in BOOLEAN /\ (~astray' => ~astray /\ right)
  BY <1>1, <1>3 DEF RequestsInv
<1>8. IsWorld(meant) /\ (right => Tcp!Obeys(wish, m) = meant)
  BY <1>1, <1>2 DEF Fulfils
<1>9. IsWorld(wish)'
  BY <1>3, <1>8 DEF IsWorld
<1>10. Made(world)
  BY DEF RequestsInv
<1>kept. Kept
  BY DEF RequestsInv
<1>11. CASE pending = None /\ Tcp!Delivered(m) /\ UNCHANGED <<pending, torn, blocked>>
  <2>1. world' = Tcp!Obeys(world, m) /\ heard' = Append(heard, asked + 1)
    BY <1>2, <1>4, <1>11 DEF Tcp!Delivered
  <2>2. Made(world)'
    <3>1. Made(Tcp!Obeys(world, m))
      BY <1>10, ObeysMade, Zenon
    <3> QED
      BY <2>1, <3>1 DEF Made
  <2>3. /\ heard' \in Seq(1 .. asked') /\ Len(heard') = Len(heard) + 1
        /\ \A i, j \in DOMAIN heard' : i < j => heard'[i] < heard'[j]
    BY <1>3, <1>4, <1>5, <1>6, <2>1, HeardGrows
  <2>4. InOrder'
    BY <1>3, <1>4, <1>5, <2>3 DEF InOrder
  <2>5. Kept'
    BY <1>3, <1>4, <1>11, <2>3 DEF RequestsInv, Kept
  <2>6. ASSUME ~astray', Len(heard') = asked'
        PROVE  world' = wish'
    <3>1. Len(heard) = asked
      BY <1>3, <1>len, <2>3, <2>6
    <3>2. world = wish
      BY <1>7, <1>11, <2>6, <3>1, Zenon DEF RequestsInv, Obeyed
    <3> QED
      BY <1>3, <1>7, <1>8, <2>1, <2>6, <3>2, Zenon
  <2>7. Obeyed'
    BY <1>11, <2>6 DEF Obeyed
  <2> QED
    BY <1>7, <1>9, <1>11, <2>2, <2>4, <2>5, <2>7 DEF RequestsInv
<1>12. CASE pending = None /\ pending' = m /\ blocked' = TRUE /\ UNCHANGED <<torn, world, heard>>
  <2>1. Made(world)'
    BY <1>10, <1>12 DEF Made
  <2>2. heard \in Seq(1 .. asked + 1)
    BY <1>4, 1 .. asked \subseteq 1 .. asked + 1
  <2>3. InOrder'
    BY <1>3, <1>4, <1>5, <1>12, <2>2 DEF InOrder
  <2>4. Kept'
    BY <1>2, <1>3, <1>4, <1>6, <1>12 DEF Kept
  <2>5. Obeyed'
    <3>1. ASSUME ~astray', Len(heard') + 1 = asked'
          PROVE  Tcp!Obeys(world, m) = wish'
      <4>1. Len(heard) = asked
        BY <1>3, <1>len, <1>12, <3>1
      <4>2. world = wish
        BY <1>7, <1>12, <3>1, <4>1, Zenon DEF RequestsInv, Obeyed
      <4> QED
        BY <1>3, <1>7, <1>8, <3>1, <4>2, Zenon
    <3>2. Len(heard') # asked'
      BY <1>3, <1>len, <1>12
    <3> QED
      BY <1>12, <3>1, <3>2 DEF Obeyed
  <2> QED
    BY <1>7, <1>9, <1>12, <2>1, <2>3, <2>4, <2>5 DEF RequestsInv
<1>13. CASE pending # None /\ UNCHANGED Tcp!wire
  <2>1. Made(world)'
    BY <1>10, <1>13 DEF Made, Tcp!wire
  <2>2. heard \in Seq(1 .. asked + 1)
    BY <1>4, 1 .. asked \subseteq 1 .. asked + 1
  <2>3. InOrder'
    BY <1>3, <1>4, <1>5, <1>13, <2>2 DEF InOrder, Tcp!wire
  <2>kept. Kept /\ heard' = heard /\ pending' = pending /\ blocked' = blocked
    BY <1>13 DEF RequestsInv, Tcp!wire
  <2>4. Kept'
    BY <1>3, <1>len, <1>13, <2>kept DEF Kept
  <2>5. Obeyed'
    <3>1. Len(heard') # asked'
      BY <1>3, <1>len, <2>kept
    <3>2. pending'.number # 0 => Len(heard') + 1 # asked'
      BY <1>3, <1>len, <1>13, <2>kept DEF Kept
    <3> QED
      BY <3>1, <3>2 DEF Obeyed
  <2> QED
    BY <1>7, <1>9, <1>13, <2>1, <2>3, <2>4, <2>5 DEF RequestsInv, Tcp!wire
<1>15. CASE torn' = TRUE /\ pending' = None /\ UNCHANGED <<world, heard, blocked>>
  <2>1. Made(world)'
    BY <1>10, <1>15 DEF Made
  <2>2. heard \in Seq(1 .. asked + 1)
    BY <1>4, 1 .. asked \subseteq 1 .. asked + 1
  <2>3. InOrder'
    BY <1>3, <1>4, <1>5, <1>15, <2>2 DEF InOrder
  <2>4. Kept'
    BY <1>15 DEF Kept
  <2>5. Obeyed'
    BY <1>3, <1>len, <1>15 DEF Obeyed
  <2>6. blocked' \in BOOLEAN
    BY <1>15 DEF RequestsInv
  <2> QED
    BY <1>7, <1>9, <1>15, <2>1, <2>3, <2>4, <2>5, <2>6
<1>14. CASE /\ pending # None /\ Tcp!Delivered(pending) /\ pending' = None
            /\ torn' \in BOOLEAN /\ UNCHANGED blocked
  <2>1. Made(world)'
    BY <1>10, <1>14, ObeysMade DEF Made, Tcp!Delivered
  <2>2. blocked
    BY <1>14 DEF RequestsInv, Kept
  <2>3. /\ heard' \in Seq(1 .. asked') /\ Len(heard') <= asked /\ Len(heard') \in Nat
        /\ \A i, j \in DOMAIN heard' : i < j => heard'[i] < heard'[j]
    <3>1. CASE pending.number = 0
      <4>1. heard' = heard
        BY <1>14, <3>1 DEF Tcp!Delivered
      <4>2. heard \in Seq(1 .. asked + 1)
        BY <1>4, 1 .. asked \subseteq 1 .. asked + 1
      <4> QED
        BY <1>3, <1>4, <4>1, <4>2
    <3>2. CASE pending.number # 0
      <4>1. /\ pending.number \in 1 .. asked /\ Len(heard) < asked
            /\ \A i \in DOMAIN heard : heard[i] < pending.number
        BY <1>len, <1>14, <1>kept, <3>2 DEF Kept
      <4>2. heard' = Append(heard, pending.number)
        BY <1>14, <3>2 DEF Tcp!Delivered
      <4>3. pending.number \in 1 .. asked'
        BY <1>3, <1>4, <4>1
      <4>4. /\ Append(heard, pending.number) \in Seq(1 .. asked')
            /\ Len(Append(heard, pending.number)) = Len(heard) + 1
            /\ \A i, j \in DOMAIN Append(heard, pending.number) :
                 i < j => Append(heard, pending.number)[i] < Append(heard, pending.number)[j]
        BY <1>3, <1>4, <1>5, <4>1, <4>3, HeardGrows
      <4> QED
        BY <1>4, <4>1, <4>2, <4>4
    <3> QED
      BY <3>1, <3>2
  <2>4. InOrder'
    BY <1>3, <1>4, <1>5, <2>3 DEF InOrder
  <2>5. Kept'
    BY <1>14, <2>2 DEF Kept
  <2>6. Obeyed'
    BY <1>3, <1>4, <1>14, <2>3 DEF Obeyed
  <2> QED
    BY <1>7, <1>9, <1>14, <2>1, <2>4, <2>5, <2>6 DEF RequestsInv
<1> QED
  <2>1. \/ pending = None /\ Tcp!Delivered(m) /\ UNCHANGED <<pending, torn, blocked>>
        \/ pending = None /\ torn' = TRUE /\ UNCHANGED <<pending, world, heard, blocked>>
        \/ pending = None /\ pending' = m /\ blocked' = TRUE /\ UNCHANGED <<torn, world, heard>>
        \/ pending # None /\ UNCHANGED Tcp!wire
        \/ torn' = TRUE /\ pending' = None /\ UNCHANGED <<world, heard, blocked>>
        \/ /\ pending # None /\ Tcp!Delivered(pending) /\ pending' = None
           /\ torn' \in BOOLEAN /\ UNCHANGED blocked
    BY <1>3 DEF Tcp!packet_sendex, Tcp!NotWritten
  <2> QED
    BY <2>1, <1>11, <1>12, <1>13, <1>14, <1>15

(* Voice and pings: no request is heard but the kept one.                  *)
LEMMA OtherKeeps ==
    ASSUME RequestsInv, ~torn, Tcp!Other
    PROVE  /\ torn' \in BOOLEAN /\ blocked' \in BOOLEAN /\ astray' \in BOOLEAN
           /\ Made(world)' /\ IsWorld(wish)' /\ InOrder' /\ Kept' /\ Obeyed'
<1>1. Tcp!packet_sendex([number |-> 0, long |-> FALSE, body |-> Tcp!Voice])
  BY Zenon DEF Tcp!Other
<1> DEFINE m == [number |-> 0, long |-> FALSE, body |-> Tcp!Voice]
<1>2. m.number = 0 /\ m.body = Tcp!Voice
  OBVIOUS
<1>3. Tcp!packet_sendex(m)
  BY <1>1
<1> HIDE DEF m
<1>4. calls' = calls /\ asked' = asked /\ wish' = wish /\ astray' = astray
  BY DEF Tcp!Other, Tcp!ghosts
<1>5. /\ torn \in BOOLEAN /\ blocked \in BOOLEAN /\ astray \in BOOLEAN
      /\ Made(world) /\ IsWorld(wish) /\ InOrder /\ Kept /\ Obeyed
  BY DEF RequestsInv
<1>6. /\ asked \in Nat /\ Len(heard) <= asked /\ Len(heard) \in Nat
      /\ heard \in Seq(1 .. asked)
      /\ \A i, j \in DOMAIN heard : i < j => heard[i] < heard[j]
  BY <1>5, SessionAssumption DEF InOrder
<1>7. IsWorld(wish)'
  BY <1>4, <1>5 DEF IsWorld
<1>8. ASSUME heard' = heard
      PROVE  InOrder'
  BY <1>4, <1>5, <1>8 DEF InOrder
<1>9. CASE pending = None /\ Tcp!Delivered(m) /\ UNCHANGED <<pending, torn, blocked>>
  <2>1. world' = world /\ heard' = heard
    BY <1>2, <1>9, VoiceObeyed DEF Tcp!Delivered
  <2>2. Made(world)'
    BY <1>5, <2>1 DEF Made
  <2>3. Kept'
    BY <1>4, <1>5, <1>9, <2>1 DEF Kept
  <2>4. Obeyed'
    BY <1>4, <1>5, <1>9, <2>1 DEF Obeyed
  <2> QED
    BY <1>4, <1>5, <1>7, <1>8, <1>9, <2>1, <2>2, <2>3, <2>4
<1>10. CASE torn' = TRUE /\ pending' = None /\ UNCHANGED <<world, heard, blocked>>
  <2>1. Made(world)'
    BY <1>5, <1>10 DEF Made
  <2>2. Kept'
    BY <1>10 DEF Kept
  <2>3. Obeyed'
    BY <1>4, <1>5, <1>6, <1>10 DEF Kept, Obeyed
  <2> QED
    BY <1>4, <1>5, <1>7, <1>8, <1>10, <2>1, <2>2, <2>3
<1>11. CASE pending = None /\ pending' = m /\ blocked' = TRUE /\ UNCHANGED <<torn, world, heard>>
  <2>1. Made(world)'
    BY <1>5, <1>11 DEF Made
  <2>2. Kept'
    BY <1>2, <1>4, <1>6, <1>11 DEF Kept
  <2>3. Obeyed'
    BY <1>2, <1>4, <1>5, <1>11 DEF Obeyed
  <2> QED
    BY <1>4, <1>5, <1>7, <1>8, <1>11, <2>1, <2>2, <2>3
<1>12. CASE UNCHANGED Tcp!wire
  <2>1. UNCHANGED <<pending, torn, world, heard, blocked>>
    BY <1>12 DEF Tcp!wire
  <2>2. Made(world)'
    BY <1>5, <2>1 DEF Made
  <2>3. Kept'
    BY <1>4, <1>5, <2>1 DEF Kept
  <2>4. Obeyed'
    BY <1>4, <1>5, <2>1 DEF Obeyed
  <2> QED
    BY <1>4, <1>5, <1>7, <1>8, <2>1, <2>2, <2>3, <2>4
<1>13. CASE /\ pending # None /\ Tcp!Delivered(pending) /\ pending' = None
            /\ torn' \in BOOLEAN /\ UNCHANGED blocked
  <2>1. Made(Tcp!Obeys(world, pending)) /\ world' = Tcp!Obeys(world, pending)
    BY <1>5, <1>13, ObeysMade, Zenon DEF Tcp!Delivered
  <2>2. Made(world)'
    BY <2>1 DEF Made
  <2>3. Kept'
    BY <1>5, <1>13 DEF Kept
  <2>4. CASE pending.number = 0
    <3>1. world' = world /\ heard' = heard
      BY <1>5, <1>13, <2>4, VoiceObeyed DEF Kept, Tcp!Delivered
    <3>2. Obeyed'
      BY <1>4, <1>5, <1>13, <2>4, <3>1 DEF Obeyed
    <3> QED
      BY <1>4, <1>5, <1>7, <1>8, <1>13, <2>2, <2>3, <3>1, <3>2
  <2>5. CASE pending.number # 0
    <3>1. /\ pending.number \in 1 .. asked /\ Len(heard) < asked
          /\ \A i \in DOMAIN heard : heard[i] < pending.number
      BY <1>5, <1>6, <1>13, <2>5 DEF Kept
    <3>2. heard' = Append(heard, pending.number)
      BY <1>13, <2>5 DEF Tcp!Delivered
    <3>3. /\ Append(heard, pending.number) \in Seq(1 .. asked)
          /\ Len(Append(heard, pending.number)) = Len(heard) + 1
          /\ \A i, j \in DOMAIN Append(heard, pending.number) :
               i < j => Append(heard, pending.number)[i] < Append(heard, pending.number)[j]
      BY <1>6, <3>1, HeardGrows
    <3>4. Len(heard') = Len(heard) + 1 /\ Len(heard') <= asked
      BY <1>6, <3>1, <3>2, <3>3
    <3>5. InOrder'
      BY <1>4, <1>5, <3>2, <3>3, <3>4 DEF InOrder
    <3>6. ASSUME ~astray', Len(heard') = asked'
          PROVE  world' = wish'
      <4>1. Len(heard) + 1 = asked
        BY <1>4, <1>6, <3>4, <3>6
      <4> QED
        BY <1>4, <1>5, <1>13, <2>1, <2>5, <3>6, <4>1, Zenon DEF Obeyed
    <3>7. Obeyed'
      BY <1>13, <3>6 DEF Obeyed
    <3> QED
      BY <1>4, <1>5, <1>7, <1>13, <2>2, <2>3, <3>5, <3>7
  <2> QED
    BY <2>4, <2>5
<1> QED
  <2>1. \/ pending = None /\ Tcp!Delivered(m) /\ UNCHANGED <<pending, torn, blocked>>
        \/ pending = None /\ torn' = TRUE /\ UNCHANGED <<pending, world, heard, blocked>>
        \/ pending = None /\ pending' = m /\ blocked' = TRUE /\ UNCHANGED <<torn, world, heard>>
        \/ UNCHANGED Tcp!wire
        \/ torn' = TRUE /\ pending' = None /\ UNCHANGED <<world, heard, blocked>>
        \/ /\ pending # None /\ Tcp!Delivered(pending) /\ pending' = None
           /\ torn' \in BOOLEAN /\ UNCHANGED blocked
    BY <1>3 DEF Tcp!packet_sendex, Tcp!NotWritten
  <2> QED
    BY <2>1, <1>9, <1>10, <1>11, <1>12, <1>13

(* A step that sends nothing.                                              *)
LEMMA QuietKeeps ==
    ASSUME RequestsInv, UNCHANGED <<Tcp!wire, asked, wish, astray>>,
           calls' = calls \/ Tcp!Called
    PROVE  /\ torn' \in BOOLEAN /\ blocked' \in BOOLEAN /\ astray' \in BOOLEAN
           /\ Made(world)' /\ IsWorld(wish)' /\ InOrder' /\ Kept' /\ Obeyed'
<1>1. UNCHANGED <<pending, torn, world, heard, blocked, asked, wish, astray>>
  BY DEF Tcp!wire
<1>2. /\ torn \in BOOLEAN /\ blocked \in BOOLEAN /\ astray \in BOOLEAN
      /\ Made(world) /\ IsWorld(wish) /\ InOrder /\ Kept /\ Obeyed
  BY DEF RequestsInv
<1>3. calls' \in 0 .. MaxCalls /\ asked' \in 0 .. calls'
  BY <1>1, <1>2, SessionAssumption DEF InOrder, Tcp!Called
<1>4. Made(world)' /\ IsWorld(wish)'
  BY <1>1, <1>2 DEF Made, IsWorld
<1>5. InOrder'
  BY <1>1, <1>2, <1>3 DEF InOrder
<1>6. Kept'
  BY <1>1, <1>2 DEF Kept
<1>7. Obeyed'
  BY <1>1, <1>2 DEF Obeyed
<1> QED
  BY <1>1, <1>2, <1>4, <1>5, <1>6, <1>7

(* The invariant of the requests holds at first,                           *)
LEMMA RequestsBegin == Tcp!Init => RequestsInv
<1> SUFFICES ASSUME Tcp!Init
             PROVE  RequestsInv
  OBVIOUS
<1>1. /\ target = [session |-> {}, channel_id |-> None] /\ group = "none"
      /\ recorded \subseteq Users /\ recording \in BOOLEAN /\ left = FALSE /\ connected = TRUE
      /\ pending = None /\ torn = FALSE
      /\ world = [Tcp!World EXCEPT !.recording = recording] /\ wish = world
      /\ heard = <<>> /\ calls = 0 /\ asked = 0 /\ astray = FALSE /\ blocked = FALSE
      /\ fault = FALSE
  BY SessionAssumption DEF Tcp!Init
<1>2. Made(world)
  BY <1>1 DEF Tcp!World, Made, Fields
<1>3. IsWorld(wish)
  BY <1>1 DEF Tcp!World, IsWorld, Fields
<1>4. Holds
  BY <1>1 DEF Holds
<1>5. InOrder /\ Kept
  BY <1>1, SessionAssumption DEF InOrder, Kept
<1>6. Obeyed
  BY <1>1 DEF Obeyed
<1> QED
  BY <1>1, <1>2, <1>3, <1>4, <1>5, <1>6 DEF RequestsInv

(* ... is kept by every request and every step of the socket,              *)
LEMMA RequestsKept == RequestsInv /\ [Tcp!Next]_(Tcp!vars) => RequestsInv'
<1> SUFFICES ASSUME RequestsInv, [Tcp!Next]_(Tcp!vars)
             PROVE  RequestsInv'
  OBVIOUS
<1>1. Holds'
  BY HoldsKept, Zenon DEF RequestsInv
<1>2. /\ torn' \in BOOLEAN /\ blocked' \in BOOLEAN /\ astray' \in BOOLEAN
      /\ Made(world)' /\ IsWorld(wish)' /\ InOrder' /\ Kept' /\ Obeyed'
  <2>1. CASE Fulfilling /\ ~torn
    BY <2>1, FulfillingKeeps, Zenon
  <2>2. CASE Telling
    <3>1. UNCHANGED <<Tcp!wire, asked, wish, astray>> /\ Tcp!Called
      BY <2>2, Zenon DEF Telling
    <3> QED
      BY <3>1, QuietKeeps, Zenon
  <2>3. CASE Tcp!Other /\ ~torn
    BY <2>3, OtherKeeps, Zenon
  <2>4. CASE UNCHANGED <<Tcp!wire, Tcp!ghosts>>
    <3>1. UNCHANGED <<Tcp!wire, asked, wish, astray>> /\ calls' = calls
      BY <2>4 DEF Tcp!ghosts
    <3> QED
      BY <3>1, QuietKeeps, Zenon
  <2>5. CASE UNCHANGED Tcp!vars
    BY <2>4, <2>5 DEF Tcp!vars
  <2>6. IsWorld(wish)
    BY Zenon DEF RequestsInv
  <2>7. Tcp!Next => ~torn
    BY Zenon DEF Tcp!Next
  <2> QED
    BY <2>1, <2>2, <2>3, <2>4, <2>5, <2>6, <2>7, StepIsRequest, Zenon
<1> QED
  BY <1>1, <1>2 DEF RequestsInv

-----------------------------------------------------------------------------
(* The requests of a connection are those of Requests: nothing else of the *)
(* connection touches them (client.c, user.c, channel.c, packet.c:219).    *)
LEMMA StepIsTcp == [SessionNext]_allVars => [Tcp!Next]_(Tcp!vars)
BY DEF SessionNext, allVars, tcpVars, Pings, Keyed, Synced, Answers, Receives, OverUdp,
       SetsAudio, Requests, Tcp!vars, Tcp!objects, Tcp!wire, Tcp!ghosts

(* ... so that a connection implements Requests (client.c, packet.c:219).  *)
THEOREM ConnectionImplementsRequests == SessionSpec => Tcp!Spec
<1>1. SessionInit => Tcp!Init
  BY DEF SessionInit
<1> QED
  BY <1>1, StepIsTcp, PTL DEF SessionSpec, Tcp!Spec

(* ... and holds throughout.                                               *)
LEMMA RequestsHold == SessionSpec => []RequestsInv
BY RequestsBegin, RequestsKept, ConnectionImplementsRequests, PTL DEF Tcp!Spec

(* The server hears requests in order and at most once, also when the      *)
(* socket was full and OpenSSL completes an old message under a new one    *)
(* (packet.c:234); and all of them if it never was, and none was cut.      *)
THEOREM RequestsAreHeardInOrder == SessionSpec => []HeardInOrder
<1>1. RequestsInv => HeardInOrder
  <2>1. DOMAIN Tcp!World = Fields
    BY DEF Tcp!World, Fields
  <2>2. ASSUME RequestsInv
        PROVE  /\ DOMAIN world = DOMAIN Tcp!World /\ DOMAIN wish = DOMAIN Tcp!World
    BY <2>1, <2>2 DEF RequestsInv, Made, IsWorld
  <2>3. ASSUME RequestsInv
        PROVE  Tcp!TypeOK
    BY <2>2, <2>3 DEF RequestsInv, Holds, InOrder, Tcp!TypeOK
  <2> QED
    BY <2>3, Zenon DEF RequestsInv, InOrder, Kept, HeardInOrder, Tcp!HeardInOrder
<1> QED
  BY <1>1, RequestsHold, PTL

-----------------------------------------------------------------------------
(* What the server is told of the recording.                               *)

(* What is wished of it is what client->recording says, as long as the     *)
(* client is there; and that is whether anybody is recorded, but for those *)
(* that went.                                                              *)
RecordingOK ==
    /\ Self \in wish.here => wish.recording = recording
    /\ ~left => recording = (recorded # {})

(* A step that is not about the recording, and brings nobody back.         *)
Aside ==
    /\ wish'.recording = wish.recording /\ wish'.here \subseteq wish.here
    /\ UNCHANGED <<recording, recorded, left>>

(* A request that means nothing for it is such a step,                     *)
LEMMA AskAside ==
    ASSUME NEW body, NEW meant, NEW right, Tcp!Ask(body, meant, right),
           UNCHANGED Tcp!objects,
           meant.recording = wish.recording, meant.here \subseteq wish.here
    PROVE  Aside
BY DEF Tcp!Ask, Tcp!objects, Aside

(* ... also if it asks for no change,                                      *)
LEMMA TellsAside ==
    ASSUME IsWorld(wish), UNCHANGED Tcp!objects, NEW body, Tcp!Tells(body)
    PROVE  Aside
<1> DEFINE meant == [wish EXCEPT !.told = body]
<1>1. meant.recording = wish.recording /\ meant.here = wish.here
  BY DEF IsWorld, Fields
<1>2. Tcp!Ask(body, meant, TRUE)
  BY Zenon DEF Tcp!Tells, Tcp!Asks
<1> HIDE DEF meant
<1> QED
  BY <1>1, <1>2, AskAside

(* ... as those of a user,                                                 *)
LEMMA UserChangesAside ==
    ASSUME IsWorld(wish), UNCHANGED Tcp!objects, NEW u, Tcp!UserChanges(u)
    PROVE  Aside
<1>1. ASSUME NEW body, Tcp!Asks(body, [wish EXCEPT !.here = @ \ {u}])
      PROVE  Aside
  <2> DEFINE meant == [wish EXCEPT !.here = @ \ {u}]
  <2>1. meant.recording = wish.recording /\ meant.here \subseteq wish.here
    BY DEF IsWorld, Fields
  <2>2. Tcp!Ask(body, meant, TRUE)
    BY <1>1, Zenon DEF Tcp!Asks
  <2> HIDE DEF meant
  <2> QED
    BY <2>1, <2>2, AskAside
<1>2. ASSUME NEW body, NEW c, Tcp!Asks(body, [wish EXCEPT !.place[u] = c])
      PROVE  Aside
  <2> DEFINE meant == [wish EXCEPT !.place[u] = c]
  <2>1. meant.recording = wish.recording /\ meant.here = wish.here
    BY DEF IsWorld, Fields
  <2>2. Tcp!Ask(body, meant, TRUE)
    BY <1>2, Zenon DEF Tcp!Asks
  <2> HIDE DEF meant
  <2> QED
    BY <2>1, <2>2, AskAside
<1>3. ASSUME NEW body, NEW right, NEW x, NEW y,
             Tcp!Ask(body, [wish EXCEPT !.muted = x, !.deaf = y], right)
      PROVE  Aside
  <2> DEFINE meant == [wish EXCEPT !.muted = x, !.deaf = y]
  <2>1. meant.recording = wish.recording /\ meant.here = wish.here
    BY DEF IsWorld, Fields
  <2>2. Tcp!Ask(body, meant, right)
    BY <1>3, Zenon
  <2> HIDE DEF meant
  <2> QED
    BY <2>1, <2>2, AskAside
<1>4. ASSUME NEW body, Tcp!Asks(body, [wish EXCEPT !.registered = @ \cup {u}])
      PROVE  Aside
  <2> DEFINE meant == [wish EXCEPT !.registered = @ \cup {u}]
  <2>1. meant.recording = wish.recording /\ meant.here = wish.here
    BY DEF IsWorld, Fields
  <2>2. Tcp!Ask(body, meant, TRUE)
    BY <1>4, Zenon DEF Tcp!Asks
  <2> HIDE DEF meant
  <2> QED
    BY <2>1, <2>2, AskAside
<1>5. ASSUME NEW body, NEW right, NEW x, Tcp!Ask(body, [wish EXCEPT !.listens = x], right)
      PROVE  Aside
  <2> DEFINE meant == [wish EXCEPT !.listens = x]
  <2>1. meant.recording = wish.recording /\ meant.here = wish.here
    BY DEF IsWorld, Fields
  <2>2. Tcp!Ask(body, meant, right)
    BY <1>5, Zenon
  <2> HIDE DEF meant
  <2> QED
    BY <2>1, <2>2, AskAside
<1> QED
  BY <1>1, <1>2, <1>3, <1>4, <1>5, Zenon DEF Tcp!UserChanges

LEMMA UserTellsAside ==
    ASSUME IsWorld(wish), UNCHANGED Tcp!objects, NEW u, Tcp!UserTells(u)
    PROVE  Aside
<1>1. ASSUME NEW body, Tcp!Asks(body, wish)
      PROVE  Aside
  BY <1>1, AskAside, Zenon DEF Tcp!Asks
<1>2. ASSUME NEW only \in BOOLEAN,
             Tcp!Ask(Tcp!user_request_stats(u),
                     [wish EXCEPT !.told = Tcp!user_request_stats(u)], ~only)
      PROVE  Aside
  <2> DEFINE meant == [wish EXCEPT !.told = Tcp!user_request_stats(u)]
  <2>1. meant.recording = wish.recording /\ meant.here = wish.here
    BY DEF IsWorld, Fields
  <2>2. Tcp!Ask(Tcp!user_request_stats(u), meant, ~only)
    BY <1>2, Zenon
  <2> HIDE DEF meant
  <2> QED
    BY <2>1, <2>2, AskAside
<1> QED
  BY <1>1, <1>2, TellsAside, Zenon DEF Tcp!UserTells

(* ... of a channel,                                                       *)
LEMMA ChannelChangesAside ==
    ASSUME IsWorld(wish), UNCHANGED Tcp!objects, NEW c, Tcp!ChannelChanges(c)
    PROVE  Aside
<1>1. ASSUME NEW body, NEW right, NEW x, Tcp!Ask(body, [wish EXCEPT !.links = x], right)
      PROVE  Aside
  <2> DEFINE meant == [wish EXCEPT !.links = x]
  <2>1. meant.recording = wish.recording /\ meant.here = wish.here
    BY DEF IsWorld, Fields
  <2>2. Tcp!Ask(body, meant, right)
    BY <1>1, Zenon
  <2> HIDE DEF meant
  <2> QED
    BY <2>1, <2>2, AskAside
<1>2. ASSUME Tcp!Asks(Tcp!channel_setDescription(c), wish)
      PROVE  Aside
  BY <1>2, AskAside, Zenon DEF Tcp!Asks
<1>3. ASSUME Tcp!Asks(Tcp!channel_remove(c), Tcp!RemoveChannel(wish, c))
      PROVE  Aside
  <2> DEFINE meant == Tcp!RemoveChannel(wish, c)
  <2>1. meant.recording = wish.recording /\ meant.here = wish.here
    BY DEF IsWorld, Fields, Tcp!RemoveChannel
  <2>2. Tcp!Ask(Tcp!channel_remove(c), meant, TRUE)
    BY <1>3, Zenon DEF Tcp!Asks
  <2> HIDE DEF meant
  <2> QED
    BY <2>1, <2>2, AskAside
<1>4. ASSUME Tcp!Ask(Tcp!channel_create(c), [wish EXCEPT !.made = @ \cup {c}], FALSE)
      PROVE  Aside
  <2> DEFINE meant == [wish EXCEPT !.made = @ \cup {c}]
  <2>1. meant.recording = wish.recording /\ meant.here = wish.here
    BY DEF IsWorld, Fields
  <2>2. Tcp!Ask(Tcp!channel_create(c), meant, FALSE)
    BY <1>4, Zenon
  <2> HIDE DEF meant
  <2> QED
    BY <2>1, <2>2, AskAside
<1> QED
  BY <1>1, <1>2, <1>3, <1>4, Zenon DEF Tcp!ChannelChanges

(* ... and of the client.                                                  *)
LEMMA ClientCallsAside ==
    ASSUME IsWorld(wish), Tcp!ClientCalls
    PROVE  Aside
<1>1. UNCHANGED Tcp!objects
  BY DEF Tcp!ClientCalls
<1>2. ASSUME Tcp!Asks(Tcp!client_setComment, wish)
      PROVE  Aside
  BY <1>1, <1>2, AskAside, Zenon DEF Tcp!Asks
<1>3. ASSUME Tcp!Ask(Tcp!channel_create(Root), [wish EXCEPT !.made = @ \cup {Root}], FALSE)
      PROVE  Aside
  <2> DEFINE meant == [wish EXCEPT !.made = @ \cup {Root}]
  <2>1. meant.recording = wish.recording /\ meant.here = wish.here
    BY DEF IsWorld, Fields
  <2>2. Tcp!Ask(Tcp!channel_create(Root), meant, FALSE)
    BY <1>3, Zenon
  <2> HIDE DEF meant
  <2> QED
    BY <1>1, <2>1, <2>2, AskAside
<1> QED
  BY <1>1, <1>2, <1>3, TellsAside, Zenon DEF Tcp!ClientCalls

(* A start or a stop tells the server what is recorded then.               *)
LEMMA RecordsOK ==
    ASSUME IsWorld(wish), RecordingOK, NEW users, Tcp!Records(users)
    PROVE  RecordingOK'
<1> DEFINE any   == users # {}
           meant == IF Self \in wish.here THEN [wish EXCEPT !.recording = any] ELSE wish
<1>1. recorded' = users /\ left' = FALSE
  BY DEF Tcp!Records
<1>2. /\ meant.here = wish.here
      /\ Self \in wish.here => meant.recording = any
  BY DEF IsWorld, Fields
<1>3. CASE any = recording
  <2>1. wish' = wish /\ recording' = recording
    BY <1>3 DEF Tcp!Records
  <2> QED
    BY <1>1, <1>3, <2>1 DEF RecordingOK
<1>4. CASE any # recording
  <2>1. recording' = any /\ wish' = meant
    BY <1>4 DEF Tcp!Records, Tcp!Asks, Tcp!Ask
  <2> HIDE DEF any, meant
  <2>2. (Self \in wish.here => wish.recording = recording)'
    BY <1>2, <2>1
  <2>3. (~left => recording = (recorded # {}))'
    BY <1>1, <2>1 DEF any
  <2> QED
    BY <2>2, <2>3 DEF RecordingOK
<1> QED
  BY <1>3, <1>4

(* Every step keeps it.                                                    *)
LEMMA RecordingKept ==
    ASSUME IsWorld(wish), RecordingOK, [Tcp!Next]_(Tcp!vars)
    PROVE  RecordingOK'
<1>1. ASSUME Aside
      PROVE  RecordingOK'
  BY <1>1 DEF Aside, RecordingOK
<1>2. ASSUME UNCHANGED <<wish, recording, recorded, left>>
      PROVE  RecordingOK'
  BY <1>2 DEF RecordingOK
<1>3. ASSUME NEW u \in Users, Tcp!UserCalls(u)
      PROVE  RecordingOK'
  BY <1>1, <1>3, UserChangesAside, UserTellsAside, RecordsOK, Zenon
  DEF Tcp!UserCalls, Tcp!user_startRecord, Tcp!user_stopRecord
<1>4. ASSUME NEW u \in Users, Tcp!UserGoes(u)
      PROVE  RecordingOK'
  BY <1>4 DEF Tcp!UserGoes, Tcp!ghosts, RecordingOK
<1>5. ASSUME Tcp!RecordsGone
      PROVE  RecordingOK'
  BY <1>5, RecordsOK, Zenon DEF Tcp!RecordsGone
<1>6. ASSUME NEW c \in Channels, Tcp!ChannelCalls(c)
      PROVE  RecordingOK'
  <2>1. UNCHANGED Tcp!objects
    BY <1>6 DEF Tcp!ChannelCalls
  <2> QED
    BY <1>1, <1>6, <2>1, ChannelChangesAside, TellsAside, Zenon
    DEF Tcp!ChannelCalls, Tcp!ChannelTells
<1>7. ASSUME Tcp!client_registerVoiceTarget
      PROVE  RecordingOK'
  <2>1. CASE group = "freed"
    BY <1>2, <1>7, <2>1 DEF Tcp!client_registerVoiceTarget, Tcp!objects
  <2>2. CASE group # "freed"
    <3> DEFINE meant == [wish EXCEPT !.target = Tcp!Whispers]
    <3>1. meant.recording = wish.recording /\ meant.here = wish.here
      BY DEF IsWorld, Fields
    <3>2. /\ Tcp!Ask([type |-> "VoiceTarget", id |-> 1, targets |-> Tcp!Whispers], meant, TRUE)
          /\ UNCHANGED Tcp!objects
      BY <1>7, <2>2, Zenon DEF Tcp!client_registerVoiceTarget, Tcp!Asks
    <3> HIDE DEF meant
    <3> QED
      BY <1>1, <3>1, <3>2, AskAside
  <2> QED
    BY <2>1, <2>2
<1>8. ASSUME \/ Tcp!channel_setListeningVolumeAdjustment \/ Tcp!TargetCalls
             \/ Tcp!CollectGroup \/ Tcp!Other \/ Tcp!Ends \/ Tcp!SendsAfterEnd
             \/ UNCHANGED Tcp!vars
      PROVE  RecordingOK'
  <2>1. UNCHANGED <<wish, recording, recorded, left>>
    BY <1>8 DEF Tcp!channel_setListeningVolumeAdjustment, Tcp!TargetCalls, Tcp!CollectGroup,
                Tcp!Other, Tcp!Ends, Tcp!SendsAfterEnd, Tcp!vars, Tcp!objects, Tcp!ghosts
  <2> QED
    BY <1>2, <2>1
<1> QED
  BY <1>1, <1>3, <1>4, <1>5, <1>6, <1>7, <1>8, ClientCallsAside, Zenon DEF Tcp!Next

LEMMA RecordingHolds == SessionSpec => []RecordingOK
<1>1. Tcp!Init => RecordingOK
  <2> SUFFICES ASSUME Tcp!Init
               PROVE  RecordingOK
    OBVIOUS
  <2>1. /\ recording = (recorded # {}) /\ left = FALSE
        /\ world = [Tcp!World EXCEPT !.recording = recording] /\ wish = world
    BY DEF Tcp!Init
  <2>2. wish.recording = recording
    BY <2>1 DEF Tcp!World
  <2> QED
    BY <2>1, <2>2 DEF RecordingOK
<1>2. RequestsInv /\ RecordingOK /\ [Tcp!Next]_(Tcp!vars) => RecordingOK'
  BY RecordingKept, Zenon DEF RequestsInv
<1> QED
  BY <1>1, <1>2, RequestsHold, ConnectionImplementsRequests, PTL DEF Tcp!Spec

(* When it has heard them all it has done what they mean by the README, if *)
(* none was one that does not ask what it should (client.c, user.c,        *)
(* channel.c, target.c), and was told whether anybody is recorded          *)
(* (mumble.c:1378), unless a recorded user went and nothing was started or *)
(* stopped since (user.c:588).                                             *)
THEOREM RequestsAreMeant == SessionSpec => []RequestsMeant
<1>1. RequestsInv /\ RecordingOK => RequestsMeant
  <2> SUFFICES ASSUME RequestsInv, RecordingOK, Len(heard) = asked, ~astray
               PROVE  world = wish /\ (Self \in wish.here /\ ~left
                                          => world.recording = (recorded # {}))
    BY DEF RequestsMeant, Tcp!RequestsMeant
  <2>1. /\ asked \in Nat
        /\ pending # None /\ pending.number # 0 => Len(heard) < asked
        /\ (pending = None \/ pending.number = 0) /\ Len(heard) = asked => world = wish
    BY SessionAssumption DEF RequestsInv, InOrder, Kept, Obeyed
  <2>2. world = wish
    BY <2>1
  <2> QED
    BY <2>2 DEF RecordingOK
<1> QED
  BY <1>1, RequestsHold, RecordingHolds, PTL

=============================================================================
