----------------------------- MODULE CryptState -----------------------------
(***************************************************************************)
(* The nonces of the UDP channel (ocb.c): the sender counts its encrypt_iv *)
(* up and puts only the lowest byte of it into the packet; the receiver    *)
(* guesses the rest from its own decrypt_iv, keeps in decrypt_history the  *)
(* second byte of the last packet opened under each lowest byte, and       *)
(* counts good, late and lost packets for the ping.                        *)
(*                                                                         *)
(* An IV is its number, of which the code sees the two lowest digits to    *)
(* the base Byte; a packet is opened when the guess is its nonce and the   *)
(* key is the same (the cipher itself is left out).  Packets are lost,     *)
(* duplicated and reordered at will.                                       *)
(***************************************************************************)
EXTENDS Integers, FiniteSets

CONSTANTS
    Byte,      \* 256, the values of a byte
    Window,    \* 30, how late a packet may be
    Starts,    \* the numbers a nonce may start from
    MaxIV,     \* bound: the largest nonce sent
    MaxKeys,   \* bound: how many keys are set
    MaxResyncs \* bound: how often the receiver is given the sender's nonce again

ASSUME CryptAssumption ==
    /\ Byte \in Nat /\ Window \in Nat /\ 0 < Window /\ 2 * Window <= Byte
    /\ Starts \subseteq Nat /\ MaxIV \in Nat /\ MaxKeys \in Nat
    /\ MaxResyncs \in Nat

Bytes == 0 .. (Byte - 1)
Packets == [key : Nat, iv : Nat]

Low(iv)    == iv % Byte
Second(iv) == (iv \div Byte) % Byte

VARIABLES
    key,               \* the key both ends use, 0 before the first
    encrypt_iv,        \* of the sender
    decrypt_iv, decrypt_history, uiGood, uiLate, uiLost,    \* of the receiver
    resync,            \* how often its nonce was set again
    net,               \* the packets sent, each of which may still arrive
    accepted,          \* ghost: the packets that were opened
    start              \* ghost: the first nonce of this key, for the losses

receiver    == <<decrypt_iv, decrypt_history, uiGood, uiLate, uiLost>>
cryptGhosts == <<accepted, start>>
cryptVars   == <<key, encrypt_iv, receiver, resync, net, cryptGhosts>>

(* crypt_init.                                                             *)
CryptInit ==
    /\ key = 0 /\ encrypt_iv = 0 /\ decrypt_iv = 0
    /\ decrypt_history = [b \in Bytes |-> 0]
    /\ uiGood = 0 /\ uiLate = 0 /\ uiLost = 0 /\ resync = 0
    /\ net = {} /\ accepted = {} /\ start = 0

(* crypt_setKey at both ends; the history and the counters stay.           *)
SetKey(iv) ==
    /\ key < MaxKeys /\ key' = key + 1
    /\ encrypt_iv' = iv /\ decrypt_iv' = iv /\ start' = iv
    /\ UNCHANGED <<decrypt_history, uiGood, uiLate, uiLost, resync, net,
                   accepted>>

(* crypt_encrypt.                                                          *)
Encrypt ==
    /\ key > 0 /\ encrypt_iv < MaxIV
    /\ encrypt_iv' = encrypt_iv + 1
    /\ net' = net \cup {[key |-> key, iv |-> encrypt_iv + 1]}
    /\ UNCHANGED <<key, receiver, resync, accepted, start>>

(* crypt_setDecryptIV with the nonce that the sender had when it sent it,  *)
(* on a connection the packets may overtake.                               *)
Resync ==
    /\ key > 0 /\ resync < MaxResyncs /\ resync' = resync + 1
    /\ decrypt_iv' \in start .. encrypt_iv
    /\ UNCHANGED <<key, encrypt_iv, decrypt_history, uiGood, uiLate, uiLost, net,
                   accepted, start>>

-----------------------------------------------------------------------------
(* crypt_decrypt of a packet whose first byte is b.                        *)

Diff(b) ==
    LET diff == b - Low(decrypt_iv)
    IN  IF diff > Byte \div 2 THEN diff - Byte
        ELSE IF diff < -(Byte \div 2) THEN diff + Byte
        ELSE diff

Expected(b) == (Low(decrypt_iv) + 1) % Byte = b
Late(b)     == ~Expected(b) /\ -Window < Diff(b) /\ Diff(b) < 0
Ahead(b)    == ~Expected(b) /\ Diff(b) > 0

(* decrypt_iv with b for its lowest byte and a carry to or from the rest.  *)
Rebased(b, carry) == decrypt_iv - Low(decrypt_iv) + b + carry * Byte

(* Defect: a late packet of the round before is looked for in this one.    *)
GuessNoBorrow(b) ==
    IF Late(b)
    THEN Rebased(b, 0)
    ELSE Rebased(b, IF b < Low(decrypt_iv) THEN 1 ELSE 0)

Guess(b) ==
    IF Late(b)
    THEN Rebased(b, IF b > Low(decrypt_iv) THEN -1 ELSE 0)
    ELSE Rebased(b, IF b < Low(decrypt_iv) THEN 1 ELSE 0)

(* Defect: the history is not looked at.                                   *)
NeverSeen(b) == FALSE

Seen(b) == ~Expected(b) /\ decrypt_history[b] = Second(Guess(b))

Accepts(p) ==
    LET b == Low(p.iv)
    IN  /\ Expected(b) \/ Late(b) \/ Ahead(b)
        /\ ~Seen(b)
        /\ p.key = key /\ p.iv = Guess(b)

(* Defect: a gap is counted as if it did not wrap around.                  *)
LostUnwrapped(b) ==
    IF Expected(b) THEN 0
    ELSE IF Late(b) THEN -1
    ELSE b - Low(decrypt_iv) - 1

Lost(b) ==
    IF Expected(b) THEN 0
    ELSE IF Late(b) THEN -1
    ELSE IF b > Low(decrypt_iv) THEN b - Low(decrypt_iv) - 1
    ELSE Byte - Low(decrypt_iv) + b - 1

(* The packets that ought to be opened: new ones of this key, less than    *)
(* Window late and less than half a round ahead.                           *)
Due(p) ==
    /\ p \notin accepted /\ p.key = key
    /\ p.iv # decrypt_iv
    /\ -Window < p.iv - decrypt_iv /\ p.iv - decrypt_iv < Byte \div 2

(* A late packet leaves decrypt_iv where it was.                           *)
NextIV(b) == IF Late(b) THEN decrypt_iv ELSE Guess(b)

LostAfter(b) ==
    IF Lost(b) > 0 \/ uiLost > -Lost(b) THEN uiLost + Lost(b) ELSE uiLost

Open(p) ==
    LET b == Low(p.iv)
    IN  /\ Accepts(p)
        /\ decrypt_history' = [decrypt_history EXCEPT ![b] = Second(Guess(b))]
        /\ decrypt_iv' = NextIV(b)
        /\ uiGood' = uiGood + 1
        /\ uiLate' = IF Late(b) THEN uiLate + 1 ELSE uiLate
        /\ uiLost' = LostAfter(b)
        /\ accepted' = accepted \cup {p}
        /\ UNCHANGED <<key, encrypt_iv, resync, net, start>>

Discard(p) ==
    /\ ~Accepts(p)
    /\ UNCHANGED cryptVars

Decrypt(p) == Open(p) \/ Discard(p)

-----------------------------------------------------------------------------
CryptNext ==
    \/ \E iv \in Starts : SetKey(iv)
    \/ Encrypt \/ Resync
    \/ \E p \in net : Decrypt(p)

CryptSpec == CryptInit /\ [][CryptNext]_cryptVars

-----------------------------------------------------------------------------
CryptTypeOK ==
    /\ key \in Nat /\ encrypt_iv \in Nat /\ decrypt_iv \in Nat
    /\ decrypt_history \in [Bytes -> Bytes]
    /\ uiGood \in Nat /\ uiLate \in Nat /\ uiLost \in Nat /\ resync \in Nat
    /\ net \in SUBSET Packets /\ accepted \in SUBSET Packets
    /\ start \in Nat

(* However the network repeats and reorders them, a packet is opened once: *)
(* what is counted as good is new, unless the receiver was taken back to   *)
(* an older nonce by crypt_setDecryptIV (ocb.c:163: the packets in order   *)
(* are not looked up in the history).                                      *)
NoReplay == [][resync = 0 /\ uiGood' > uiGood => accepted' # accepted]_cryptVars

(* Why it holds: no packet of this key that was opened is ahead of         *)
(* decrypt_iv, and those that may still come late again are in the history *)
(* (ocb.c:226), unless the receiver's nonce was set again.                 *)
Known ==
    \A p \in accepted :
        /\ p.key <= key
        /\ p.key = key => p.iv <= decrypt_iv
        /\ p.key = key /\ p.iv > decrypt_iv - Window =>
             decrypt_history[Low(p.iv)] = Second(p.iv)

HistoryKnows == resync = 0 => Known

(* "Lost a few packets, but beyond that we're good" (ocb.c:200): a new     *)
(* packet will be opened if it is late by less than Window or ahead by     *)
(* less than half a round, whatever was lost or reordered before.  This    *)
(* holds for the first key, as long as its nonces have no zero for second  *)
(* byte: what the history holds before, or of another key, may look alike. *)
FreshAccepted ==
    key = 1 /\ (\A n \in start .. encrypt_iv : Second(n) # 0) =>
        \A p \in net : Due(p) => Accepts(p)

(* The same of every nonce of the first key, as the comment has it.        *)
AlwaysFresh == key = 1 => \A p \in net : Due(p) => Accepts(p)

(* The packets of this key that were passed over and did not come late.    *)
Missing ==
    (decrypt_iv - start) - Cardinality({p \in accepted : p.key = key})

(* uiLost, which the pings report, is what is missing, or one more: the    *)
(* guard against wrapping below zero also keeps the last 1 (ocb.c:241),    *)
(* where "uiLost += lost" would be exact.                                  *)
LostBounded == key <= 1 /\ resync = 0 => uiLost - Missing \in {0, 1}
=============================================================================
