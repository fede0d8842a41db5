--------------------------- MODULE AudioPathProofs ---------------------------
(***************************************************************************)
(* What audio goes through on its way out, in three parts that share no    *)
(* variable: the ring of a stream, the pipeline of its frames, and the     *)
(* nonces of the UDP packets that carry them.                              *)
(*                                                                         *)
(* The ring of an AudioStream delivers its samples in order, for a buffer  *)
(* of any size, any number of samples and any number of resets that no     *)
(* write overlaps; and its indices stay within it whatever overlaps.       *)
(*                                                                         *)
(* The pipeline implements the queue of FrameFifo, for any number of       *)
(* frames: whatever the three threads do, packets leave in the order in    *)
(* which they were mixed.  The encode thread has let go of the queues when *)
(* they are freed, and the last frame of audio buffers is an end frame.    *)
(*                                                                         *)
(* However the network loses, repeats and reorders packets, crypt_decrypt  *)
(* opens each at most once, for any size of a byte and of the window, any  *)
(* number of keys and packets, until the receiver's nonce is set again     *)
(* (crypt_setDecryptIV).                                                   *)
(***************************************************************************)
EXTENDS AudioPipeline, AudioRing, CryptState, SequenceTheorems, FiniteSetTheorems,
        ListAndModTheorems

-----------------------------------------------------------------------------
(* The ring.                                                               *)

(* The inductive invariant: a sample lives in the cell of its number since *)
(* the last reset.                                                         *)

Cell(m) == m % BufferSize

(* The cell of a sample some way on.                                       *)
LEMMA CellAdd ==
    ASSUME NEW a \in Nat, NEW k \in Nat
    PROVE  (Cell(a) + k) % BufferSize = Cell(a + k)
<1>1. a \in Int /\ k \in Int /\ BufferSize \in Nat \ {0}
  BY RingAssumption
<1>2. ((a % BufferSize) + k) % BufferSize = (a + k) % BufferSize
  BY <1>1, ModAdd, Zenon
<1> QED
  BY <1>2, Zenon DEF Cell

(* Samples less than the buffer apart do not share a cell.                 *)
LEMMA CellSame ==
    ASSUME NEW m \in Nat, NEW n \in Nat,
           m - n < BufferSize, n - m < BufferSize, Cell(m) = Cell(n)
    PROVE  m = n
<1>1. m \in Int /\ n \in Int /\ BufferSize \in Nat \ {0}
  BY RingAssumption
<1>2. m % BufferSize = n % BufferSize
  BY Zenon DEF Cell
<1> QED
  BY <1>1, <1>2, ModSame, Zenon

(* What bounds the indices under every race: the writer's samples have     *)
(* room, and the reader's are counted in used.                             *)
CountsOK ==
    /\ writer # "idle" => wcount >= 1 /\ used + wcount <= BufferSize
    /\ writer = "copy" => wdone < wcount
    /\ writer \in {"head", "used"} => wdone = wcount
    /\ reader \in {"copy", "tail", "used"} => rcount >= 1 /\ rcount <= used
    /\ reader = "copy" => rdone < rcount

(* The indices are those of the next sample to write and to read, and used *)
(* is their distance.                                                      *)
IndicesOK ==
    /\ base <= read /\ used = written - read
    /\ head = Cell(IF writer = "used" THEN written - base + wcount ELSE written - base)
    /\ tail = Cell(IF reader = "used" THEN read - base + rcount ELSE read - base)
    /\ writer # "idle" => whead = Cell(written - base)
    /\ reader # "idle" => rtail = Cell(read - base)

(* The samples in the buffer: the published ones not taken yet, and the    *)
(* ones the writer has copied already.                                     *)
Copied == IF writer = "idle" THEN 0 ELSE wdone

SamplesOK ==
    \A m \in Nat :
        read <= m /\ m < written + Copied => buffer[Cell(m - base)] = m + 1

(* A reset that no write overlaps finds and leaves the ring to itself.     *)
ResetOK == writer = "idle" /\ used = 0 /\ (reader = "resetTail" => head = 0)

Undisturbed == IF Resetting THEN ResetOK ELSE IndicesOK /\ SamplesOK

RingInv == RingTypeOK /\ CountsOK /\ (~raced => Undisturbed)

(* The initial state satisfies the invariant.                              *)
LEMMA RingBegins == RingInit => RingInv
<1> SUFFICES ASSUME RingInit PROVE RingInv
  OBVIOUS
<1> USE RingAssumption
<1>1. 0 % BufferSize = 0
  BY ModDef, ModSame
<1>2. RingTypeOK
  <2>1. raced \in BOOLEAN
    BY Zenon DEF RingInit
  <2> QED
    BY <2>1 DEF RingInit, RingTypeOK, Cells
<1>3. IndicesOK
  <2>1. Cell(0) = 0
    BY <1>1 DEF Cell
  <2> QED
    BY <2>1 DEF RingInit, IndicesOK
<1>4. SamplesOK
  BY DEF RingInit, SamplesOK, Copied
<1>5. CountsOK
  BY DEF RingInit, CountsOK
<1>6. ~Resetting
  BY DEF RingInit, Resetting
<1> QED
  BY <1>2, <1>3, <1>4, <1>5, <1>6 DEF RingInv, Undisturbed

(* Every step preserves the types and the counts, races or not.            *)
LEMMA CountsNext == RingTypeOK /\ CountsOK /\ [RingNext]_ringVars => RingTypeOK' /\ CountsOK'
<1> SUFFICES ASSUME RingTypeOK, CountsOK, [RingNext]_ringVars PROVE RingTypeOK' /\ CountsOK'
  OBVIOUS
<1> USE RingAssumption
<1>types. /\ head \in Cells /\ tail \in Cells /\ whead \in Cells /\ rtail \in Cells
          /\ written \in Nat /\ read \in Nat /\ base \in Nat /\ used \in 0 .. BufferSize
          /\ wcount \in 0 .. BufferSize /\ wdone \in 0 .. wcount
          /\ rcount \in 0 .. BufferSize /\ rdone \in 0 .. rcount
          /\ buffer \in [Cells -> Nat]
          /\ writer \in {"idle", "copy", "head", "used"}
          /\ reader \in {"idle", "copy", "tail", "used", "resetHead", "resetTail"}
          /\ BufferSize \in Nat \ {0}
  BY DEF RingTypeOK
<1>cell. \A c \in Cells : c \in Nat
  BY DEF Cells
<1>wrap. \A a \in Nat : a % BufferSize \in Cells
  BY ModDef DEF Cells
<1>zero. 0 \in Cells
  BY DEF Cells
<1>raced. raced' \in BOOLEAN
  <2>1. raced \in BOOLEAN
    BY Zenon DEF RingTypeOK
  <2> QED
    BY <2>1, Zenon DEF RingNext, ring_write, ring_read, reset, ringVars, ringGhosts, WriteBegin, WriteCopy,
       WriteHead, WriteUsed, ReadBegin, ReadCopy, ReadTail, ReadUsed, ResetUsed, ResetHead,
       ResetTail
<1>1. CASE WriteBegin
  <2>1. /\ wcount' \in 1 .. (BufferSize - used) /\ used < BufferSize
        /\ writer' = "copy" /\ whead' = head /\ wdone' = 0
        /\ UNCHANGED <<ring, reading, written, read, base>>
    BY <1>1, <1>types DEF WriteBegin, ring_space
  <2>2. \A w \in 1 .. (BufferSize - used) :
          w \in 0 .. BufferSize /\ 0 \in 0 .. w /\ w >= 1 /\ used + w <= BufferSize /\ 0 < w
    BY <1>types
  <2>3. RingTypeOK'
    BY <2>1, <2>2, <1>types, <1>raced DEF RingTypeOK, ring, reading
  <2>4. CountsOK'
    BY <2>1, <2>2, <1>types DEF CountsOK, ring, reading
  <2> QED
    BY <2>3, <2>4
<1>2. CASE WriteCopy
  <2>1. (whead + wdone) % BufferSize \in Cells
    BY <1>types, <1>cell, <1>wrap
  <2>2. buffer' \in [Cells -> Nat]
    BY <1>2, <2>1, <1>types DEF WriteCopy
  <2> QED
    BY <1>2, <2>2, <1>types, <1>raced DEF WriteCopy, RingTypeOK, CountsOK, reading, ringGhosts
<1>3. CASE WriteHead
  <2>1. head' \in Cells
    BY <1>3, <1>types, <1>cell, <1>wrap DEF WriteHead
  <2> QED
    BY <1>3, <2>1, <1>types, <1>raced DEF WriteHead, RingTypeOK, CountsOK, reading, ringGhosts
<1>4. CASE WriteUsed
  BY <1>4, <1>types, <1>raced DEF WriteUsed, RingTypeOK, CountsOK, reading
<1>5. CASE ReadBegin
  <2>1. rcount' \in 1 .. used
    BY <1>5 DEF ReadBegin, ring_count
  <2> QED
    BY <1>5, <2>1, <1>types, <1>raced DEF ReadBegin, RingTypeOK, CountsOK, ring, writing, ringGhosts
<1>6. CASE ReadCopy
  BY <1>6, <1>types, <1>raced DEF ReadCopy, RingTypeOK, CountsOK, ring, writing, ringGhosts
<1>7. CASE ReadTail
  <2>1. tail' \in Cells
    BY <1>7, <1>types, <1>cell, <1>wrap DEF ReadTail
  <2> QED
    BY <1>7, <2>1, <1>types, <1>raced DEF ReadTail, RingTypeOK, CountsOK, writing, ringGhosts
<1>8. CASE ReadUsed
  BY <1>8, <1>types, <1>raced DEF ReadUsed, RingTypeOK, CountsOK, writing
<1>9. CASE ResetUsed
  BY <1>9, <1>types, <1>raced DEF ResetUsed, RingTypeOK, CountsOK, writing
<1>10. CASE ResetHead
  BY <1>10, <1>types, <1>zero, <1>raced DEF ResetHead, RingTypeOK, CountsOK, writing, ringGhosts
<1>11. CASE ResetTail
  BY <1>11, <1>types, <1>zero, <1>raced DEF ResetTail, RingTypeOK, CountsOK, writing
<1>12. CASE UNCHANGED ringVars
  BY <1>12, <1>types, <1>raced DEF ringVars, ring, writing, reading, ringGhosts, RingTypeOK, CountsOK
<1> QED
  BY <1>1, <1>2, <1>3, <1>4, <1>5, <1>6, <1>7, <1>8, <1>9, <1>10, <1>11, <1>12
     DEF RingNext, ring_write, ring_read, reset

(* Every step that leaves the last reset undisturbed keeps the indices and *)
(* the samples in their places.                                            *)
LEMMA UndisturbedNext ==
    ASSUME RingInv, [RingNext]_ringVars, ~raced' PROVE Undisturbed'
<1> USE RingAssumption
<1>types. /\ head \in Cells /\ tail \in Cells /\ whead \in Cells /\ rtail \in Cells
          /\ written \in Nat /\ read \in Nat /\ base \in Nat /\ used \in Nat
          /\ wcount \in Nat /\ wdone \in Nat /\ rcount \in Nat /\ rdone \in Nat
          /\ buffer \in [Cells -> Nat]
          /\ BufferSize \in Nat \ {0}
  BY DEF RingInv, RingTypeOK
<1>wrap. \A a \in Nat : Cell(a) \in Cells
  BY ModDef DEF Cell, Cells
<1>counts. CountsOK
  BY DEF RingInv
<1>quiet. ASSUME ~raced PROVE Undisturbed
  BY <1>quiet DEF RingInv
(* Outside a reset, in an undisturbed ring.                                *)
<1>facts. ASSUME ~raced, ~Resetting
          PROVE  /\ IndicesOK /\ SamplesOK
                 /\ base <= read /\ read <= written
                 /\ written - base \in Nat /\ read - base \in Nat
  <2>1. IndicesOK /\ SamplesOK
    BY <1>facts, <1>quiet DEF Undisturbed
  <2> QED
    BY <2>1, <1>types DEF IndicesOK
<1>1. CASE WriteBegin
  <2>1. ~raced /\ ~Resetting
    BY <1>1 DEF WriteBegin
  <2>2. /\ writer = "idle" /\ writer' = "copy" /\ whead' = head /\ wdone' = 0
        /\ UNCHANGED <<ring, reading, written, read, base>>
    BY <1>1 DEF WriteBegin
  <2>3. IndicesOK'
    BY <2>1, <2>2, <1>facts DEF IndicesOK, ring, reading
  <2>4. SamplesOK'
    BY <2>1, <2>2, <1>facts, <1>types DEF SamplesOK, Copied, ring
  <2>5. ~Resetting'
    BY <2>1, <2>2 DEF Resetting, reading
  <2> QED
    BY <2>3, <2>4, <2>5 DEF Undisturbed
<1>2. CASE WriteCopy
  <2> DEFINE c == (whead + wdone) % BufferSize
             n == written + wdone
  <2>1. ~raced /\ ~Resetting
    <3>1. ~raced /\ writer # "idle"
      BY <1>2 DEF WriteCopy, ringGhosts
    <3> QED
      BY <3>1, <1>quiet DEF Undisturbed, ResetOK
  <2>2. /\ writer = "copy" /\ wdone < wcount /\ whead = Cell(written - base)
        /\ written + wcount - read <= BufferSize
        /\ writer' = (IF wdone + 1 = wcount THEN "head" ELSE "copy")
        /\ wdone' = wdone + 1 /\ buffer' = [buffer EXCEPT ![c] = n + 1]
        /\ UNCHANGED <<head, tail, used, whead, wcount, reading, ringGhosts>>
    <3>1. writer = "copy" /\ wdone < wcount /\ used + wcount <= BufferSize
      BY <1>2, <1>counts DEF WriteCopy, CountsOK
    <3>2. whead = Cell(written - base) /\ used = written - read
      BY <3>1, <2>1, <1>facts DEF IndicesOK
    <3> QED
      BY <1>2, <3>1, <3>2, <1>types DEF WriteCopy
  <2>3. c = Cell(n - base)
    BY <2>1, <2>2, <1>facts, <1>types, CellAdd
  <2>4. n \in Nat /\ n - base \in Nat /\ c \in Cells
    BY <2>1, <2>3, <1>facts, <1>types, <1>wrap
  <2>5. buffer'[c] = n + 1 /\ \A d \in Cells \ {c} : buffer'[d] = buffer[d]
    BY <2>2, <2>4, <1>types
  <2>6. IndicesOK'
    BY <2>1, <2>2, <1>facts, <1>types DEF IndicesOK, reading, ringGhosts
  <2>7. SamplesOK'
    <3> SUFFICES ASSUME NEW m \in Nat, read <= m, m < n + 1
                 PROVE  buffer'[Cell(m - base)] = m + 1
      BY <2>2, <1>types DEF SamplesOK, Copied, ringGhosts
    <3>1. CASE m = n
      BY <3>1, <2>3, <2>5
    <3>2. CASE m < n
      <4>1. buffer[Cell(m - base)] = m + 1
        BY <3>2, <2>1, <2>2, <1>facts DEF SamplesOK, Copied
      <4>2. m - base \in Nat
        BY <2>1, <1>facts, <1>types
      <4>3. Cell(m - base) # c
        <5>1. (m - base) - (n - base) < BufferSize /\ (n - base) - (m - base) < BufferSize
          BY <2>2, <2>4, <1>types
        <5>2. SUFFICES ASSUME Cell(m - base) = Cell(n - base) PROVE FALSE
          BY <2>3
        <5>3. m - base = n - base
          BY <5>1, <5>2, <2>4, <4>2, CellSame
        <5> QED
          BY <5>3, <3>2, <2>4, <1>types
      <4> QED
        BY <4>1, <4>2, <4>3, <2>5, <1>wrap
    <3> QED
      BY <3>1, <3>2, <2>4
  <2>8. ~Resetting'
    BY <2>1, <2>2 DEF Resetting, reading
  <2> QED
    BY <2>6, <2>7, <2>8 DEF Undisturbed
<1>3. CASE WriteHead
  <2>1. ~raced /\ ~Resetting
    <3>1. ~raced /\ writer # "idle"
      BY <1>3 DEF WriteHead, ringGhosts
    <3> QED
      BY <3>1, <1>quiet DEF Undisturbed, ResetOK
  <2>2. /\ writer = "head" /\ writer' = "used" /\ whead = Cell(written - base)
        /\ head' = (whead + wcount) % BufferSize
        /\ UNCHANGED <<buffer, tail, used, whead, wcount, wdone, reading, ringGhosts>>
    BY <1>3, <2>1, <1>facts DEF WriteHead, IndicesOK
  <2>3. head' = Cell(written - base + wcount)
    BY <2>1, <2>2, <1>facts, <1>types, CellAdd
  <2>4. IndicesOK'
    BY <2>1, <2>2, <2>3, <1>facts DEF IndicesOK, reading, ringGhosts
  <2>5. SamplesOK'
    BY <2>1, <2>2, <1>facts DEF SamplesOK, Copied, ringGhosts
  <2>6. ~Resetting'
    BY <2>1, <2>2 DEF Resetting, reading
  <2> QED
    BY <2>4, <2>5, <2>6 DEF Undisturbed
<1>4. CASE WriteUsed
  <2>1. ~raced /\ ~Resetting
    <3>1. ~raced /\ writer # "idle"
      BY <1>4 DEF WriteUsed
    <3> QED
      BY <3>1, <1>quiet DEF Undisturbed, ResetOK
  <2>2. /\ writer = "used" /\ writer' = "idle" /\ wdone = wcount
        /\ written' = written + wcount /\ used' = used + wcount
        /\ UNCHANGED <<buffer, head, tail, whead, wcount, wdone, reading, read, base>>
    BY <1>4, <1>counts DEF WriteUsed, CountsOK
  <2>3. IndicesOK'
    BY <2>1, <2>2, <1>facts, <1>types DEF IndicesOK, reading
  <2>4. SamplesOK'
    BY <2>1, <2>2, <1>facts, <1>types DEF SamplesOK, Copied
  <2>5. ~Resetting'
    BY <2>1, <2>2 DEF Resetting, reading
  <2> QED
    BY <2>3, <2>4, <2>5 DEF Undisturbed
<1>5. CASE ReadBegin
  <2>1. ~raced /\ ~Resetting
    BY <1>5 DEF ReadBegin, Resetting, ringGhosts
  <2>2. /\ reader = "idle" /\ reader' = "copy" /\ rtail' = tail /\ rdone' = 0
        /\ UNCHANGED <<ring, writing, ringGhosts>>
    BY <1>5 DEF ReadBegin
  <2>3. IndicesOK'
    BY <2>1, <2>2, <1>facts, <1>types DEF IndicesOK, ring, writing, ringGhosts
  <2>4. SamplesOK'
    BY <2>1, <2>2, <1>facts DEF SamplesOK, Copied, ring, writing, ringGhosts
  <2>5. ~Resetting'
    BY <2>2 DEF Resetting
  <2> QED
    BY <2>3, <2>4, <2>5 DEF Undisturbed
<1>6. CASE ReadCopy
  <2>1. ~raced /\ ~Resetting
    BY <1>6 DEF ReadCopy, Resetting, ringGhosts
  <2>2. /\ reader = "copy" /\ reader' \in {"copy", "tail"}
        /\ UNCHANGED <<ring, writing, rtail, rcount, ringGhosts>>
    BY <1>6 DEF ReadCopy
  <2>3. IndicesOK'
    BY <2>1, <2>2, <1>facts, <1>types DEF IndicesOK, ring, writing, ringGhosts
  <2>4. SamplesOK'
    BY <2>1, <2>2, <1>facts DEF SamplesOK, Copied, ring, writing, ringGhosts
  <2>5. ~Resetting'
    BY <2>2 DEF Resetting
  <2> QED
    BY <2>3, <2>4, <2>5 DEF Undisturbed
<1>7. CASE ReadTail
  <2>1. ~raced /\ ~Resetting
    BY <1>7 DEF ReadTail, Resetting, ringGhosts
  <2>2. /\ reader = "tail" /\ reader' = "used" /\ rtail = Cell(read - base)
        /\ tail' = (rtail + rcount) % BufferSize
        /\ UNCHANGED <<buffer, head, used, writing, rtail, rcount, rdone, ringGhosts>>
    BY <1>7, <2>1, <1>facts DEF ReadTail, IndicesOK
  <2>3. tail' = Cell(read - base + rcount)
    BY <2>1, <2>2, <1>facts, <1>types, CellAdd
  <2>4. IndicesOK'
    BY <2>1, <2>2, <2>3, <1>facts DEF IndicesOK, writing, ringGhosts
  <2>5. SamplesOK'
    BY <2>1, <2>2, <1>facts DEF SamplesOK, Copied, writing, ringGhosts
  <2>6. ~Resetting'
    BY <2>2 DEF Resetting
  <2> QED
    BY <2>4, <2>5, <2>6 DEF Undisturbed
<1>8. CASE ReadUsed
  <2>1. ~raced /\ ~Resetting
    BY <1>8 DEF ReadUsed, Resetting
  <2>2. /\ reader = "used" /\ reader' = "idle"
        /\ read' = read + rcount /\ used' = used - rcount /\ rcount <= used
        /\ UNCHANGED <<buffer, head, tail, writing, rtail, rcount, rdone, written, base>>
    BY <1>8, <1>counts DEF ReadUsed, CountsOK
  <2>3. IndicesOK'
    BY <2>1, <2>2, <1>facts, <1>types DEF IndicesOK, writing
  <2>4. SamplesOK'
    BY <2>1, <2>2, <1>facts, <1>types DEF SamplesOK, Copied, writing
  <2>5. ~Resetting'
    BY <2>2 DEF Resetting
  <2> QED
    BY <2>3, <2>4, <2>5 DEF Undisturbed
<1>9. CASE ResetUsed
  BY <1>9 DEF ResetUsed, Undisturbed, Resetting, ResetOK, writing
<1>10. CASE ResetHead
  <2>1. ResetOK
    BY <1>10, <1>quiet DEF ResetHead, Undisturbed, Resetting, ringGhosts
  <2> QED
    BY <1>10, <2>1 DEF ResetHead, Undisturbed, Resetting, ResetOK, writing
<1>11. CASE ResetTail
  <2>1. ResetOK /\ reader = "resetTail"
    BY <1>11, <1>quiet DEF ResetTail, Undisturbed, Resetting
  <2>2. /\ head' = 0 /\ tail' = 0 /\ used' = 0 /\ writer' = "idle" /\ reader' = "idle"
        /\ written' = written /\ read' = written /\ base' = written
    BY <1>11, <2>1 DEF ResetTail, ResetOK, writing
  <2>3. Cell(0) = 0
    BY ModDef, ModSame, <1>types DEF Cell
  <2>4. written - written = 0
    BY <1>types
  <2>5. IndicesOK'
    BY <2>2, <2>3, <2>4, <1>types DEF IndicesOK
  <2>6. SamplesOK'
    BY <2>2, <1>types DEF SamplesOK, Copied
  <2>7. ~Resetting'
    BY <2>2 DEF Resetting
  <2> QED
    BY <2>5, <2>6, <2>7 DEF Undisturbed
<1>12. CASE UNCHANGED ringVars
  <2>1. Undisturbed
    BY <1>12, <1>quiet DEF ringVars, ringGhosts
  <2> QED
    BY <1>12, <2>1 DEF ringVars, ring, writing, reading, ringGhosts, Undisturbed, Resetting, ResetOK,
       IndicesOK, SamplesOK, Copied
<1> QED
  BY <1>1, <1>2, <1>3, <1>4, <1>5, <1>6, <1>7, <1>8, <1>9, <1>10, <1>11, <1>12
     DEF RingNext, ring_write, ring_read, reset

(* The two together: the invariant is inductive.                           *)
LEMMA RingKept == RingInv /\ [RingNext]_ringVars => RingInv'
<1> SUFFICES ASSUME RingInv, [RingNext]_ringVars PROVE RingInv'
  OBVIOUS
<1>1. RingTypeOK' /\ CountsOK'
  BY CountsNext DEF RingInv
<1>2. ASSUME ~raced' PROVE Undisturbed'
  BY <1>2, UndisturbedNext
<1> QED
  BY <1>1, <1>2 DEF RingInv

(* Whatever a reset interrupts, the indices and the occupancy stay within  *)
(* the buffer, and no unsigned subtraction wraps (audio.c:69-119).         *)
THEOREM RingTypeCorrect == RingSpec => []RingTypeOK
<1>1. RingInv => RingTypeOK
  BY DEF RingInv
<1> QED
  BY <1>1, RingBegins, RingKept, PTL DEF RingSpec

(* The mixer takes the samples one after the other, each once and none     *)
(* before it was published, for every size of the ring and after every     *)
(* reset that no write overlapped (audio.c:79-119, 308-312).               *)
THEOREM ReadsInOrder == RingSpec => []ReadsNext
<1>1. RingInv => ReadsNext
  <2> SUFFICES ASSUME RingInv, reader = "copy", ~raced
               PROVE  buffer[(rtail + rdone) % BufferSize] = read + rdone + 1
    BY DEF ReadsNext
  <2> USE RingAssumption
  <2>1. IndicesOK /\ SamplesOK
    BY DEF RingInv, Undisturbed, Resetting
  <2>2. /\ rtail = Cell(read - base) /\ rdone < rcount /\ rcount <= written - read
        /\ read \in Nat /\ rdone \in Nat /\ written \in Nat /\ rcount \in Nat
        /\ wdone \in Nat /\ base \in Nat /\ base <= read
    BY <2>1 DEF RingInv, IndicesOK, CountsOK, RingTypeOK
  <2>3. read - base \in Nat
    BY <2>2
  <2>4. (rtail + rdone) % BufferSize = Cell(read - base + rdone)
    BY <2>2, <2>3, CellAdd
  <2>5. /\ read + rdone \in Nat /\ read + rdone < written + Copied /\ read <= read + rdone
        /\ (read + rdone) - base = read - base + rdone
    BY <2>2 DEF Copied
  <2>6. \A m \in Nat : read <= m /\ m < written + Copied => buffer[Cell(m - base)] = m + 1
    BY <2>1 DEF SamplesOK
  <2>7. buffer[Cell((read + rdone) - base)] = read + rdone + 1
    BY <2>5, <2>6
  <2> QED
    BY <2>4, <2>5, <2>7
<1> QED
  BY <1>1, RingBegins, RingKept, PTL DEF RingSpec

(* Once both threads have left the ring, head, tail and used agree, unless *)
(* a write overlapped the last reset.                                      *)
THEOREM RingStaysWhole == RingSpec => []RingWhole
<1>1. RingInv => RingWhole
  <2> SUFFICES ASSUME RingInv, writer = "idle", reader = "idle", ~raced
               PROVE  head = (tail + used) % BufferSize
    BY DEF RingWhole
  <2> USE RingAssumption
  <2>1. IndicesOK
    BY DEF RingInv, Undisturbed, Resetting
  <2>2. /\ head = Cell(written - base) /\ tail = Cell(read - base) /\ used = written - read
        /\ read \in Nat /\ written \in Nat /\ base \in Nat /\ base <= read
    BY <2>1 DEF RingInv, IndicesOK, RingTypeOK
  <2>3. read - base \in Nat /\ used \in Nat /\ written - base = read - base + used
    BY <2>2 DEF RingInv, RingTypeOK
  <2>4. (tail + used) % BufferSize = Cell(read - base + used)
    BY <2>2, <2>3, CellAdd
  <2> QED
    BY <2>2, <2>3, <2>4
<1> QED
  BY <1>1, RingBegins, RingKept, PTL DEF RingSpec

-----------------------------------------------------------------------------
(* The pipeline.                                                           *)

(* The types, in three parts.                                              *)

Flags ==
    /\ connected \in BOOLEAN /\ files \in BOOLEAN /\ audio_stream_active \in BOOLEAN
    /\ encode_running \in BOOLEAN /\ playback_running \in BOOLEAN
    /\ signalled \in BOOLEAN /\ pending \in BOOLEAN
    /\ mixed \in BOOLEAN /\ terminated \in BOOLEAN
    /\ hooked \in BOOLEAN /\ fault \in BOOLEAN

Places ==
    /\ encode \in {"loop", "pop", "wait", "encode", "done"}
    /\ playback \in {"check", "due", "pend", "signal", "done"}
    /\ main \in MainLabels

Contents ==
    /\ audio_sequence \in 0 .. MaxSequence
    /\ encode_queue \in Seq(Work) /\ send_queue \in Seq(Work)
    /\ encoding \in Work \cup {NoWork}
    /\ encode = "encode" <=> encoding # NoWork
    /\ sent \in Seq(Nat)

(* The encode thread is joined before the queues are freed, nobody queues  *)
(* anything after that, and only a mixing step that a hook disconnected    *)
(* still locks what was destroyed.                                         *)
JoinedFirst ==
    /\ main \in {"cleanup", "gone"} => encode = "done"
    /\ main = "gone" => encode_queue = <<>> /\ send_queue = <<>>
    /\ fault => hooked /\ main = "gone"

(* Audio buffers that were silent in the last frame were ended by it, or   *)
(* by an earlier one.                                                      *)
SilenceIsEnded == ~files /\ (~audio_stream_active \/ ~mixed) => terminated

(* The inductive invariant.                                                *)
IInv == Flags /\ Places /\ Contents /\ JoinedFirst /\ SilenceIsEnded

-----------------------------------------------------------------------------
(* Together they are the module's type invariant.                          *)
LEMMA Parts == Flags /\ Places /\ Contents => TypeOK
BY DEF TypeOK, Flags, Places, Contents

(* A frame that is queued is a piece of work.                              *)
LEMMA FrameIsWork ==
    ASSUME NEW n \in Nat, NEW endFrame \in BOOLEAN
    PROVE  /\ [audio_sequence |-> n, end_frame |-> endFrame] \in Work
           /\ NoWork \notin Work
BY PipelineAssumption DEF Work

(* Every step keeps the types: the flags.                                  *)
LEMMA StepKeepsFlags == Flags /\ [Next]_vars => Flags'
<1> SUFFICES ASSUME Flags, [Next]_vars PROVE Flags'
  OBVIOUS
<1> USE DEF Flags, MainLabels, client, queues, threads, wakeup, ghosts
<1>1. CASE PlaybackThread
  <2>1. CASE PlaybackCheck
    BY <2>1 DEF PlaybackCheck, Playback
  <2>2. CASE PlaybackDue
    BY <2>2 DEF PlaybackDue, Playback
  <2>3. CASE PlaybackPend
    BY <2>3 DEF PlaybackPend, Playback
  <2>4. CASE PlaybackSignal
    BY <2>4 DEF PlaybackSignal, Playback
  <2> QED
    BY <1>1, <2>1, <2>2, <2>3, <2>4 DEF PlaybackThread
<1>2. CASE Connect \/ Disconnect \/ DisconnectAtStreamEnd \/ UseFreed
  <2>1. CASE Connect
    BY <2>1 DEF Connect, Main
  <2>2. CASE Disconnect
    BY <2>2 DEF Disconnect
  <2>3. CASE DisconnectAtStreamEnd
    BY <2>3 DEF DisconnectAtStreamEnd, Main
  <2>4. CASE UseFreed
    BY <2>4 DEF UseFreed
  <2> QED
    BY <1>2, <2>1, <2>2, <2>3, <2>4
<1>3. CASE Callback
  <2>1. CASE Async
    BY <2>1 DEF Async, Main
  <2>2. CASE TakePending
    BY <2>2 DEF TakePending, Main
  <2>3. CASE MixFrame
    <3>1. audio_stream_active' \in BOOLEAN /\ mixed' \in BOOLEAN
      BY <2>3 DEF MixFrame
    <3>2. terminated' \in BOOLEAN
      BY <2>3, Zenon DEF MixFrame, EndFrame
    <3> QED
      BY <2>3, <3>1, <3>2 DEF MixFrame, Main, Submit
  <2>4. CASE MixAtBound
    BY <2>4 DEF MixAtBound, Main
  <2>5. CASE SendOne
    BY <2>5 DEF SendOne, Main
  <2> QED
    BY <1>3, <2>1, <2>2, <2>3, <2>4, <2>5 DEF Callback
<1>4. CASE Shutdown
  <2>1. CASE StopPlayback
    BY <2>1 DEF StopPlayback, Main
  <2>2. CASE JoinPlayback
    BY <2>2 DEF JoinPlayback, Main
  <2>3. CASE StopEncode
    BY <2>3 DEF StopEncode, Main, CondSignal
  <2>4. CASE JoinEncode
    BY <2>4 DEF JoinEncode, Main
  <2>5. CASE Cleanup
    BY <2>5 DEF Cleanup, Main
  <2> QED
    BY <1>4, <2>1, <2>2, <2>3, <2>4, <2>5 DEF Shutdown
<1>5. CASE EncodeThread \/ EncodeSpurious
  <2>1. CASE EncodeLoop
    BY <2>1 DEF EncodeLoop, Encode
  <2>2. CASE EncodePop
    BY <2>2 DEF EncodePop, Encode
  <2>3. CASE EncodePush
    BY <2>3 DEF EncodePush, Encode
  <2>4. CASE EncodeSpurious
    BY <2>4 DEF EncodeSpurious, Encode
  <2> QED
    BY <1>5, <2>1, <2>2, <2>3, <2>4 DEF EncodeThread
<1>6. CASE UNCHANGED vars
  BY <1>6 DEF vars
<1> QED
  BY <1>1, <1>2, <1>3, <1>4, <1>5, <1>6 DEF Next

(* ... where the threads are.                                              *)
LEMMA StepKeepsPlaces == Places /\ [Next]_vars => Places'
<1> SUFFICES ASSUME Places, [Next]_vars PROVE Places'
  OBVIOUS
<1> USE DEF Places, MainLabels, client, queues, threads, wakeup, ghosts
<1>1. CASE PlaybackThread
  BY <1>1 DEF PlaybackThread, PlaybackCheck, Playback, PlaybackDue, PlaybackPend,
     PlaybackSignal
<1>2. CASE Connect \/ Disconnect \/ DisconnectAtStreamEnd \/ UseFreed
  BY <1>2 DEF Connect, Main, Disconnect, DisconnectAtStreamEnd, UseFreed
<1>3. CASE Callback
  BY <1>3 DEF Callback, Async, Main, TakePending, MixFrame, Submit, CondSignal,
     MixAtBound, SendOne
<1>4. CASE Shutdown
  BY <1>4 DEF Shutdown, StopPlayback, Main, JoinPlayback, StopEncode, CondSignal,
     JoinEncode, Cleanup
<1>5. CASE EncodeThread \/ EncodeSpurious
  BY <1>5 DEF EncodeThread, EncodeLoop, Encode, EncodePop, EncodePush, EncodeSpurious
<1>6. CASE UNCHANGED vars
  BY <1>6 DEF vars
<1> QED
  BY <1>1, <1>2, <1>3, <1>4, <1>5, <1>6 DEF Next

(* ... and what is on its way.                                             *)
LEMMA StepKeepsContents == Contents /\ [Next]_vars => Contents'
<1> SUFFICES ASSUME Contents, [Next]_vars PROVE Contents'
  OBVIOUS
<1> USE DEF Contents, client, queues, threads, wakeup, ghosts
<1>1. CASE PlaybackThread
  <2>1. CASE PlaybackCheck
    BY <2>1 DEF PlaybackCheck, Playback
  <2>2. CASE PlaybackDue
    BY <2>2 DEF PlaybackDue, Playback
  <2>3. CASE PlaybackPend
    BY <2>3 DEF PlaybackPend, Playback
  <2>4. CASE PlaybackSignal
    BY <2>4 DEF PlaybackSignal, Playback
  <2> QED
    BY <1>1, <2>1, <2>2, <2>3, <2>4 DEF PlaybackThread
<1>2. CASE Connect \/ Disconnect \/ DisconnectAtStreamEnd \/ UseFreed
  <2>1. CASE Connect
    BY <2>1 DEF Connect, Main
  <2>2. CASE Disconnect
    BY <2>2 DEF Disconnect
  <2>3. CASE DisconnectAtStreamEnd
    BY <2>3 DEF DisconnectAtStreamEnd, Main
  <2>4. CASE UseFreed
    BY <2>4 DEF UseFreed
  <2> QED
    BY <1>2, <2>1, <2>2, <2>3, <2>4
<1>3. CASE Callback
  <2>1. CASE Async
    BY <2>1 DEF Async, Main
  <2>2. CASE TakePending
    BY <2>2 DEF TakePending, Main
  <2>3. CASE MixFrame
    <3>1. CASE \E endFrame \in BOOLEAN : Submit(endFrame)
      <4>1. PICK endFrame \in BOOLEAN : Submit(endFrame)
        BY <3>1
      <4>2. audio_sequence \in Nat /\ audio_sequence + 1 \in 0 .. MaxSequence
        BY <2>3, PipelineAssumption DEF MixFrame
      <4>3. encode' = "encode" <=> encode = "encode"
        BY <4>1 DEF Submit, CondSignal
      <4>4. encode_queue' \in Seq(Work) /\ audio_sequence' = audio_sequence + 1
        BY <4>1, <4>2, FrameIsWork DEF Submit
      <4> QED
        BY <2>3, <4>1, <4>2, <4>3, <4>4 DEF MixFrame, Submit
    <3>2. CASE UNCHANGED <<audio_sequence, queues, encode_running, encode>>
      BY <2>3, <3>2 DEF MixFrame
    <3> QED
      BY <2>3, <3>1, <3>2, Zenon DEF MixFrame, EndFrame
  <2>4. CASE MixAtBound
    BY <2>4 DEF MixAtBound, Main
  <2>5. CASE SendOne
    <3>1. CASE send_queue = <<>>
      BY <2>5, <3>1 DEF SendOne
    <3>2. CASE send_queue # <<>>
      <4>1. Head(send_queue) \in Work /\ Tail(send_queue) \in Seq(Work)
        BY <3>2, HeadTailProperties
      <4>2. Head(send_queue).audio_sequence \in Nat
        BY <4>1 DEF Work
      <4>3. send_queue' = Tail(send_queue) /\ sent' \in {sent, Append(sent, Head(send_queue).audio_sequence)}
        BY <2>5, <3>2 DEF SendOne
      <4>4. Append(sent, Head(send_queue).audio_sequence) \in Seq(Nat)
        BY <4>2
      <4>5. sent' \in Seq(Nat)
        BY <4>3, <4>4, Zenon
      <4> QED
        BY <2>5, <4>1, <4>3, <4>5 DEF SendOne
    <3> QED
      BY <3>1, <3>2
  <2> QED
    BY <1>3, <2>1, <2>2, <2>3, <2>4, <2>5 DEF Callback
<1>4. CASE Shutdown
  <2>1. CASE StopPlayback
    BY <2>1 DEF StopPlayback, Main
  <2>2. CASE JoinPlayback
    BY <2>2 DEF JoinPlayback, Main
  <2>3. CASE StopEncode
    BY <2>3 DEF StopEncode, Main, CondSignal
  <2>4. CASE JoinEncode
    BY <2>4 DEF JoinEncode, Main
  <2>5. CASE Cleanup
    BY <2>5 DEF Cleanup, Main
  <2> QED
    BY <1>4, <2>1, <2>2, <2>3, <2>4, <2>5 DEF Shutdown
<1>5. CASE EncodeThread \/ EncodeSpurious
  <2>1. CASE EncodeLoop
    BY <2>1 DEF EncodeLoop, Encode
  <2>2. CASE EncodePop
    <3>1. CASE encode_queue = <<>>
      BY <2>2, <3>1 DEF EncodePop, Encode
    <3>2. CASE encode_queue # <<>>
      <4>1. Head(encode_queue) \in Work /\ Tail(encode_queue) \in Seq(Work)
        BY <3>2, HeadTailProperties
      <4> QED
        BY <2>2, <3>2, <4>1, FrameIsWork DEF EncodePop, Encode
    <3> QED
      BY <3>1, <3>2
  <2>3. CASE EncodePush
    BY <2>3 DEF EncodePush, Encode
  <2>4. CASE EncodeSpurious
    BY <2>4 DEF EncodeSpurious, Encode
  <2> QED
    BY <1>5, <2>1, <2>2, <2>3, <2>4 DEF EncodeThread
<1>6. CASE UNCHANGED vars
  BY <1>6 DEF vars
<1> QED
  BY <1>1, <1>2, <1>3, <1>4, <1>5, <1>6 DEF Next

(* JoinEncode waits for the thread to end, and it does not start again.    *)
LEMMA StepJoinsFirst ==
    Places /\ Contents /\ JoinedFirst /\ [Next]_vars => JoinedFirst'
<1> SUFFICES ASSUME Places, Contents, JoinedFirst, [Next]_vars PROVE JoinedFirst'
  OBVIOUS
<1> USE DEF JoinedFirst, client, queues, threads, wakeup, ghosts
<1>1. CASE PlaybackThread
  <2>1. CASE PlaybackCheck
    BY <2>1 DEF PlaybackCheck, Playback
  <2>2. CASE PlaybackDue
    BY <2>2 DEF PlaybackDue, Playback
  <2>3. CASE PlaybackPend
    BY <2>3 DEF PlaybackPend, Playback
  <2>4. CASE PlaybackSignal
    BY <2>4 DEF PlaybackSignal, Playback
  <2> QED
    BY <1>1, <2>1, <2>2, <2>3, <2>4 DEF PlaybackThread
<1>2. CASE Connect \/ Disconnect \/ DisconnectAtStreamEnd \/ UseFreed
  <2>1. CASE Connect
    BY <2>1 DEF Connect, Main
  <2>2. CASE Disconnect
    BY <2>2 DEF Disconnect
  <2>3. CASE DisconnectAtStreamEnd
    BY <2>3 DEF DisconnectAtStreamEnd, Main
  <2>4. CASE UseFreed
    BY <2>4 DEF UseFreed
  <2> QED
    BY <1>2, <2>1, <2>2, <2>3, <2>4
<1>3. CASE Callback
  <2>1. CASE Async
    BY <2>1 DEF Async, Main
  <2>2. CASE TakePending
    BY <2>2 DEF TakePending, Main
  <2>3. CASE MixFrame
    BY <2>3 DEF MixFrame, Main, Submit, CondSignal
  <2>4. CASE MixAtBound
    BY <2>4 DEF MixAtBound, Main
  <2>5. CASE SendOne
    BY <2>5 DEF SendOne, Main
  <2> QED
    BY <1>3, <2>1, <2>2, <2>3, <2>4, <2>5 DEF Callback
<1>4. CASE Shutdown
  <2>1. CASE StopPlayback
    BY <2>1 DEF StopPlayback, Main
  <2>2. CASE JoinPlayback
    BY <2>2 DEF JoinPlayback, Main
  <2>3. CASE StopEncode
    BY <2>3 DEF StopEncode, Main, CondSignal
  <2>4. CASE JoinEncode
    BY <2>4 DEF JoinEncode, Main
  <2>5. CASE Cleanup
    BY <2>5 DEF Cleanup, Main
  <2> QED
    BY <1>4, <2>1, <2>2, <2>3, <2>4, <2>5 DEF Shutdown
<1>5. CASE EncodeThread \/ EncodeSpurious
  <2>1. CASE EncodeLoop
    BY <2>1 DEF EncodeLoop, Encode
  <2>2. CASE EncodePop
    BY <2>2 DEF EncodePop, Encode
  <2>3. CASE EncodePush
    BY <2>3 DEF EncodePush, Encode
  <2>4. CASE EncodeSpurious
    BY <2>4 DEF EncodeSpurious, Encode
  <2> QED
    BY <1>5, <2>1, <2>2, <2>3, <2>4 DEF EncodeThread
<1>6. CASE UNCHANGED vars
  BY <1>6 DEF vars
<1> QED
  BY <1>1, <1>2, <1>3, <1>4, <1>5, <1>6 DEF Next

(* A frame that finds the buffers silent, and did not before, ends them.   *)
LEMMA StepEndsSilence ==
    Flags /\ SilenceIsEnded /\ [Next]_vars => SilenceIsEnded'
<1> SUFFICES ASSUME Flags, SilenceIsEnded, [Next]_vars PROVE SilenceIsEnded'
  OBVIOUS
<1> USE DEF SilenceIsEnded, Flags, EndFrame, client, queues, threads, wakeup, ghosts
<1>1. CASE PlaybackThread
  <2>1. CASE PlaybackCheck
    BY <2>1 DEF PlaybackCheck, Playback
  <2>2. CASE PlaybackDue
    BY <2>2 DEF PlaybackDue, Playback
  <2>3. CASE PlaybackPend
    BY <2>3 DEF PlaybackPend, Playback
  <2>4. CASE PlaybackSignal
    BY <2>4 DEF PlaybackSignal, Playback
  <2> QED
    BY <1>1, <2>1, <2>2, <2>3, <2>4 DEF PlaybackThread
<1>2. CASE Connect \/ Disconnect \/ DisconnectAtStreamEnd \/ UseFreed
  <2>1. CASE Connect
    BY <2>1 DEF Connect, Main
  <2>2. CASE Disconnect
    BY <2>2 DEF Disconnect
  <2>3. CASE DisconnectAtStreamEnd
    BY <2>3 DEF DisconnectAtStreamEnd, Main
  <2>4. CASE UseFreed
    BY <2>4 DEF UseFreed
  <2> QED
    BY <1>2, <2>1, <2>2, <2>3, <2>4
<1>3. CASE Callback
  <2>1. CASE Async
    BY <2>1 DEF Async, Main
  <2>2. CASE TakePending
    BY <2>2 DEF TakePending, Main
  <2>3. CASE MixFrame
    BY <2>3 DEF MixFrame, Main, Submit, CondSignal
  <2>4. CASE MixAtBound
    BY <2>4 DEF MixAtBound, Main
  <2>5. CASE SendOne
    BY <2>5 DEF SendOne, Main
  <2> QED
    BY <1>3, <2>1, <2>2, <2>3, <2>4, <2>5 DEF Callback
<1>4. CASE Shutdown
  <2>1. CASE StopPlayback
    BY <2>1 DEF StopPlayback, Main
  <2>2. CASE JoinPlayback
    BY <2>2 DEF JoinPlayback, Main
  <2>3. CASE StopEncode
    BY <2>3 DEF StopEncode, Main, CondSignal
  <2>4. CASE JoinEncode
    BY <2>4 DEF JoinEncode, Main
  <2>5. CASE Cleanup
    BY <2>5 DEF Cleanup, Main
  <2> QED
    BY <1>4, <2>1, <2>2, <2>3, <2>4, <2>5 DEF Shutdown
<1>5. CASE EncodeThread \/ EncodeSpurious
  <2>1. CASE EncodeLoop
    BY <2>1 DEF EncodeLoop, Encode
  <2>2. CASE EncodePop
    BY <2>2 DEF EncodePop, Encode
  <2>3. CASE EncodePush
    BY <2>3 DEF EncodePush, Encode
  <2>4. CASE EncodeSpurious
    BY <2>4 DEF EncodeSpurious, Encode
  <2> QED
    BY <1>5, <2>1, <2>2, <2>3, <2>4 DEF EncodeThread
<1>6. CASE UNCHANGED vars
  BY <1>6 DEF vars
<1> QED
  BY <1>1, <1>2, <1>3, <1>4, <1>5, <1>6 DEF Next

-----------------------------------------------------------------------------
(* Nothing is queued before the first frame.                               *)
LEMMA InitIsGood == Init => IInv
<1> SUFFICES ASSUME Init PROVE IInv
  OBVIOUS
<1> USE DEF Init
<1>1. Flags /\ Places /\ JoinedFirst /\ SilenceIsEnded
  BY DEF Flags, Places, MainLabels, JoinedFirst, SilenceIsEnded
<1>2. Contents
  BY PipelineAssumption DEF Contents
<1> QED
  BY <1>1, <1>2 DEF IInv

(* Every step of the pipeline keeps the invariant.                         *)
LEMMA StepIsGood == IInv /\ [Next]_vars => IInv'
BY StepKeepsFlags, StepKeepsPlaces, StepKeepsContents, StepJoinsFirst, StepEndsSilence
   DEF IInv

(* The invariant holds of the pipeline, whatever the three threads do.     *)
THEOREM Invariance == Spec => []IInv
BY InitIsGood, StepIsGood, PTL DEF Spec

(* mumble_audio_queue_shutdown frees the queues when no other thread is    *)
(* left to use them, and no work is in the hands of one (audio.c:913); the *)
(* main thread uses them again only if OnAudioStream disconnected.         *)
THEOREM QueuesAreLeft == Spec => []QueuesUnused
<1>1. IInv => QueuesUnused
  BY Parts DEF IInv, QueuesUnused, JoinedFirst, Contents
<1> QED
  BY <1>1, Invariance, PTL

(* When the mixer queues nothing, the last frame of the audio buffers has  *)
(* told the receivers that the transmission is over (audio.c:1105).        *)
THEOREM TransmissionEnds == Spec => []TalkEnds
<1>1. IInv => TalkEnds
  BY DEF IInv, TalkEnds, SilenceIsEnded
<1> QED
  BY <1>1, Invariance, PTL

-----------------------------------------------------------------------------
(* The refinement.  The abstract queue is the numbers of what the two      *)
(* queues and the hands of the encode thread hold, so what is to be shown  *)
(* of each action is what it does to their concatenation.                  *)

Hands == IF encoding = NoWork THEN <<>> ELSE <<encoding>>

NumbersOf(s) == [k \in DOMAIN s |-> s[k].audio_sequence]

(* What is in flight, in the order in which it leaves.                     *)
LEMMA Concatenation == InFlight = (send_queue \o Hands) \o encode_queue
BY DEF InFlight, Hands

(* What the queues and the thread hold are sequences of work.              *)
LEMMA FlightIsWork ==
    ASSUME Contents
    PROVE  /\ Hands \in Seq(Work) /\ send_queue \o Hands \in Seq(Work)
           /\ InFlight \in Seq(Work)
<1>1. Hands \in Seq(Work)
  BY DEF Contents, Hands
<1>2. send_queue \o Hands \in Seq(Work)
  BY <1>1, ConcatProperties DEF Contents
<1>3. (send_queue \o Hands) \o encode_queue \in Seq(Work)
  BY <1>2, ConcatProperties DEF Contents
<1> QED
  BY <1>1, <1>2, <1>3, Concatenation

(* The numbers of some work are as many, in its order.                     *)
LEMMA NumbersProperties ==
    ASSUME NEW s \in Seq(Work)
    PROVE  /\ NumbersOf(s) \in Seq(Nat) /\ Len(NumbersOf(s)) = Len(s)
           /\ \A k \in 1 .. Len(s) : NumbersOf(s)[k] = s[k].audio_sequence
<1>1. Len(s) \in Nat /\ DOMAIN s = 1 .. Len(s)
  BY LenProperties
<1>2. \A k \in 1 .. Len(s) : s[k] \in Work
  BY <1>1, ElementOfSeq
<1>3. \A k \in 1 .. Len(s) : s[k].audio_sequence \in Nat
  BY <1>2 DEF Work
<1>4. NumbersOf(s) = [k \in 1 .. Len(s) |-> s[k].audio_sequence]
  BY <1>1 DEF NumbersOf
<1> HIDE DEF NumbersOf
<1>5. NumbersOf(s) \in [1 .. Len(s) -> Nat]
  BY <1>3, <1>4
<1>6. NumbersOf(s) \in Seq(Nat) /\ Len(NumbersOf(s)) = Len(s)
  BY <1>1, <1>5
<1> QED
  BY <1>4, <1>6

(* Numbering commutes with what a queue does: add at the end, take away    *)
(* at the front.                                                           *)
LEMMA NumbersAppend ==
    ASSUME NEW s \in Seq(Work), NEW w \in Work
    PROVE  NumbersOf(Append(s, w)) = Append(NumbersOf(s), w.audio_sequence)
<1> DEFINE longer == Append(s, w)
           also   == Append(NumbersOf(s), w.audio_sequence)
<1>1. /\ NumbersOf(s) \in Seq(Nat) /\ Len(NumbersOf(s)) = Len(s) /\ Len(s) \in Nat
      /\ \A k \in 1 .. Len(s) : NumbersOf(s)[k] = s[k].audio_sequence
  BY NumbersProperties
<1>2. /\ longer \in Seq(Work) /\ Len(longer) = Len(s) + 1
      /\ \A k \in 1 .. Len(s) : longer[k] = s[k]
      /\ longer[Len(s) + 1] = w
  BY AppendProperties
<1>3. w.audio_sequence \in Nat
  BY DEF Work
<1>4. /\ also \in Seq(Nat) /\ Len(also) = Len(s) + 1
      /\ \A k \in 1 .. Len(s) : also[k] = NumbersOf(s)[k]
      /\ also[Len(s) + 1] = w.audio_sequence
  BY <1>1, <1>3, AppendProperties
<1> HIDE DEF longer, also
<1>5. /\ NumbersOf(longer) \in Seq(Nat) /\ Len(NumbersOf(longer)) = Len(s) + 1
      /\ \A k \in 1 .. Len(s) + 1 : NumbersOf(longer)[k] = longer[k].audio_sequence
  BY <1>2, NumbersProperties
<1>6. \A k \in 1 .. Len(s) + 1 : k \in 1 .. Len(s) \/ k = Len(s) + 1
  BY <1>1
<1>7. \A k \in 1 .. Len(s) + 1 : NumbersOf(longer)[k] = also[k]
  BY <1>1, <1>2, <1>4, <1>5, <1>6
<1>8. NumbersOf(longer) = also
  BY <1>4, <1>5, <1>7, SeqEqual
<1> QED
  BY <1>8 DEF longer, also

(* ... and those of the rest of it.                                        *)
LEMMA NumbersTail ==
    ASSUME NEW s \in Seq(Work), s # <<>>
    PROVE  /\ NumbersOf(s) # <<>>
           /\ Head(NumbersOf(s)) = Head(s).audio_sequence
           /\ Tail(NumbersOf(s)) = NumbersOf(Tail(s))
<1>1. Len(s) \in Nat \ {0}
  BY EmptySeq
<1>2. /\ NumbersOf(s) \in Seq(Nat) /\ Len(NumbersOf(s)) = Len(s)
      /\ \A k \in 1 .. Len(s) : NumbersOf(s)[k] = s[k].audio_sequence
  BY NumbersProperties
<1>3. NumbersOf(s) # <<>>
  BY <1>1, <1>2, EmptySeq
<1>4. /\ Head(s) = s[1] /\ Tail(s) \in Seq(Work) /\ Len(Tail(s)) = Len(s) - 1
      /\ \A k \in 1 .. Len(s) - 1 : Tail(s)[k] = s[k + 1]
  BY HeadTailProperties
<1>5. /\ Head(NumbersOf(s)) = NumbersOf(s)[1] /\ Tail(NumbersOf(s)) \in Seq(Nat)
      /\ Len(Tail(NumbersOf(s))) = Len(s) - 1
      /\ \A k \in 1 .. Len(s) - 1 : Tail(NumbersOf(s))[k] = NumbersOf(s)[k + 1]
  BY <1>2, <1>3, HeadTailProperties
<1>6. /\ NumbersOf(Tail(s)) \in Seq(Nat) /\ Len(NumbersOf(Tail(s))) = Len(s) - 1
      /\ \A k \in 1 .. Len(s) - 1 : NumbersOf(Tail(s))[k] = Tail(s)[k].audio_sequence
  BY <1>4, NumbersProperties
<1>7. \A k \in 1 .. Len(s) - 1 : k + 1 \in 1 .. Len(s)
  BY <1>1
<1>8. \A k \in 1 .. Len(s) - 1 : Tail(NumbersOf(s))[k] = NumbersOf(Tail(s))[k]
  BY <1>2, <1>4, <1>5, <1>6, <1>7
<1>9. Tail(NumbersOf(s)) = NumbersOf(Tail(s))
  BY <1>5, <1>6, <1>8, SeqEqual
<1>10. 1 \in 1 .. Len(s)
  BY <1>1
<1> QED
  BY <1>2, <1>3, <1>4, <1>5, <1>9, <1>10

(* What the actions do to the two queues, seen as one.                     *)
LEMMA FirstAndRest ==
    ASSUME NEW S, NEW s \in Seq(S), s # <<>>
    PROVE  s = <<Head(s)>> \o Tail(s)
<1>1. Len(s) \in Nat \ {0}
  BY EmptySeq
<1>2. 1 \in 1 .. Len(s) /\ Len(s) \in 1 .. Len(s)
  BY <1>1
<1>3. SubSeq(s, 1, Len(s)) = <<s[1]>> \o SubSeq(s, 2, Len(s))
  BY <1>2, SubSeqRecursiveFirst
<1>4. SubSeq(s, 1, Len(s)) = s /\ SubSeq(s, 2, Len(s)) = Tail(s)
  BY SubSeqFull, TailIsSubSeq
<1>5. s[1] = Head(s)
  BY <1>1
<1> QED
  BY <1>3, <1>4, <1>5

(* The head and the tail of two sequences are those of the first.          *)
LEMMA ConcatTail ==
    ASSUME NEW S, NEW s \in Seq(S), NEW t \in Seq(S), s # <<>>
    PROVE  /\ s \o t # <<>>
           /\ Head(s \o t) = Head(s)
           /\ Tail(s \o t) = Tail(s) \o t
<1>1. Head(s) \in S /\ Tail(s) \in Seq(S) /\ <<Head(s)>> \in Seq(S)
  BY HeadTailProperties
<1>2. s \o t = <<Head(s)>> \o (Tail(s) \o t)
  BY <1>1, FirstAndRest, ConcatAssociative
<1>3. Tail(s) \o t \in Seq(S)
  BY <1>1, ConcatProperties
<1> DEFINE u == Tail(s) \o t
           whole == <<Head(s)>> \o u
<1> HIDE DEF u
<1>4. u \in Seq(S) /\ Len(u) \in Nat
  BY <1>3, LenProperties DEF u
<1>5. /\ whole \in Seq(S) /\ Len(whole) = Len(u) + 1
      /\ whole[1] = Head(s)
      /\ \A i \in 1 .. Len(u) : whole[i + 1] = u[i]
  BY <1>1, <1>4, ConcatProperties
<1> HIDE DEF whole
<1>6. whole # <<>>
  BY <1>4, <1>5
<1>7. /\ Tail(whole) \in Seq(S) /\ Len(Tail(whole)) = Len(u)
      /\ \A i \in 1 .. Len(u) : Tail(whole)[i] = u[i]
  BY <1>4, <1>5, <1>6, HeadTailProperties
<1>8. Tail(whole) = u
  BY <1>4, <1>7, SeqEqual
<1>9. Head(whole) = Head(s)
  BY <1>5, <1>6
<1> QED
  BY <1>2, <1>6, <1>8, <1>9 DEF whole, u

(* encode_audio adds a frame at the end.                                   *)
LEMMA SubmitAppends ==
    ASSUME Contents, NEW endFrame \in BOOLEAN, Submit(endFrame)
    PROVE  NumbersInFlight' = Append(NumbersInFlight, audio_sequence)
<1> DEFINE frame == [audio_sequence |-> audio_sequence, end_frame |-> endFrame]
           front == send_queue \o Hands
<1>1. frame \in Work
  BY FrameIsWork DEF Contents
<1>2. front \in Seq(Work) /\ encode_queue \in Seq(Work) /\ InFlight \in Seq(Work)
  BY FlightIsWork DEF Contents
<1>3. front' = front /\ encode_queue' = Append(encode_queue, frame)
  BY DEF Submit, Hands
<1>4. InFlight = front \o encode_queue /\ InFlight' = front' \o encode_queue'
  BY DEF InFlight, Hands
<1>5. frame.audio_sequence = audio_sequence
  OBVIOUS
<1> HIDE DEF frame, front
<1>6. InFlight' = front \o (encode_queue \o <<frame>>)
  BY <1>1, <1>2, <1>3, <1>4, AppendIsConcat
<1>7. InFlight' = InFlight \o <<frame>>
  BY <1>1, <1>2, <1>4, <1>6, ConcatAssociative
<1>8. InFlight' = Append(InFlight, frame)
  BY <1>1, <1>2, <1>7, AppendIsConcat
<1>9. NumbersOf(InFlight') = Append(NumbersOf(InFlight), frame.audio_sequence)
  BY <1>1, <1>2, <1>8, NumbersAppend
<1> QED
  BY <1>5, <1>9 DEF NumbersInFlight, NumbersOf

(* audio_send_event takes the oldest frame.                                *)
LEMMA SendTakesFirst ==
    ASSUME Contents, SendOne, send_queue # <<>>
    PROVE  /\ NumbersInFlight # <<>>
           /\ NumbersInFlight' = Tail(NumbersInFlight)
           /\ Head(send_queue).audio_sequence = Head(NumbersInFlight)
<1> DEFINE back == Hands \o encode_queue
<1>1. /\ Hands \in Seq(Work) /\ InFlight \in Seq(Work)
      /\ send_queue \in Seq(Work) /\ encode_queue \in Seq(Work)
  BY FlightIsWork DEF Contents
<1>2. back \in Seq(Work)
  BY <1>1, ConcatProperties
<1>3. InFlight = send_queue \o back
  <2>1. (send_queue \o Hands) \o encode_queue = send_queue \o back
    BY <1>1, ConcatAssociative
  <2> QED
    BY <2>1, Concatenation
<1>4. Tail(send_queue) \in Seq(Work)
  BY <1>1, HeadTailProperties
<1>5. send_queue' = Tail(send_queue) /\ Hands' = Hands /\ encode_queue' = encode_queue
  BY DEF SendOne, Hands, threads
<1>6. InFlight' = (Tail(send_queue) \o Hands) \o encode_queue
  BY <1>5 DEF InFlight, Hands
<1>7. InFlight' = Tail(send_queue) \o back
  BY <1>1, <1>4, <1>6, ConcatAssociative
<1> HIDE DEF back
<1>8. /\ InFlight # <<>> /\ Head(InFlight) = Head(send_queue)
      /\ Tail(InFlight) = Tail(send_queue) \o back
  BY <1>1, <1>2, <1>3, ConcatTail
<1>9. InFlight' = Tail(InFlight)
  BY <1>7, <1>8
<1>10. /\ NumbersOf(InFlight) # <<>>
       /\ Head(NumbersOf(InFlight)) = Head(InFlight).audio_sequence
       /\ Tail(NumbersOf(InFlight)) = NumbersOf(InFlight')
  BY <1>1, <1>8, <1>9, NumbersTail
<1> QED
  BY <1>8, <1>10 DEF NumbersInFlight, NumbersOf

(* What the encode thread does changes nothing: it takes the first work of *)
(* the one queue in its hands, and puts it at the end of the other.        *)
LEMMA EncodingKeeps ==
    ASSUME Contents, EncodeThread \/ EncodeSpurious
    PROVE  InFlight' = InFlight
<1>1. CASE EncodeLoop \/ EncodeSpurious
  BY <1>1 DEF EncodeLoop, EncodeSpurious, queues, InFlight
<1>2. CASE EncodePop
  <2>1. CASE encode_queue = <<>>
    BY <1>2, <2>1 DEF EncodePop, queues, InFlight
  <2>2. CASE encode_queue # <<>>
    <3> DEFINE first == Head(encode_queue)
               rest == Tail(encode_queue)
    <3>1. encoding = NoWork
      BY <1>2 DEF Contents, EncodePop, Encode
    <3>2. first \in Work /\ rest \in Seq(Work) /\ send_queue \in Seq(Work)
      BY <2>2, HeadTailProperties DEF Contents
    <3>3. first # NoWork
      BY <3>2, FrameIsWork, PipelineAssumption DEF Work
    <3>4. encoding' = first /\ encode_queue' = rest /\ send_queue' = send_queue
      BY <1>2, <2>2 DEF EncodePop
    <3>5. Hands = <<>> /\ Hands' = <<first>>
      BY <3>1, <3>3, <3>4 DEF Hands
    <3>6. encode_queue = <<first>> \o rest
      BY <2>2, FirstAndRest DEF Contents
    <3> HIDE DEF first, rest
    <3>7. InFlight' = (send_queue \o <<first>>) \o rest
      BY <3>4, <3>5 DEF InFlight, Hands
    <3>8. <<first>> \in Seq(Work)
      BY <3>2
    <3>9. InFlight' = send_queue \o (<<first>> \o rest)
      BY <3>2, <3>7, <3>8, ConcatAssociative
    <3>10. InFlight = send_queue \o encode_queue
      BY <3>2, <3>5, Concatenation, ConcatEmptySeq
    <3> QED
      BY <3>6, <3>9, <3>10
  <2> QED
    BY <2>1, <2>2
<1>3. CASE EncodePush
  <2>1. encoding \in Work /\ send_queue \in Seq(Work)
    BY <1>3 DEF Contents, EncodePush, Encode
  <2>2. encoding # NoWork
    BY <2>1, FrameIsWork, PipelineAssumption DEF Work
  <2>3. /\ send_queue' = Append(send_queue, encoding) /\ encoding' = NoWork
        /\ encode_queue' = encode_queue
    BY <1>3 DEF EncodePush
  <2>4. Hands = <<encoding>> /\ Hands' = <<>>
    BY <2>2, <2>3 DEF Hands
  <2>5. send_queue' = send_queue \o <<encoding>> /\ send_queue' \in Seq(Work)
    BY <2>1, <2>3, AppendIsConcat, AppendProperties
  <2>6. send_queue' \o <<>> = send_queue'
    BY <2>5, ConcatEmptySeq
  <2>7. InFlight' = (send_queue' \o <<>>) \o encode_queue
    BY <2>3, <2>4 DEF InFlight, Hands
  <2> QED
    BY <2>4, <2>5, <2>6, <2>7, Concatenation
<1> QED
  BY <1>1, <1>2, <1>3 DEF EncodeThread

-----------------------------------------------------------------------------
(* Every step of the pipeline is a step of the queue, or none: a frame is  *)
(* queued, the oldest is sent or dropped, or what is left is freed.        *)
LEMMA StepIsFifo == IInv /\ [Next]_vars => [Fifo!Next]_(Fifo!vars)
<1> SUFFICES ASSUME IInv, [Next]_vars PROVE [Fifo!Next]_(Fifo!vars)
  OBVIOUS
<1> USE DEF IInv
<1>1. ASSUME UNCHANGED <<queues, audio_sequence, sent>>, main' # "gone", main # "gone"
      PROVE  UNCHANGED Fifo!vars
  BY <1>1 DEF queues, InFlight, NumbersInFlight, Fifo!vars
<1>2. CASE PlaybackThread
  <2>1. UNCHANGED <<client, queues, main, ghosts>>
    BY <1>2 DEF PlaybackThread, Playback, PlaybackCheck, PlaybackDue, PlaybackPend,
                PlaybackSignal
  <2> QED
    BY <2>1 DEF client, queues, ghosts, InFlight, NumbersInFlight, Fifo!vars
<1>3. CASE Connect \/ Disconnect \/ DisconnectAtStreamEnd \/ Async \/ TakePending \/ MixAtBound
  <2>1. UNCHANGED <<queues, audio_sequence, sent>> /\ main' # "gone" /\ main # "gone"
    BY <1>3 DEF Connect, Disconnect, DisconnectAtStreamEnd, Async, TakePending, MixAtBound, Main, client, ghosts
  <2> QED
    BY <1>1, <2>1
<1>4. CASE MixFrame
  <2>1. main = "mix" /\ main' = "send" /\ sent' = sent
    BY <1>4 DEF MixFrame, Main
  <2>2. CASE \E endFrame \in BOOLEAN : Submit(endFrame)
    <3>1. PICK endFrame \in BOOLEAN : Submit(endFrame)
      BY <2>2
    <3>2. NumbersInFlight' = Append(NumbersInFlight, audio_sequence)
      BY <3>1, SubmitAppends
    <3>3. audio_sequence' = audio_sequence + 1
      BY <3>1 DEF Submit
    <3> QED
      BY <2>1, <3>2, <3>3 DEF Fifo!Next, Fifo!Submit
  <2>3. CASE UNCHANGED <<audio_sequence, queues, encode_running, encode>>
    BY <1>1, <2>1, <2>3
  <2> QED
    BY <1>4, <2>2, <2>3, Zenon DEF MixFrame, EndFrame
<1>5. CASE SendOne
  <2>1. main = "send" /\ main' = "idle" /\ audio_sequence' = audio_sequence
    BY <1>5 DEF SendOne, Main, client
  <2>2. CASE send_queue = <<>>
    <3>1. UNCHANGED <<queues, audio_sequence, sent>>
      BY <1>5, <2>1, <2>2 DEF SendOne, queues
    <3> QED
      BY <1>1, <2>1, <3>1
  <2>3. CASE send_queue # <<>>
    <3>1. sent' \in {sent, Append(sent, Head(send_queue).audio_sequence)}
      BY <1>5, <2>3 DEF SendOne
    <3>2. sent' \in {sent, Append(sent, Head(NumbersInFlight))}
      BY <1>5, <2>3, <3>1, SendTakesFirst
    <3>3. NumbersInFlight # <<>> /\ NumbersInFlight' = Tail(NumbersInFlight)
      BY <1>5, <2>3, SendTakesFirst
    <3> QED
      BY <2>1, <3>2, <3>3 DEF Fifo!Next, Fifo!Deliver
  <2> QED
    BY <2>2, <2>3
<1>6. CASE StopPlayback \/ JoinPlayback \/ StopEncode \/ JoinEncode
  <2>1. UNCHANGED <<queues, audio_sequence, sent>> /\ main' # "gone" /\ main # "gone"
    BY <1>6 DEF StopPlayback, JoinPlayback, StopEncode, JoinEncode, Main, client, ghosts
  <2> QED
    BY <1>1, <2>1
<1>7. CASE Cleanup
  <2>1. main = "cleanup" /\ main' = "gone" /\ UNCHANGED <<audio_sequence, sent>>
    BY <1>7 DEF Cleanup, Main, client, ghosts
  <2>2. encoding = NoWork
    BY <2>1 DEF JoinedFirst, Contents
  <2>3. encode_queue' = <<>> /\ send_queue' = <<>> /\ encoding' = NoWork
    BY <1>7, <2>2 DEF Cleanup
  <2>4. NumbersInFlight' = NumbersOf(<<>>)
    BY <2>3 DEF NumbersInFlight, NumbersOf, InFlight
  <2>5. NumbersOf(<<>>) = <<>>
    BY NumbersProperties, EmptySeq
  <2> QED
    BY <2>1, <2>4, <2>5 DEF Fifo!Next, Fifo!Close
<1>8. CASE EncodeThread \/ EncodeSpurious
  <2>1. InFlight' = InFlight
    BY <1>8, EncodingKeeps
  <2>2. UNCHANGED <<audio_sequence, sent, main>>
    BY <1>8 DEF EncodeThread, EncodeLoop, EncodePop, EncodePush, EncodeSpurious, Encode,
                client, ghosts
  <2> QED
    BY <2>1, <2>2 DEF NumbersInFlight, Fifo!vars
<1>9. CASE UseFreed \/ UNCHANGED vars
  BY <1>9 DEF UseFreed, vars, client, queues, ghosts, InFlight, NumbersInFlight, Fifo!vars
<1> QED
  BY <1>2, <1>3, <1>4, <1>5, <1>6, <1>7, <1>8, <1>9 DEF Next, Callback, Shutdown

(* The pipeline is one queue, for any number of frames: it delivers what   *)
(* was mixed in the order of audio_sequence and nothing twice, though      *)
(* three threads and two queues do it (audio.c:838, 905, 933).             *)
THEOREM PipelineIsFifo == Spec => IsFifo
<1>1. Init => Fifo!Init
  <2> SUFFICES ASSUME Init PROVE Fifo!Init
    OBVIOUS
  <2>1. NumbersInFlight = NumbersOf(<<>>)
    BY DEF Init, NumbersInFlight, NumbersOf, InFlight
  <2>2. NumbersOf(<<>>) = <<>>
    BY NumbersProperties, EmptySeq
  <2> QED
    BY <2>1, <2>2 DEF Init, Fifo!Init
<1> QED
  BY <1>1, StepIsFifo, Invariance, PTL DEF Spec, IsFifo, Fifo!Spec

-----------------------------------------------------------------------------
(* What is on its way, in terms of the abstract queue.                     *)
LastNumbers ==
    main # "gone" =>
        \A k \in 1 .. Len(NumbersInFlight) :
            NumbersInFlight[k] = audio_sequence - Len(NumbersInFlight) + k - 1

(* The numbers in flight, one by one.                                      *)
LEMMA FlightNumbers ==
    ASSUME Contents
    PROVE  /\ NumbersInFlight \in Seq(Nat) /\ audio_sequence \in Nat
           /\ Len(NumbersInFlight) = Len(InFlight) /\ DOMAIN InFlight = 1 .. Len(InFlight)
           /\ \A k \in 1 .. Len(InFlight) : NumbersInFlight[k] = InFlight[k].audio_sequence
<1>1. InFlight \in Seq(Work) /\ NumbersInFlight = NumbersOf(InFlight)
  BY FlightIsWork DEF NumbersInFlight, NumbersOf
<1>2. DOMAIN InFlight = 1 .. Len(InFlight)
  BY <1>1, LenProperties
<1>3. audio_sequence \in Nat
  BY PipelineAssumption DEF Contents
<1> QED
  BY <1>1, <1>2, <1>3, NumbersProperties

(* A number is given to one frame, at the end, and taken from the front.   *)
LEMMA StepKeepsNumbers ==
    IInv /\ IInv' /\ LastNumbers /\ [Next]_vars => LastNumbers'
<1> SUFFICES ASSUME IInv, IInv', LastNumbers, [Next]_vars, main' # "gone"
             PROVE  LastNumbers'
  BY DEF LastNumbers
<1> DEFINE q == NumbersInFlight
           n == audio_sequence
<1>1. q \in Seq(Nat) /\ n \in Nat /\ Len(q) \in Nat
  BY FlightNumbers, LenProperties DEF IInv
<1>2. [Fifo!Next]_(Fifo!vars)
  BY StepIsFifo
<1>3. main # "gone" => \A k \in 1 .. Len(q) : q[k] = n - Len(q) + k - 1
  BY DEF LastNumbers
<1>4. SUFFICES \A k \in 1 .. Len(q') : q'[k] = n' - Len(q') + k - 1
  BY DEF LastNumbers
<1> HIDE DEF q, n
<1>5. CASE Fifo!Submit
  <2>1. main # "gone" /\ q' = Append(q, n) /\ n' = n + 1
    BY <1>5 DEF Fifo!Submit, q, n
  <2>2. /\ Len(q') = Len(q) + 1 /\ q'[Len(q) + 1] = n
        /\ \A k \in 1 .. Len(q) : q'[k] = q[k]
    BY <1>1, <2>1, AppendProperties
  <2>3. \A k \in 1 .. Len(q) + 1 : k \in 1 .. Len(q) \/ k = Len(q) + 1
    BY <1>1
  <2> QED
    BY <1>1, <1>3, <2>1, <2>2, <2>3
<1>6. CASE Fifo!Deliver
  <2>1. main # "gone" /\ q # <<>> /\ q' = Tail(q) /\ n' = n
    BY <1>6 DEF Fifo!Deliver, q, n
  <2>2. Len(q) \in Nat \ {0}
    BY <1>1, <2>1, EmptySeq
  <2>3. Len(q') = Len(q) - 1 /\ \A k \in 1 .. Len(q) - 1 : q'[k] = q[k + 1]
    BY <1>1, <2>1, HeadTailProperties
  <2>4. \A k \in 1 .. Len(q) - 1 : k + 1 \in 1 .. Len(q)
    BY <2>2
  <2> QED
    BY <1>1, <1>3, <2>1, <2>2, <2>3, <2>4
<1>7. CASE Fifo!Close
  BY <1>7 DEF Fifo!Close
<1>8. CASE UNCHANGED Fifo!vars
  <2>1. (main # "gone") = (main' # "gone") /\ q' = q /\ n' = n
    BY <1>8 DEF Fifo!vars, q, n
  <2> QED
    BY <1>3, <2>1
<1> QED
  BY <1>2, <1>5, <1>6, <1>7, <1>8 DEF Fifo!Next

(* What was queued and not sent are the last numbers given out, in order   *)
(* and each once: the receiver sees audio_sequence rise by one as long as  *)
(* nothing is too long for a packet (audio.c:933).                         *)
THEOREM NumbersRise == Spec => []InOrder
<1>1. Init => LastNumbers
  <2> SUFFICES ASSUME Init PROVE LastNumbers
    OBVIOUS
  <2>1. NumbersInFlight = NumbersOf(<<>>)
    BY DEF Init, NumbersInFlight, NumbersOf, InFlight
  <2>2. Len(NumbersOf(<<>>)) = 0
    BY NumbersProperties, EmptySeq
  <2> QED
    BY <2>1, <2>2 DEF LastNumbers
<1>2. IInv /\ LastNumbers => InOrder
  BY FlightNumbers DEF IInv, LastNumbers, InOrder
<1> QED
  BY <1>1, <1>2, StepKeepsNumbers, Invariance, PTL DEF Spec

-----------------------------------------------------------------------------
(* The nonces: their two lowest digits.                                    *)

(* A nonce has a lowest and a second byte.                                 *)
LEMMA Digits ==
    ASSUME NEW iv \in Int
    PROVE  Low(iv) \in Bytes /\ Second(iv) \in Bytes
<1>1. Byte \in Nat \ {0}
  BY CryptAssumption
<1>2. iv % Byte \in 0 .. (Byte - 1) /\ iv \div Byte \in Int
  BY <1>1, ModDef, Zenon
<1>3. (iv \div Byte) % Byte \in 0 .. (Byte - 1)
  BY <1>1, <1>2, ModDef, Zenon
<1> QED
  BY <1>2, <1>3, Zenon DEF Low, Second, Bytes

(* Nonces less than a round apart differ in their lowest byte.             *)
LEMMA LowSame ==
    ASSUME NEW m \in Int, NEW n \in Int, m - n < Byte, n - m < Byte, Low(m) = Low(n)
    PROVE  m = n
<1>1. Byte \in Nat \ {0}
  BY CryptAssumption
<1> QED
  BY <1>1, ModSame, Zenon DEF Low

(* The byte that is in order is not the byte of decrypt_iv itself.         *)
LEMMA ExpectedDiffers ==
    ASSUME decrypt_iv \in Nat, NEW b \in Bytes, Expected(b)
    PROVE  b # Low(decrypt_iv)
<1> DEFINE low == Low(decrypt_iv)
           q == (low + 1) \div Byte
<1>1. Byte \in Nat \ {0} /\ Byte >= 2 /\ low \in Int
  BY CryptAssumption, Digits DEF Bytes
<1>2. low + 1 \in Int
  BY <1>1
<1>3. low + 1 = Byte * q + ((low + 1) % Byte) /\ q \in Int
  BY <1>1, <1>2, ModDef, Zenon
<1>4. (low + 1) % Byte = b
  BY DEF Expected
<1> HIDE DEF low, q
<1>5. SUFFICES ASSUME b = low PROVE FALSE
  BY DEF low
<1>6. Byte * q = 1
  BY <1>1, <1>3, <1>4, <1>5
<1>7. CASE q >= 1
  <2>1. Byte * q >= Byte
    BY <1>1, <1>3, <1>7
  <2> QED
    BY <2>1, <1>1, <1>3, <1>6
<1>8. CASE q <= 0
  <2>1. Byte * q <= 0
    BY <1>1, <1>3, <1>8
  <2> QED
    BY <2>1, <1>6
<1> QED
  BY <1>3, <1>7, <1>8

(* The guess is behind decrypt_iv by less than Window for a late packet,   *)
(* and ahead of it for any other that is not thrown away.                  *)
LEMMA GuessRange ==
    ASSUME decrypt_iv \in Nat, NEW b \in Bytes
    PROVE  /\ Guess(b) \in Int
           /\ Late(b) => /\ decrypt_iv - Window < Guess(b)
                         /\ Guess(b) < decrypt_iv
           /\ Expected(b) \/ Ahead(b) => ~Late(b) /\ Guess(b) > decrypt_iv
<1> DEFINE low == Low(decrypt_iv)
           half == Byte \div 2
<1>1. /\ Byte \in Nat /\ Window \in Nat /\ b \in Int
      /\ low \in Int /\ 0 <= low /\ low < Byte /\ 0 <= b /\ b < Byte
  BY CryptAssumption, Digits DEF Bytes
<1>2. half \in Int /\ half >= 0
  BY <1>1
<1>3. Diff(b) = IF b - low > half THEN b - low - Byte
                ELSE IF b - low < -half THEN b - low + Byte ELSE b - low
  BY DEF Diff
<1>4. Expected(b) => b # low
  BY ExpectedDiffers
<1>5. Guess(b) = IF Late(b) THEN decrypt_iv - low + b + (IF b > low THEN -1 ELSE 0) * Byte
                 ELSE decrypt_iv - low + b + (IF b < low THEN 1 ELSE 0) * Byte
  BY DEF Guess, Rebased
<1>6. /\ Late(b) => ~Expected(b) /\ -Window < Diff(b) /\ Diff(b) < 0
      /\ Ahead(b) => Diff(b) > 0
  BY DEF Late, Ahead
<1> HIDE DEF low, half
<1>7. CASE Late(b)
  <2>1. Guess(b) = decrypt_iv + Diff(b) /\ Diff(b) \in Int
    <3>1. CASE b > low
      BY <1>1, <1>2, <1>3, <1>5, <1>6, <1>7, <3>1
    <3>2. CASE b <= low
      BY <1>1, <1>2, <1>3, <1>5, <1>6, <1>7, <3>2
    <3> QED
      BY <1>1, <3>1, <3>2
  <2>2. ~Expected(b) /\ ~Ahead(b)
    BY <2>1, <1>6, <1>7
  <2> QED
    BY <2>1, <2>2, <1>1, <1>6, <1>7
<1>8. CASE ~Late(b)
  <2>1. Guess(b) \in Int /\ (b # low => Guess(b) > decrypt_iv)
    BY <1>1, <1>5, <1>8
  <2>2. Ahead(b) => b # low
    BY <1>1, <1>2, <1>3, <1>6
  <2> QED
    BY <2>1, <2>2, <1>4, <1>8
<1> QED
  BY <1>7, <1>8

-----------------------------------------------------------------------------
(* The types are right from the first state on.                            *)
LEMMA CryptInitTyped == CryptInit => CryptTypeOK /\ HistoryKnows
<1>1. 0 \in Bytes
  BY CryptAssumption DEF Bytes
<1> QED
  BY <1>1 DEF CryptInit, CryptTypeOK, HistoryKnows, Known

(* Every step keeps the types.                                             *)
LEMMA CryptNextTyped == CryptTypeOK /\ [CryptNext]_cryptVars => CryptTypeOK'
<1> SUFFICES ASSUME CryptTypeOK, [CryptNext]_cryptVars PROVE CryptTypeOK'
  OBVIOUS
<1>1. ASSUME NEW iv \in Starts, SetKey(iv) PROVE CryptTypeOK'
  <2>1. iv \in Nat
    BY CryptAssumption
  <2> QED
    BY <1>1, <2>1 DEF CryptTypeOK, SetKey
<1>2. CASE Encrypt
  <2>1. net' \in SUBSET Packets
    BY <1>2 DEF CryptTypeOK, Encrypt, Packets
  <2> QED
    BY <1>2, <2>1 DEF CryptTypeOK, Encrypt, receiver
<1>3. CASE Resync
  <2>1. decrypt_iv' \in Nat
    BY <1>3 DEF CryptTypeOK, Resync
  <2> QED
    BY <1>3, <2>1 DEF CryptTypeOK, Resync
<1>4. ASSUME NEW p \in net, Open(p) PROVE CryptTypeOK'
  <2> DEFINE b == Low(p.iv)
  <2>1. p \in Packets /\ p.iv \in Nat /\ b \in Bytes
    BY Digits DEF CryptTypeOK, Packets
  <2>2. Guess(b) = p.iv /\ Second(Guess(b)) \in Bytes
    BY <1>4, <2>1, Digits DEF Open, Accepts
  <2>3. decrypt_iv' \in Nat /\ decrypt_history' \in [Bytes -> Bytes]
    BY <1>4, <2>1, <2>2 DEF CryptTypeOK, Open, NextIV
  <2>4. Lost(b) \in Int
    <3> DEFINE low == Low(decrypt_iv)
    <3>1. low \in Int /\ b \in Int /\ Byte \in Int
      BY <2>1, Digits, CryptAssumption DEF Bytes, CryptTypeOK
    <3>2. Lost(b) = IF Expected(b) THEN 0 ELSE IF Late(b) THEN -1
                    ELSE IF b > low THEN b - low - 1 ELSE Byte - low + b - 1
      BY DEF Lost
    <3> HIDE DEF b, low
    <3> QED
      BY <3>1, <3>2
  <2>5. uiGood' \in Nat /\ uiLate' \in Nat
    BY <1>4 DEF CryptTypeOK, Open
  <2>6. uiLost' \in Nat
    <3> HIDE DEF b
    <3>1. uiLost' = IF Lost(b) > 0 \/ uiLost > -Lost(b) THEN uiLost + Lost(b) ELSE uiLost
      BY <1>4 DEF Open, LostAfter, b
    <3> QED
      BY <3>1, <2>4 DEF CryptTypeOK
  <2>7. accepted' \in SUBSET Packets
    BY <1>4, <2>1 DEF CryptTypeOK, Open
  <2> QED
    BY <1>4, <2>3, <2>5, <2>6, <2>7 DEF CryptTypeOK, Open
<1>5. CASE UNCHANGED cryptVars
  BY <1>5 DEF CryptTypeOK, cryptVars, receiver, cryptGhosts
<1> QED
  BY <1>1, <1>2, <1>3, <1>4, <1>5 DEF CryptNext, Decrypt, Discard

(* crypt_setKey, crypt_encrypt and crypt_decrypt keep every field within   *)
(* its type, whatever the receiver's nonce is set to.                      *)
THEOREM NoncesTyped == CryptSpec => []CryptTypeOK
<1>1. CryptInit => CryptTypeOK
  BY CryptInitTyped
<1> QED
  BY <1>1, CryptNextTyped, PTL DEF CryptSpec

-----------------------------------------------------------------------------
(* A packet that is opened was not opened before: were it, it would not be *)
(* ahead, and the history would know it if it were late.                   *)
LEMMA OpensNew ==
    ASSUME CryptTypeOK, Known, NEW p \in net, Open(p)
    PROVE  p \notin accepted
<1> DEFINE b == Low(p.iv)
<1>1. p.iv \in Nat /\ b \in Bytes /\ decrypt_iv \in Nat /\ Window \in Nat
  BY Digits, CryptAssumption DEF CryptTypeOK, Packets
<1>2. /\ Expected(b) \/ Late(b) \/ Ahead(b)
      /\ ~Seen(b) /\ p.key = key /\ p.iv = Guess(b)
  BY DEF Open, Accepts, NextIV
<1>3. SUFFICES ASSUME p \in accepted PROVE FALSE
  OBVIOUS
<1>4. p.iv <= decrypt_iv
  BY <1>2, <1>3 DEF Known
<1>5. Late(b) /\ ~Expected(b) /\ p.iv > decrypt_iv - Window
  BY <1>1, <1>2, <1>4, GuessRange
<1>6. decrypt_history[b] = Second(p.iv)
  BY <1>2, <1>3, <1>5 DEF Known
<1> QED
  BY <1>2, <1>5, <1>6 DEF Seen

(* Opening a packet keeps the history: the other packets that may still be *)
(* late are less than a round away, and have other lowest bytes.           *)
LEMMA OpenKnows ==
    ASSUME CryptTypeOK, Known, NEW p \in net, Open(p)
    PROVE  Known'
<1> DEFINE b == Low(p.iv)
<1>1. /\ p.iv \in Nat /\ b \in Bytes /\ decrypt_iv \in Nat
      /\ Window \in Nat /\ Byte \in Nat /\ Window < Byte
  BY Digits, CryptAssumption DEF CryptTypeOK, Packets
<1>2. /\ Expected(b) \/ Late(b) \/ Ahead(b)
      /\ p.key = key /\ p.iv = Guess(b)
      /\ decrypt_iv' = IF Late(b) THEN decrypt_iv ELSE p.iv
      /\ decrypt_history' = [decrypt_history EXCEPT ![b] = Second(p.iv)]
      /\ accepted' = accepted \cup {p} /\ key' = key
  BY DEF Open, Accepts, NextIV
<1>3. /\ decrypt_iv' \in Nat /\ decrypt_iv <= decrypt_iv'
      /\ p.iv <= decrypt_iv' /\ p.iv > decrypt_iv' - Window
  <2>1. CASE Late(b)
    BY <2>1, <1>1, <1>2, GuessRange
  <2>2. CASE ~Late(b)
    BY <2>2, <1>1, <1>2, GuessRange, CryptAssumption
  <2> QED
    BY <2>1, <2>2
<1>4. decrypt_history'[b] = Second(p.iv)
  BY <1>1, <1>2 DEF CryptTypeOK
<1>5. SUFFICES ASSUME NEW q \in accepted'
               PROVE  /\ q.key <= key'
                      /\ q.key = key' => q.iv <= decrypt_iv'
                      /\ q.key = key' /\ q.iv > decrypt_iv' - Window =>
                           decrypt_history'[Low(q.iv)] = Second(q.iv)
  BY DEF Known
<1>6. CASE q = p
  BY <1>2, <1>3, <1>4, <1>6 DEF CryptTypeOK
<1>7. CASE q # p
  <2>1. q \in accepted /\ q \in Packets /\ p \in Packets /\ q.iv \in Nat
    BY <1>2, <1>5, <1>7 DEF CryptTypeOK, Packets
  <2>2. q.key <= key' /\ (q.key = key' => q.iv <= decrypt_iv')
    BY <2>1, <1>1, <1>2, <1>3 DEF Known
  <2>3. ASSUME q.key = key', q.iv > decrypt_iv' - Window
        PROVE  decrypt_history'[Low(q.iv)] = Second(q.iv)
    <3>1. q.iv # p.iv
      BY <2>1, <2>3, <1>2, <1>7 DEF Packets
    <3>2. q.iv - p.iv < Byte /\ p.iv - q.iv < Byte
      BY <2>1, <2>2, <2>3, <1>1, <1>3
    <3>3. Low(q.iv) # b
      <4>1. q.iv \in Int /\ p.iv \in Int
        BY <2>1, <1>1
      <4> QED
        BY <3>1, <3>2, <4>1, LowSame, Zenon
    <3>4. q.iv > decrypt_iv - Window
      BY <2>1, <2>3, <1>1, <1>3
    <3>5. decrypt_history[Low(q.iv)] = Second(q.iv)
      BY <3>4, <2>1, <2>3, <1>2 DEF Known
    <3>6. Low(q.iv) \in Bytes
      BY <2>1, Digits
    <3> QED
      BY <3>3, <3>5, <3>6, <1>2 DEF CryptTypeOK
  <2> QED
    BY <2>2, <2>3
<1> QED
  BY <1>6, <1>7

(* Every step keeps the history, if the nonce was not set again.           *)
LEMMA NextKnows == CryptTypeOK /\ HistoryKnows /\ [CryptNext]_cryptVars => HistoryKnows'
<1> SUFFICES ASSUME CryptTypeOK, HistoryKnows, [CryptNext]_cryptVars PROVE HistoryKnows'
  OBVIOUS
<1>1. ASSUME NEW iv \in Starts, SetKey(iv) PROVE HistoryKnows'
  <2>1. key' = key + 1 /\ accepted' = accepted /\ resync' = resync
    BY <1>1 DEF SetKey
  <2>2. SUFFICES ASSUME resync = 0 PROVE Known'
    BY <2>1 DEF HistoryKnows
  <2>3. \A p \in accepted : p.key \in Nat /\ p.key <= key /\ key \in Nat
    BY <2>2 DEF CryptTypeOK, HistoryKnows, Known, Packets
  <2>4. \A p \in accepted' : p.key <= key' /\ p.key # key'
    BY <2>1, <2>3
  <2> QED
    BY <2>4 DEF Known
<1>2. CASE Encrypt
  BY <1>2 DEF HistoryKnows, Known, Encrypt, receiver
<1>3. CASE Resync
  BY <1>3 DEF Resync, CryptTypeOK, HistoryKnows
<1>4. ASSUME NEW p \in net, Open(p) PROVE HistoryKnows'
  <2>1. resync' = resync
    BY <1>4 DEF Open
  <2> QED
    BY <1>4, <2>1, OpenKnows DEF HistoryKnows
<1>5. CASE UNCHANGED cryptVars
  BY <1>5 DEF HistoryKnows, Known, cryptVars, receiver, cryptGhosts
<1> QED
  BY <1>1, <1>2, <1>3, <1>4, <1>5 DEF CryptNext, Decrypt, Discard

(* What was opened is behind decrypt_iv, and in the history for as long as *)
(* it may come late again (ocb.c:214, 226).                                *)
THEOREM HistoryIsKept == CryptSpec => []HistoryKnows
<1>1. CryptInit => CryptTypeOK /\ HistoryKnows
  BY CryptInitTyped
<1>2. CryptTypeOK /\ HistoryKnows /\ [CryptNext]_cryptVars => CryptTypeOK' /\ HistoryKnows'
  BY CryptNextTyped, NextKnows
<1> QED
  BY <1>1, <1>2, PTL DEF CryptSpec

(* crypt_decrypt opens no packet twice (ocb.c:147-245).                    *)
THEOREM OpenedOnce == CryptSpec => NoReplay
<1>1. CryptTypeOK /\ HistoryKnows /\ [CryptNext]_cryptVars =>
        [resync = 0 /\ uiGood' > uiGood => accepted' # accepted]_cryptVars
  <2> SUFFICES ASSUME CryptTypeOK, HistoryKnows, [CryptNext]_cryptVars, resync = 0, uiGood' > uiGood
               PROVE  accepted' # accepted
    OBVIOUS
  <2>1. uiGood' # uiGood
    BY DEF CryptTypeOK
  <2>2. PICK p \in net : Open(p)
    BY <2>1 DEF CryptNext, SetKey, Encrypt, Resync, Decrypt, Discard, cryptVars, receiver
  <2>3. p \notin accepted
    BY <2>2, OpensNew DEF HistoryKnows
  <2> QED
    BY <2>2, <2>3 DEF Open
<1> QED
  BY <1>1, NoncesTyped, HistoryIsKept, PTL DEF CryptSpec, NoReplay

-----------------------------------------------------------------------------
(* What the receiver makes of nonces that are near its own.                *)

(* The bytes of two nonces less than a round apart differ by as much as    *)
(* they do, or by a round less or more.                                    *)
LEMMA LowApart ==
    ASSUME NEW m \in Int, NEW n \in Int, m - n < Byte, n - m < Byte
    PROVE  Low(m) - Low(n) \in {m - n, m - n - Byte, m - n + Byte}
<1> DEFINE x == m \div Byte
           y == n \div Byte
           a == Low(m)
           b == Low(n)
<1>1. Byte \in Nat \ {0}
  BY CryptAssumption
<1>2. /\ m = Byte * x + a /\ n = Byte * y + b
      /\ a \in 0 .. (Byte - 1) /\ b \in 0 .. (Byte - 1) /\ x \in Int /\ y \in Int
  BY <1>1, ModDef, Zenon DEF Low
<1> HIDE DEF x, y, a, b
<1>3. m - n = Byte * (x - y) + (a - b)
  BY <1>1, <1>2
<1>4. x - y < 2
  <2>1. SUFFICES ASSUME x - y >= 2 PROVE FALSE
    BY <1>2
  <2>2. Byte * (x - y) >= Byte * 2
    BY <1>1, <1>2, <2>1
  <2> QED
    BY <1>1, <1>2, <1>3, <2>2
<1>5. x - y > -2
  <2>1. SUFFICES ASSUME y - x >= 2 PROVE FALSE
    BY <1>2
  <2>2. Byte * (y - x) >= Byte * 2 /\ Byte * (x - y) = -(Byte * (y - x))
    BY <1>1, <1>2, <2>1
  <2> QED
    BY <1>1, <1>2, <1>3, <2>2
<1>6. x - y \in {-1, 0, 1}
  BY <1>2, <1>4, <1>5
<1>7. Byte * (x - y) \in {-Byte, 0, Byte}
  BY <1>1, <1>6
<1> QED
  BY <1>1, <1>2, <1>3, <1>7 DEF a, b

(* A byte that is in order is that of the next nonce.                      *)
LEMMA ExpectedIsNext ==
    ASSUME decrypt_iv \in Nat, NEW b \in Bytes
    PROVE  Expected(b) <=> b = Low(decrypt_iv + 1)
BY CryptAssumption, ModAdd DEF Expected, Low

(* The guess is right for a packet that is late by less than Window or     *)
(* ahead by less than half a round.                                        *)
LEMMA GuessIsRight ==
    ASSUME decrypt_iv \in Nat, NEW iv \in Nat, iv # decrypt_iv,
           -Window < iv - decrypt_iv, iv - decrypt_iv < Byte \div 2
    PROVE  /\ Expected(Low(iv)) \/ Late(Low(iv)) \/ Ahead(Low(iv))
           /\ Guess(Low(iv)) = iv
<1> DEFINE b == Low(iv)
           low == Low(decrypt_iv)
           half == Byte \div 2
           d == iv - decrypt_iv
<1>1. /\ Byte \in Nat /\ Window \in Nat /\ 0 < Window /\ 2 * Window <= Byte
      /\ b \in 0 .. (Byte - 1) /\ low \in 0 .. (Byte - 1)
  BY CryptAssumption, Digits DEF Bytes
<1>2. /\ half \in Int /\ 2 * half <= Byte /\ Byte <= 2 * half + 1
  BY <1>1
<1>3. b - low \in {d, d - Byte, d + Byte}
  BY <1>1, <1>2, LowApart
<1>4. Diff(b) = IF b - low > half THEN b - low - Byte
                ELSE IF b - low < -half THEN b - low + Byte ELSE b - low
  BY DEF Diff
<1>5. Guess(b) = IF Late(b) THEN decrypt_iv - low + b + (IF b > low THEN -1 ELSE 0) * Byte
                 ELSE decrypt_iv - low + b + (IF b < low THEN 1 ELSE 0) * Byte
  BY DEF Guess, Rebased
<1>6. /\ Late(b) <=> ~Expected(b) /\ -Window < Diff(b) /\ Diff(b) < 0
      /\ Ahead(b) <=> ~Expected(b) /\ Diff(b) > 0
  BY DEF Late, Ahead
<1>7. Expected(b) => d = 1
  <2>1. SUFFICES ASSUME Expected(b) PROVE d = 1
    OBVIOUS
  <2>2. Low(iv) = Low(decrypt_iv + 1)
    BY <1>1, <2>1, ExpectedIsNext, Digits
  <2>3. iv = decrypt_iv + 1
    <3>1. iv - (decrypt_iv + 1) < Byte /\ (decrypt_iv + 1) - iv < Byte
      BY <1>1, <1>2
    <3>2. iv \in Int /\ decrypt_iv + 1 \in Int
      OBVIOUS
    <3> QED
      BY <2>2, <3>1, <3>2, LowSame, Zenon
  <2> QED
    BY <2>3
<1>8. d \in Int /\ d # 0 /\ -Window < d /\ d < half /\ iv = decrypt_iv + d
  BY <1>1
<1> HIDE DEF b, low, half, d
<1>9. Diff(b) = d
  BY <1>1, <1>2, <1>3, <1>4, <1>8
<1>10. CASE d < 0
  <2>1. Late(b)
    BY <1>6, <1>7, <1>8, <1>9, <1>10
  <2>2. CASE b > low
    BY <1>1, <1>2, <1>3, <1>5, <1>8, <1>10, <2>1, <2>2 DEF b
  <2>3. CASE b <= low
    BY <1>1, <1>2, <1>3, <1>5, <1>8, <1>10, <2>1, <2>3 DEF b
  <2> QED
    BY <1>1, <2>1, <2>2, <2>3 DEF b
<1>11. CASE d > 0
  <2>1. ~Late(b) /\ (Expected(b) \/ Ahead(b))
    BY <1>6, <1>8, <1>9, <1>11
  <2>2. CASE b < low
    BY <1>1, <1>2, <1>3, <1>5, <1>8, <1>11, <2>1, <2>2 DEF b
  <2>3. CASE b >= low
    BY <1>1, <1>2, <1>3, <1>5, <1>8, <1>11, <2>1, <2>3 DEF b
  <2> QED
    BY <1>1, <2>1, <2>2, <2>3 DEF b
<1> QED
  BY <1>8, <1>10, <1>11

(* The count of losses moves by as much as decrypt_iv passes over.         *)
LEMMA LostIsGap ==
    ASSUME decrypt_iv \in Nat, NEW b \in Bytes, Expected(b) \/ Late(b) \/ Ahead(b)
    PROVE  Lost(b) = IF Late(b) THEN -1 ELSE Guess(b) - decrypt_iv - 1
<1> DEFINE low == Low(decrypt_iv)
           half == Byte \div 2
<1>1. Byte \in Nat /\ 2 <= Byte /\ b \in 0 .. (Byte - 1) /\ low \in 0 .. (Byte - 1)
  BY CryptAssumption, Digits DEF Bytes
<1>2. /\ Late(b) => ~Expected(b)
      /\ Ahead(b) => ~Expected(b) /\ Diff(b) > 0
  BY DEF Late, Ahead
<1>3. half \in Int /\ half >= 0 /\ half <= Byte
  BY <1>1
<1>4. Diff(b) = IF b - low > half THEN b - low - Byte
                ELSE IF b - low < -half THEN b - low + Byte ELSE b - low
  BY DEF Diff
<1>5. ~Late(b) => Guess(b) = decrypt_iv - low + b + (IF b < low THEN 1 ELSE 0) * Byte
  BY DEF Guess, Rebased
<1>6. Lost(b) = IF Expected(b) THEN 0 ELSE IF Late(b) THEN -1
                ELSE IF b > low THEN b - low - 1 ELSE Byte - low + b - 1
  BY DEF Lost
<1>7. Expected(b) => b = IF low + 1 = Byte THEN 0 ELSE low + 1
  <2>1. SUFFICES ASSUME Expected(b) PROVE b = IF low + 1 = Byte THEN 0 ELSE low + 1
    OBVIOUS
  <2>2. b - low \in {1, 1 - Byte, 1 + Byte}
    <3>1. b = Low(decrypt_iv + 1)
      BY <2>1, ExpectedIsNext
    <3>2. /\ decrypt_iv + 1 \in Int /\ decrypt_iv \in Int
          /\ (decrypt_iv + 1) - decrypt_iv < Byte /\ decrypt_iv - (decrypt_iv + 1) < Byte
      BY <1>1
    <3>3. Low(decrypt_iv + 1) - Low(decrypt_iv) \in
            {(decrypt_iv + 1) - decrypt_iv, (decrypt_iv + 1) - decrypt_iv - Byte,
             (decrypt_iv + 1) - decrypt_iv + Byte}
      BY <3>2, LowApart, Zenon
    <3> QED
      BY <3>1, <3>3, <1>1
  <2> HIDE DEF low
  <2> QED
    BY <1>1, <2>2
<1> HIDE DEF low, half
<1>8. CASE Late(b)
  BY <1>2, <1>6, <1>8
<1>9. CASE Expected(b)
  <2>1. ~Late(b) /\ Lost(b) = 0
    BY <1>2, <1>6, <1>9
  <2> QED
    BY <1>1, <1>5, <1>7, <1>9, <2>1
<1>10. CASE ~Late(b) /\ Ahead(b)
  <2>1. ~Expected(b) /\ b # low
    BY <1>1, <1>2, <1>3, <1>4, <1>10
  <2> QED
    BY <1>1, <1>5, <1>6, <1>10, <2>1
<1> QED
  BY <1>8, <1>9, <1>10

(* Different nonces with the same two bytes have one between them whose    *)
(* second byte is zero.                                                    *)
LEMMA ZeroBetween ==
    ASSUME NEW m \in Nat, NEW n \in Nat, m < n, Low(m) = Low(n), Second(m) = Second(n)
    PROVE  \E k \in m .. n : Second(k) = 0
<1> DEFINE x == m \div Byte
           y == n \div Byte
           z == y \div Byte
           w == x \div Byte
           r == y % Byte
           k == Byte * (Byte * z)
<1>1. Byte \in Nat \ {0} /\ m \in Int /\ n \in Int
  BY CryptAssumption
<1>2. /\ m = Byte * x + Low(m) /\ n = Byte * y + Low(n) /\ x \in Int /\ y \in Int
      /\ Low(m) \in 0 .. (Byte - 1) /\ Low(n) \in 0 .. (Byte - 1)
  BY <1>1, ModDef, Zenon DEF Low
<1>3. /\ x = Byte * w + (x % Byte) /\ y = Byte * z + r /\ w \in Int /\ z \in Int
      /\ r \in 0 .. (Byte - 1)
  BY <1>1, <1>2, ModDef, Zenon
<1>4. x % Byte = r
  BY DEF Second
<1> HIDE DEF x, y, z, w, r
<1>5. y > x
  <2>1. SUFFICES ASSUME x - y >= 0 PROVE FALSE
    BY <1>2
  <2>2. Byte * (x - y) >= 0
    BY <1>1, <1>2, <2>1
  <2>3. m - n = Byte * (x - y)
    BY <1>1, <1>2
  <2> QED
    BY <2>2, <2>3
<1>6. z > w
  <2>1. SUFFICES ASSUME w - z >= 0 PROVE FALSE
    BY <1>3
  <2>2. Byte * (w - z) >= 0
    BY <1>1, <1>3, <2>1
  <2>3. x - y = Byte * (w - z)
    BY <1>1, <1>3, <1>4
  <2> QED
    BY <1>2, <1>5, <2>2, <2>3
<1>7. Byte * z \in Int /\ Byte * z <= y /\ Byte * z > x
  <2>1. z - w >= 1
    BY <1>3, <1>6
  <2>2. Byte * (z - w) >= Byte
    BY <1>1, <1>3, <2>1
  <2>3. Byte * z = Byte * w + Byte * (z - w)
    BY <1>1, <1>3
  <2> QED
    BY <1>1, <1>2, <1>3, <1>4, <2>2, <2>3
<1> DEFINE u == Byte * z
<1>8. u \in Int /\ u <= y /\ u >= x + 1
  BY <1>2, <1>7
<1> HIDE DEF u
<1>9. Byte * u <= n /\ Byte * u >= m
  <2>1. Byte * (y - u) >= 0
    BY <1>1, <1>2, <1>8
  <2>2. Byte * (u - x - 1) >= 0
    BY <1>1, <1>2, <1>8
  <2>3. Byte * u = Byte * y - Byte * (y - u)
    BY <1>1, <1>2, <1>8
  <2>4. Byte * u = Byte * x + Byte + Byte * (u - x - 1)
    BY <1>1, <1>2, <1>8
  <2> QED
    BY <1>1, <1>2, <1>8, <2>1, <2>2, <2>3, <2>4
<1>10. (Byte * u) \div Byte = u
  BY <1>1, <1>8
<1>11. (Byte * z) % Byte = 0
  BY <1>1, <1>3
<1>12. Second(Byte * u) = 0
  BY <1>10, <1>11 DEF Second, u
<1>13. Byte * u \in m .. n
  BY <1>1, <1>8, <1>9
<1> QED
  BY <1>12, <1>13

-----------------------------------------------------------------------------
(* The nonces of a key, on their way and opened.                           *)
Numbers ==
    /\ key = 0 => decrypt_iv = start /\ uiLost = 0
    /\ start <= decrypt_iv /\ start <= encrypt_iv
    /\ accepted \subseteq net
    /\ \A p \in net : p.key \in 1 .. key
    /\ \A p \in net : p.key = key => p.iv \in (start + 1) .. encrypt_iv

(* Under the first key, what is in the history came from a packet.         *)
Remembered ==
    key <= 1 =>
        \A b \in Bytes :
            \/ decrypt_history[b] = 0
            \/ \E q \in accepted : Low(q.iv) = b /\ decrypt_history[b] = Second(q.iv)

(* Before the first key there is nothing to remember.                      *)
LEMMA InitNumbers == CryptInit => Numbers /\ Remembered
BY DEF CryptInit, Numbers, Remembered

(* The nonces of a key stay between start and encrypt_iv.                  *)
LEMMA NextNumbers == CryptTypeOK /\ Numbers /\ [CryptNext]_cryptVars => Numbers'
<1> SUFFICES ASSUME CryptTypeOK, Numbers, [CryptNext]_cryptVars PROVE Numbers'
  OBVIOUS
<1> USE DEF Numbers
<1>1. ASSUME NEW iv \in Starts, SetKey(iv) PROVE Numbers'
  <2>1. /\ iv \in Nat /\ key \in Nat /\ key' = key + 1 /\ net' = net /\ accepted' = accepted
        /\ decrypt_iv' = iv /\ encrypt_iv' = iv /\ start' = iv
    BY <1>1, CryptAssumption DEF CryptTypeOK, SetKey
  <2>2. \A p \in net : p.key \in 1 .. key /\ p.key # key'
    BY <2>1
  <2> QED
    BY <2>1, <2>2
<1>2. CASE Encrypt
  <2> DEFINE new == [key |-> key, iv |-> encrypt_iv + 1]
  <2>1. /\ UNCHANGED <<key, decrypt_iv, uiLost, accepted, start>> /\ key > 0
        /\ encrypt_iv' = encrypt_iv + 1 /\ net' = net \cup {new}
    BY <1>2 DEF Encrypt, receiver
  <2>2. new.key = key /\ new.iv = encrypt_iv + 1
    OBVIOUS
  <2> HIDE DEF new
  <2>3. /\ new.key \in 1 .. key /\ new.iv \in (start + 1) .. encrypt_iv'
        /\ start <= encrypt_iv'
    BY <2>1, <2>2 DEF CryptTypeOK
  <2>4. \A p \in net : p.key = key => p.iv \in (start + 1) .. encrypt_iv'
    BY <2>1 DEF CryptTypeOK
  <2> QED
    BY <2>1, <2>3, <2>4
<1>3. CASE Resync
  BY <1>3 DEF CryptTypeOK, Resync
<1>4. ASSUME NEW p \in net, Open(p) PROVE Numbers'
  <2>1. /\ UNCHANGED <<key, encrypt_iv, net, start>> /\ accepted' = accepted \cup {p}
        /\ p.key = key /\ decrypt_iv' \in {decrypt_iv, p.iv}
    BY <1>4 DEF Open, Accepts, NextIV
  <2>2. p.iv \in (start + 1) .. encrypt_iv
    BY <2>1
  <2> QED
    BY <2>1, <2>2 DEF CryptTypeOK
<1>5. CASE UNCHANGED cryptVars
  BY <1>5 DEF cryptVars, receiver, cryptGhosts
<1> QED
  BY <1>1, <1>2, <1>3, <1>4, <1>5 DEF CryptNext, Decrypt, Discard

(* crypt_decrypt notes the second byte of what it opens (ocb.c:226).       *)
LEMMA NextRemembers == CryptTypeOK /\ Numbers /\ Remembered /\ [CryptNext]_cryptVars => Remembered'
<1> SUFFICES ASSUME CryptTypeOK, Numbers, Remembered, [CryptNext]_cryptVars, key' <= 1
             PROVE  Remembered'
  BY DEF Remembered
<1> USE DEF Remembered
<1>1. ASSUME NEW iv \in Starts, SetKey(iv) PROVE Remembered'
  BY <1>1 DEF CryptTypeOK, SetKey
<1>2. CASE Encrypt \/ Resync
  BY <1>2 DEF Encrypt, Resync, receiver
<1>3. ASSUME NEW p \in net, Open(p) PROVE Remembered'
  <2> DEFINE b == Low(p.iv)
  <2>1. /\ key' = key /\ accepted' = accepted \cup {p}
        /\ decrypt_history' = [decrypt_history EXCEPT ![b] = Second(p.iv)]
    BY <1>3 DEF Open, Accepts
  <2>2. decrypt_history \in [Bytes -> Bytes]
    BY DEF CryptTypeOK
  <2>3. \A c \in Bytes :
            \/ decrypt_history[c] = 0
            \/ \E q \in accepted : Low(q.iv) = c /\ decrypt_history[c] = Second(q.iv)
    BY <2>1
  <2>4. ASSUME NEW c \in Bytes
        PROVE  \/ decrypt_history'[c] = 0
               \/ \E q \in accepted' : Low(q.iv) = c /\ decrypt_history'[c] = Second(q.iv)
    <3>1. CASE c = b
      BY <2>1, <2>2, <3>1
    <3>2. CASE c # b
      BY <2>1, <2>2, <2>3, <3>2
    <3> QED
      BY <3>1, <3>2
  <2> QED
    BY <2>4
<1>4. CASE UNCHANGED cryptVars
  BY <1>4 DEF cryptVars, receiver, cryptGhosts
<1> QED
  BY <1>1, <1>2, <1>3, <1>4 DEF CryptNext, Decrypt, Discard

(* "Lost a few packets, but beyond that we're good" (ocb.c:200): whatever  *)
(* was lost or came in another order, a new packet that is late by less    *)
(* than Window or ahead by less than half a round is opened, under the     *)
(* first key and while no nonce has a zero for its second byte.            *)
THEOREM FreshIsAccepted == CryptSpec => []FreshAccepted
<1>1. ASSUME CryptTypeOK, Numbers, Remembered PROVE FreshAccepted
  <2> SUFFICES ASSUME key = 1, \A n \in start .. encrypt_iv : Second(n) # 0,
                      NEW p \in net, Due(p)
               PROVE  Accepts(p)
    BY DEF FreshAccepted
  <2> DEFINE b == Low(p.iv)
  <2>1. /\ p \notin accepted /\ p.key = key /\ p.iv # decrypt_iv
        /\ -Window < p.iv - decrypt_iv /\ p.iv - decrypt_iv < Byte \div 2
    BY DEF Due
  <2>2. p \in Packets /\ p.iv \in Nat /\ decrypt_iv \in Nat /\ b \in Bytes
    BY <1>1, Digits DEF CryptTypeOK, Packets
  <2>3. (Expected(b) \/ Late(b) \/ Ahead(b)) /\ Guess(b) = p.iv
    BY <2>1, <2>2, GuessIsRight
  <2>4. p.iv \in start .. encrypt_iv
    BY <1>1, <2>1, <2>2 DEF Numbers, CryptTypeOK
  <2>5. ~Seen(b)
    <3>1. SUFFICES ASSUME decrypt_history[b] = Second(p.iv) PROVE FALSE
      BY <2>3 DEF Seen
    <3>2. decrypt_history[b] # 0
      BY <2>4, <3>1
    <3>3. PICK q \in accepted : Low(q.iv) = b /\ decrypt_history[b] = Second(q.iv)
      BY <1>1, <2>2, <3>2 DEF Remembered
    <3>4. q \in net /\ q \in Packets /\ q.key = key
      BY <1>1 DEF Numbers, CryptTypeOK
    <3>5. q.iv \in Nat /\ q.iv \in start .. encrypt_iv
      BY <1>1, <3>4 DEF Numbers, CryptTypeOK, Packets
    <3>6. q.iv # p.iv
      BY <2>1, <2>2, <3>4 DEF Packets
    <3>7. CASE p.iv < q.iv
      <4>1. PICK n \in p.iv .. q.iv : Second(n) = 0
        BY <2>2, <3>1, <3>3, <3>5, <3>7, ZeroBetween
      <4> QED
        BY <1>1, <2>4, <3>5, <4>1 DEF CryptTypeOK
    <3>8. CASE q.iv < p.iv
      <4>1. PICK n \in q.iv .. p.iv : Second(n) = 0
        BY <2>2, <3>1, <3>3, <3>5, <3>8, ZeroBetween
      <4> QED
        BY <1>1, <2>4, <3>5, <4>1 DEF CryptTypeOK
    <3> QED
      BY <2>2, <3>5, <3>6, <3>7, <3>8
  <2> QED
    BY <2>1, <2>3, <2>5 DEF Accepts
<1>2. CryptSpec => [](CryptTypeOK /\ Numbers /\ Remembered)
  BY CryptInitTyped, CryptNextTyped, InitNumbers, NextNumbers, NextRemembers, PTL DEF CryptSpec
<1> QED
  BY <1>1, <1>2, PTL

-----------------------------------------------------------------------------
(* The packets of this key that were opened, and their number.             *)
Opened == {p \in accepted : p.key = key}

(* No two packets of one key have the same nonce, so there are no more     *)
(* than the nonces that decrypt_iv has passed.                             *)
LEMMA OpenedFits ==
    ASSUME CryptTypeOK, Numbers, Known
    PROVE  /\ IsFiniteSet(Opened) /\ Cardinality(Opened) \in Nat
           /\ \A h \in (start + 1) .. decrypt_iv :
                 (\A q \in Opened : q.iv # h) => Cardinality(Opened) < decrypt_iv - start
<1> DEFINE passed == (start + 1) .. decrypt_iv
           iv == [q \in Opened |-> q.iv]
<1>1. /\ start \in Nat /\ decrypt_iv \in Nat /\ start <= decrypt_iv
      /\ start + 1 \in Int /\ decrypt_iv \in Int
  BY DEF CryptTypeOK, Numbers
<1>2. /\ IsFiniteSet(passed)
      /\ Cardinality(passed) = decrypt_iv - start
  <2>1. /\ IsFiniteSet(passed)
        /\ Cardinality(passed) =
             IF start + 1 > decrypt_iv THEN 0 ELSE decrypt_iv - (start + 1) + 1
    BY <1>1, FS_Interval, Zenon
  <2> QED
    BY <1>1, <2>1
<1>3. \A q \in Opened : q \in Packets /\ q.key = key /\ q.iv \in passed
  BY <1>1 DEF Opened, CryptTypeOK, Numbers, Known, Packets
<1>4. \A q, r \in Opened : q.iv = r.iv => q = r
  BY <1>3 DEF Packets
<1>5. ASSUME NEW S, \A q \in Opened : q.iv \in S
      PROVE  iv \in Injection(Opened, S)
  BY <1>4, <1>5 DEF Injection, IsInjective
<1>6. iv \in Injection(Opened, passed)
  BY <1>3, <1>5
<1>7. IsFiniteSet(Opened)
  BY <1>2, <1>6, FS_Injection
<1>8. Cardinality(Opened) \in Nat
  BY <1>7, FS_CardinalityType
<1>9. ASSUME NEW h \in passed, \A q \in Opened : q.iv # h
      PROVE  Cardinality(Opened) < decrypt_iv - start
  <2>1. iv \in Injection(Opened, passed \ {h})
    BY <1>3, <1>5, <1>9
  <2>2. IsFiniteSet(passed \ {h}) /\ Cardinality(passed \ {h}) = Cardinality(passed) - 1
    BY <1>2, <1>9, FS_RemoveElement
  <2>3. Cardinality(Opened) <= Cardinality(passed \ {h})
    BY <2>1, <2>2, FS_Injection
  <2> QED
    BY <1>1, <1>2, <1>8, <2>2, <2>3
<1> QED
  BY <1>7, <1>8, <1>9

(* What is missing, by the set of what was opened under this key.          *)
LEMMA MissingIs == Missing = (decrypt_iv - start) - Cardinality(Opened)
BY DEF Missing, Opened

(* A packet that is late fills a gap: uiLost goes down by one, if the      *)
(* guard lets it, and any other adds the gap it leaves.                    *)
LEMMA OpenBalances ==
    ASSUME CryptTypeOK, Numbers, Known, uiLost - Missing \in {0, 1}, NEW p \in net, Open(p)
    PROVE  (uiLost - Missing \in {0, 1})'
<1> DEFINE b == Low(p.iv)
           n == Cardinality(Opened)
<1>1. /\ p \in Packets /\ p.iv \in Nat /\ b \in Bytes /\ decrypt_iv \in Nat
      /\ start \in Nat /\ uiLost \in Nat /\ n \in Nat
  BY Digits, OpenedFits DEF CryptTypeOK, Packets
<1>2. (Expected(b) \/ Late(b) \/ Ahead(b)) /\ p.iv = Guess(b) /\ p.key = key
  BY DEF Open, Accepts
<1>3. /\ decrypt_iv' = (IF Late(b) THEN decrypt_iv ELSE p.iv) /\ start' = start
      /\ key' = key /\ accepted' = accepted \cup {p} /\ uiLost' = LostAfter(b)
  BY <1>2 DEF Open, NextIV
<1>4. p \notin accepted
  BY OpensNew
<1>5. Opened' = Opened \cup {p} /\ p \notin Opened
  BY <1>2, <1>3, <1>4 DEF Opened
<1>6. Cardinality(Opened') = n + 1
  BY <1>5, OpenedFits, FS_AddElement
<1>7. Missing = (decrypt_iv - start) - n
  BY MissingIs
<1>8. Missing' = (decrypt_iv' - start) - (n + 1)
  BY <1>3, <1>6 DEF Missing, Opened
<1>9. Lost(b) = IF Late(b) THEN -1 ELSE p.iv - decrypt_iv - 1
  BY <1>1, <1>2, LostIsGap
<1>10. uiLost' = IF Lost(b) > 0 \/ uiLost > -Lost(b) THEN uiLost + Lost(b) ELSE uiLost
  BY <1>3 DEF LostAfter
<1>11. CASE Late(b)
  <2>1. Lost(b) = -1 /\ decrypt_iv' = decrypt_iv /\ p.iv < decrypt_iv
    BY <1>1, <1>2, <1>3, <1>9, <1>11, GuessRange
  <2>2. p.iv \in (start + 1) .. decrypt_iv
    BY <1>1, <1>2, <2>1 DEF Numbers
  <2>3. \A q \in Opened : q.iv # p.iv
    BY <1>1, <1>2, <1>5 DEF Opened, CryptTypeOK, Packets
  <2>4. n < decrypt_iv - start
    BY <2>2, <2>3, OpenedFits
  <2> HIDE DEF n, b
  <2> QED
    BY <1>1, <1>7, <1>8, <1>10, <2>1, <2>4
<1>12. CASE ~Late(b)
  <2>1. Lost(b) = p.iv - decrypt_iv - 1 /\ decrypt_iv' = p.iv /\ p.iv > decrypt_iv
    BY <1>1, <1>2, <1>3, <1>9, <1>12, GuessRange
  <2> HIDE DEF n, b
  <2> QED
    BY <1>1, <1>7, <1>8, <1>10, <2>1
<1> QED
  BY <1>11, <1>12

(* uiLost is what is missing or one more, for any size of the window, any  *)
(* losses and any order: the guard that keeps it from going below zero     *)
(* keeps the last 1 as well (ocb.c:241).                                   *)
THEOREM LossesAreCounted == CryptSpec => []LostBounded
<1> DEFINE Inv == CryptTypeOK /\ HistoryKnows /\ Numbers /\ LostBounded
<1>1. CryptInit => LostBounded
  <2> SUFFICES ASSUME CryptInit PROVE LostBounded
    OBVIOUS
  <2>1. Opened = {} /\ Cardinality({}) = 0
    BY FS_EmptySet DEF CryptInit, Opened
  <2> QED
    BY <2>1, MissingIs DEF CryptInit, LostBounded
<1>2. CryptTypeOK /\ HistoryKnows /\ Numbers /\ LostBounded /\ [CryptNext]_cryptVars => LostBounded'
  <2> SUFFICES ASSUME CryptTypeOK, HistoryKnows, Numbers, LostBounded, [CryptNext]_cryptVars,
                      key' <= 1, resync' = 0
               PROVE  (uiLost - Missing \in {0, 1})'
    BY DEF LostBounded
  <2>1. ASSUME NEW iv \in Starts, SetKey(iv) PROVE (uiLost - Missing \in {0, 1})'
    <3>1. /\ key = 0 /\ resync = 0 /\ decrypt_iv' = start' /\ uiLost' = uiLost
          /\ accepted' = accepted /\ start' \in Nat
      BY <2>1, CryptAssumption DEF SetKey, CryptTypeOK
    <3>2. accepted = {}
      BY <3>1 DEF Numbers
    <3>3. Opened = {} /\ Opened' = {} /\ Cardinality({}) = 0
      BY <3>1, <3>2, FS_EmptySet DEF Opened
    <3>4. Missing' = 0
      BY <3>1, <3>3 DEF Missing, Opened
    <3>5. uiLost = 0
      BY <3>1 DEF Numbers
    <3> QED
      BY <3>1, <3>4, <3>5
  <2>2. CASE Encrypt
    BY <2>2 DEF Encrypt, receiver, LostBounded, Missing
  <2>3. CASE Resync
    BY <2>3 DEF Resync, CryptTypeOK
  <2>4. ASSUME NEW p \in net, Open(p) PROVE (uiLost - Missing \in {0, 1})'
    <3>1. key' = key /\ resync' = resync
      BY <2>4 DEF Open
    <3> QED
      BY <2>4, <3>1, OpenBalances DEF LostBounded, HistoryKnows
  <2>5. CASE UNCHANGED cryptVars
    BY <2>5 DEF cryptVars, receiver, cryptGhosts, LostBounded, Missing
  <2> QED
    BY <2>1, <2>2, <2>3, <2>4, <2>5 DEF CryptNext, Decrypt, Discard
<1>3. CryptInit => Inv
  BY <1>1, CryptInitTyped, InitNumbers
<1>4. Inv /\ [CryptNext]_cryptVars => Inv'
  BY <1>2, CryptNextTyped, NextKnows, NextNumbers
<1> QED
  BY <1>3, <1>4, PTL DEF CryptSpec
=============================================================================
