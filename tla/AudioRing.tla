------------------------------ MODULE AudioRing ------------------------------
(***************************************************************************)
(* The lock-free ring of an AudioStream, between the buffer thread, which  *)
(* writes what it read from the file, and the main thread, which mixes it. *)
(* The writer owns head, the reader owns tail, both change used; samples   *)
(* are copied one by one between loading an index and publishing it.  When *)
(* a stream is played or stopped the main thread also zeroes all three,    *)
(* without a lock, whatever the buffer thread is doing.                    *)
(*                                                                         *)
(* A sample is its number in the order of production.                      *)
(***************************************************************************)
EXTENDS Integers

CONSTANTS
    BufferSize,   \* sound->buffer_size, in samples
    MaxSamples    \* bound: the samples written in one behavior

ASSUME RingAssumption ==
    BufferSize \in Nat \ {0} /\ MaxSamples \in Nat

Cells == 0 .. (BufferSize - 1)

VARIABLES
    buffer, head, tail, used,
    writer, whead, wcount, wdone,   \* ring_write: the head it loaded, how many
    reader, rtail, rcount, rdone,   \* samples it copies, how many it did copy
    written, read,                  \* ghosts: samples published, samples taken
    base, raced                     \* of the last reset: samples published before
                                    \* it, and did a write overlap it?

ring       == <<buffer, head, tail, used>>
writing    == <<writer, whead, wcount, wdone>>
reading    == <<reader, rtail, rcount, rdone>>
ringGhosts == <<written, read, base, raced>>
ringVars   == <<ring, writing, reading, ringGhosts>>

RingInit ==
    /\ buffer = [c \in Cells |-> 0]
    /\ head = 0 /\ tail = 0 /\ used = 0
    /\ writer = "idle" /\ whead = 0 /\ wcount = 0 /\ wdone = 0
    /\ reader = "idle" /\ rtail = 0 /\ rcount = 0 /\ rdone = 0
    /\ written = 0 /\ read = 0 /\ base = 0 /\ raced = FALSE

(* The reader's thread is between the three stores of a reset.             *)
Resetting == reader \in {"resetHead", "resetTail"}

ring_count == used

ring_space == IF used >= BufferSize THEN 0 ELSE BufferSize - used

-----------------------------------------------------------------------------
(* ring_write.                                                             *)

WriteBegin ==
    /\ writer = "idle"
    /\ \E count \in 1 .. ring_space :
        /\ written + count <= MaxSamples
        /\ wcount' = count
    /\ writer' = "copy" /\ whead' = head /\ wdone' = 0
    /\ raced' = (raced \/ Resetting)
    /\ UNCHANGED <<ring, reading, written, read, base>>

WriteCopy ==
    /\ writer = "copy"
    /\ buffer' = [buffer EXCEPT ![(whead + wdone) % BufferSize] = written + wdone + 1]
    /\ wdone' = wdone + 1
    /\ writer' = IF wdone + 1 = wcount THEN "head" ELSE "copy"
    /\ UNCHANGED <<head, tail, used, whead, wcount, reading, ringGhosts>>

(* Defect: a write that ends at the end of the buffer does not wrap.       *)
WriteHeadUnwrapped ==
    /\ writer = "head" /\ writer' = "used"
    /\ head' = IF whead + wcount > BufferSize THEN whead + wcount - BufferSize
               ELSE whead + wcount
    /\ UNCHANGED <<buffer, tail, used, whead, wcount, wdone, reading, ringGhosts>>

WriteHead ==
    /\ writer = "head" /\ writer' = "used"
    /\ head' = (whead + wcount) % BufferSize
    /\ UNCHANGED <<buffer, tail, used, whead, wcount, wdone, reading, ringGhosts>>

WriteUsed ==
    /\ writer = "used" /\ writer' = "idle"
    /\ used' = used + wcount
    /\ written' = written + wcount
    /\ UNCHANGED <<buffer, head, tail, whead, wcount, wdone, reading, read, base, raced>>

-----------------------------------------------------------------------------
(* ring_read, for as many samples as the mixer asks, or fewer.             *)

ReadBegin ==
    /\ reader = "idle"
    /\ \E count \in 1 .. ring_count : rcount' = count
    /\ reader' = "copy" /\ rtail' = tail /\ rdone' = 0
    /\ UNCHANGED <<ring, writing, ringGhosts>>

ReadCopy ==
    /\ reader = "copy"
    /\ rdone' = rdone + 1
    /\ reader' = IF rdone + 1 = rcount THEN "tail" ELSE "copy"
    /\ UNCHANGED <<ring, writing, rtail, rcount, ringGhosts>>

ReadTail ==
    /\ reader = "tail" /\ reader' = "used"
    /\ tail' = (rtail + rcount) % BufferSize
    /\ UNCHANGED <<buffer, head, used, writing, rtail, rcount, rdone, ringGhosts>>

ReadUsed ==
    /\ reader = "used" /\ reader' = "idle"
    /\ used' = used - rcount
    /\ read' = read + rcount
    /\ UNCHANGED <<buffer, head, tail, writing, rtail, rcount, rdone, written, base, raced>>

-----------------------------------------------------------------------------
(* audiostream_reset_playback_state, on the reader's thread: three stores, *)
(* and what was buffered is not expected any more.                         *)

ResetUsed ==
    /\ reader = "idle" /\ reader' = "resetHead"
    /\ used' = 0
    /\ raced' = (writer # "idle")
    /\ UNCHANGED <<buffer, head, tail, writing, rtail, rcount, rdone, written, read, base>>

ResetHead ==
    /\ reader = "resetHead" /\ reader' = "resetTail"
    /\ head' = 0
    /\ UNCHANGED <<buffer, tail, used, writing, rtail, rcount, rdone, ringGhosts>>

(* Defect: the reader's index is left where it was.                        *)
TailKept ==
    /\ reader = "resetTail" /\ reader' = "idle"
    /\ read' = written /\ base' = written
    /\ UNCHANGED <<ring, writing, rtail, rcount, rdone, written, raced>>

ResetTail ==
    /\ reader = "resetTail" /\ reader' = "idle"
    /\ tail' = 0
    /\ read' = written /\ base' = written
    /\ UNCHANGED <<buffer, head, used, writing, rtail, rcount, rdone, written, raced>>

-----------------------------------------------------------------------------
ring_write == WriteBegin \/ WriteCopy \/ WriteHead \/ WriteUsed
ring_read  == ReadBegin \/ ReadCopy \/ ReadTail \/ ReadUsed
reset      == ResetUsed \/ ResetHead \/ ResetTail

RingNext == ring_write \/ ring_read \/ reset

RingSpec == RingInit /\ [][RingNext]_ringVars

-----------------------------------------------------------------------------
RingTypeOK ==
    /\ buffer \in [Cells -> Nat]
    /\ head \in Cells /\ tail \in Cells /\ used \in 0 .. BufferSize
    /\ writer \in {"idle", "copy", "head", "used"}
    /\ whead \in Cells /\ wcount \in 0 .. BufferSize /\ wdone \in 0 .. wcount
    /\ reader \in {"idle", "copy", "tail", "used", "resetHead", "resetTail"}
    /\ rtail \in Cells /\ rcount \in 0 .. BufferSize /\ rdone \in 0 .. rcount
    /\ written \in Nat /\ read \in Nat /\ base \in Nat /\ raced \in BOOLEAN

(* The mixer takes the samples in the order they were produced, each once, *)
(* and none before it was published: the sample about to be copied is the  *)
(* next one, whatever the writer is doing to the rest of the buffer, and   *)
(* however often the ring was cleared, if no write overlapped the last     *)
(* reset (audio.c:310-312 take no lock that would exclude one).            *)
ReadsNext ==
    reader = "copy" /\ ~raced => buffer[(rtail + rdone) % BufferSize] = read + rdone + 1

(* With neither thread in the ring, head, tail and used agree, unless a    *)
(* write overlapped the last reset; one that is not disturbed mends them.  *)
RingWhole ==
    writer = "idle" /\ reader = "idle" /\ ~raced => head = (tail + used) % BufferSize

(* "Clear the buffer" (audio.c:309): a ring that was cleared is one from   *)
(* which the next sample written is the next one read.                     *)
RingAgrees ==
    writer = "idle" /\ reader = "idle" => head = (tail + used) % BufferSize
=============================================================================
