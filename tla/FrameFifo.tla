------------------------------ MODULE FrameFifo ------------------------------
(***************************************************************************)
(* What the audio pipeline promises the mixer: frames are numbered one     *)
(* after the other, leave in that order and at most once, and may be       *)
(* discarded only when they reach the front or when the pipeline closes.   *)
(***************************************************************************)
EXTENDS Naturals, Sequences

VARIABLES
    next,     \* the number of the next frame
    queue,    \* the numbers of the frames that were accepted and not sent
    sent,     \* the numbers of the frames that were sent
    open

vars == <<next, queue, sent, open>>

Init == next = 0 /\ queue = <<>> /\ sent = <<>> /\ open = TRUE

Submit ==
    /\ open
    /\ queue' = Append(queue, next)
    /\ next' = next + 1
    /\ UNCHANGED <<sent, open>>

Deliver ==
    /\ open /\ queue # <<>>
    /\ queue' = Tail(queue)
    /\ sent' \in {sent, Append(sent, Head(queue))}
    /\ UNCHANGED <<next, open>>

Close ==
    /\ open /\ open' = FALSE
    /\ queue' = <<>>
    /\ UNCHANGED <<next, sent>>

Next == Submit \/ Deliver \/ Close

Spec == Init /\ [][Next]_vars
=============================================================================
