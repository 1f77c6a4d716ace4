----------------------------- MODULE ByteQueue -----------------------------
(***************************************************************************)
(* What util::buffer promises its callers (buffer.h): a first-in first-out *)
(* queue of bytes.  Writers append bytes at the back; readers take bytes   *)
(* from the front, each byte once and in the order it was written.         *)
(***************************************************************************)
EXTENDS Naturals, Sequences, SequencesExt

VARIABLES queue, taken

(* A queue starts with the bytes it was made from, and none taken.        *)
Init == taken = <<>>

(* Some bytes are appended at the back.                                    *)
Write ==
    /\ IsPrefix(queue, queue')
    /\ queue' # queue
    /\ UNCHANGED taken

(* The n oldest bytes are taken, in order.                                 *)
Take ==
    \E n \in 1..Len(queue) :
        /\ taken' = taken \o SubSeq(queue, 1, n)
        /\ queue' = SubSeq(queue, n + 1, Len(queue))

Spec == Init /\ [][Write \/ Take]_<<queue, taken>>
=============================================================================
