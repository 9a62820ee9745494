---------------------------- MODULE BoundedFifo ----------------------------
(***************************************************************************)
(* What lib/ringbuffer.h promises: a queue of at most Size characters that *)
(* refuses a character when it is full and delivers what it took in order. *)
(* `ret' is what the last call returned.                                   *)
(***************************************************************************)
EXTENDS Naturals, SequencesExt

CONSTANTS Size, Chars

VARIABLES queue, ret

vars == <<queue, ret>>

Init == queue = <<>> /\ ret = "stored"

Put(c) ==
    \/ Len(queue) < Size /\ queue' = Append(queue, c) /\ ret' = "stored"
    \/ Len(queue) = Size /\ ret' = "full" /\ UNCHANGED queue

Get == queue # <<>> /\ ret' = Head(queue) /\ queue' = Tail(queue)

Peek == queue # <<>> /\ ret' = Head(queue) /\ UNCHANGED queue

PeekLast == queue # <<>> /\ ret' = Last(queue) /\ UNCHANGED queue

Next == (\E c \in Chars : Put(c)) \/ Get \/ Peek \/ PeekLast

Spec == Init /\ [][Next]_vars
=============================================================================
