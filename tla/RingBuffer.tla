----------------------------- MODULE RingBuffer -----------------------------
(***************************************************************************)
(* lib/ringbuffer.h.  head and tail are unsigned ints that are never       *)
(* reset: they count what was stored and what was taken and wrap around at *)
(* 2^32, here Wrap.  The size is a power of two, so `x & mask' is x % Size *)
(* and, Size dividing Wrap, goes on without a jump where x wraps around.   *)
(***************************************************************************)
EXTENDS Naturals, SequencesExt

CONSTANTS
    Size,    \* of the buffer, a power of two
    Wrap,    \* 2 to the width of unsigned int
    Chars,
    NUL      \* what the cleared buffer holds

(***************************************************************************)
(* The static_asserts of create_ringbuffer, which make Size a power of two *)
(* and so a divisor of Wrap, and a size below 2^32.                        *)
(***************************************************************************)
ASSUME SizeAssumption ==
    Size \in Nat \ {0} /\ Wrap \in Nat /\ Size < Wrap /\ Wrap % Size = 0

VARIABLES head, tail, buffer, ret

vars == <<head, tail, buffer, ret>>

Index == 0 .. Size - 1

Init ==
    /\ head = 0
    /\ tail = 0
    /\ buffer = [i \in Index |-> NUL]
    /\ ret = "stored"

mask(x) == x % Size

increment(x) == (x + 1) % Wrap

buff_is_empty == head = tail

(* Mutant: full is decided by comparing counters that wrap around. *)
buff_is_full_unwrapped == head >= tail + Size

buff_is_full == mask(tail) = mask(head) /\ ~buff_is_empty

buff_putc(c) ==
    /\ \/ buff_is_full /\ ret' = "full" /\ UNCHANGED <<head, buffer>>
       \/ /\ ~buff_is_full
          /\ buffer' = [buffer EXCEPT ![mask(head)] = c]
          /\ head' = increment(head)
          /\ ret' = "stored"
    /\ UNCHANGED tail

(* buff_getc and the two peeks spin while the buffer is empty. *)
buff_getc ==
    /\ ~buff_is_empty
    /\ ret' = buffer[mask(tail)]
    /\ tail' = increment(tail)
    /\ UNCHANGED <<head, buffer>>

buff_peekc ==
    /\ ~buff_is_empty
    /\ ret' = buffer[mask(tail)]
    /\ UNCHANGED <<head, tail, buffer>>

buff_peekc_last ==
    /\ ~buff_is_empty
    /\ ret' = buffer[mask(head + Wrap - 1)]
    /\ UNCHANGED <<head, tail, buffer>>

Next ==
    \/ \E c \in Chars : buff_putc(c)
    \/ buff_getc
    \/ buff_peekc
    \/ buff_peekc_last

Spec == Init /\ [][Next]_vars

-----------------------------------------------------------------------------
Occupancy == (head + Wrap - tail) % Wrap

stored == [i \in 1 .. Occupancy |-> buffer[mask(tail + i - 1)]]

Fifo == INSTANCE BoundedFifo WITH queue <- stored

(***************************************************************************)
(* ringbuffer.h implements the bounded queue, also when head has wrapped   *)
(* around and tail has not: full and empty are told apart, nothing is      *)
(* overwritten before it is taken, and the order is kept.                  *)
(***************************************************************************)
ImplementsFifo == Fifo!Spec
=============================================================================
