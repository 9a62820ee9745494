-------------------------- MODULE ContainerProofs --------------------------
(***************************************************************************)
(* Proofs that the containers of include/lib/ implement what module        *)
(* Scheduler and module Kernel take them for.                              *)
(*                                                                         *)
(* lib/ringbuffer.h implements the bounded queue, for every size and every *)
(* width of its counters that the static_asserts of create_ringbuffer      *)
(* allow.  The counters never are reset, so what the buffer holds is the   *)
(* stretch from tail to head, modulo Wrap, and lies in the slots modulo    *)
(* Size.  Counters and contents are parameters of Count and Held, so that  *)
(* they can be stated for the state before a call and for the one after.   *)
(*                                                                         *)
(* lib/list.h implements queues, for any number of lists and nodes: the    *)
(* pointers in both directions always form circles through the heads, and  *)
(* the loop of scheduler_update_sleepers keeps its place in the list it    *)
(* unlinks nodes from.  A list is the sequence of its nodes, and the cell  *)
(* at a position of it is a node or, at both ends, the head.               *)
(***************************************************************************)
EXTENDS RingBuffer, LinkedList, DataLemmas, FiniteSetTheorems


Counters == 0 .. Wrap - 1

Contents == [Index -> Chars \cup {NUL}]

Count(h, t) == (h + Wrap - t) % Wrap

Held(h, t, b) == [i \in 1 .. Count(h, t) |-> b[mask(t + i - 1)]]

(***************************************************************************)
(* The inductive invariant: the counters are never further apart than the  *)
(* size.  Without it a full buffer could not be told from one that has     *)
(* overtaken itself, since only remainders are compared.                   *)
(***************************************************************************)
RInv ==
    /\ head \in Counters
    /\ tail \in Counters
    /\ buffer \in Contents
    /\ Count(head, tail) <= Size

-----------------------------------------------------------------------------
(* The number of characters held, without the remainder. *)
LEMMA CountValue ==
    ASSUME NEW h \in Counters, NEW t \in Counters
    PROVE  /\ Count(h, t) = IF h >= t THEN h - t ELSE h + Wrap - t
           /\ Count(h, t) \in 0 .. Wrap - 1
<1> DEFINE a == h + Wrap - t
<1>1. /\ Wrap \in Nat \ {0} /\ a \in 0 .. 2 * Wrap - 1
      /\ h \in 0 .. Wrap - 1 /\ t \in 0 .. Wrap - 1
  BY SizeAssumption DEF Counters
<1>2. a % Wrap = IF a < Wrap THEN a ELSE a - Wrap
  <2> HIDE DEF a
  <2> QED  BY <1>1, WrapOnce
<1>3. Count(h, t) = a % Wrap
  BY DEF Count
<1> QED  BY <1>1, <1>2, <1>3

(* increment of a counter *)
LEMMA IncrementValue ==
    ASSUME NEW x \in Counters
    PROVE  /\ increment(x) = IF x = Wrap - 1 THEN 0 ELSE x + 1
           /\ increment(x) \in Counters
<1> DEFINE a == x + 1
<1>1. Wrap \in Nat \ {0} /\ a \in 0 .. 2 * Wrap - 1 /\ x \in 0 .. Wrap - 1
  BY SizeAssumption DEF Counters
<1>2. a % Wrap = IF a < Wrap THEN a ELSE a - Wrap
  <2> HIDE DEF a
  <2> QED  BY <1>1, WrapOnce
<1>3. increment(x) = a % Wrap
  BY DEF increment
<1> QED  BY <1>1, <1>2, <1>3 DEF Counters

(* The slot of a counter goes on without a jump where the counter wraps. *)
LEMMA SlotAcrossWrap ==
    ASSUME NEW x \in Int
    PROVE  mask(x + Wrap) = mask(x) /\ mask(x) \in Index
<1> DEFINE k == Wrap \div Size
<1>1. Size \in Nat \ {0} /\ Wrap \in Int /\ Wrap % Size = 0
  BY SizeAssumption
<1>2. k \in Int /\ Wrap = Size * k + (Wrap % Size)
  BY <1>1, RemainderLemma
<1> HIDE DEF k
<1>3. (x + k * Size) % Size = x % Size
  BY <1>1, <1>2, SameRemainder
<1>4. x + Wrap = x + k * Size
  BY <1>1, <1>2
<1>5. x % Size \in 0 .. Size - 1
  BY <1>1, RemainderLemma
<1> QED  BY <1>3, <1>4, <1>5 DEF mask, Index

(* head stands at the slot behind the last character held. *)
LEMMA SlotOfHead ==
    ASSUME NEW h \in Counters, NEW t \in Counters
    PROVE  /\ mask(t + Count(h, t)) = mask(h)
           /\ mask(t + Count(h, t) - 1) = mask(h + Wrap - 1)
<1>0. h \in Int /\ t \in Int /\ Wrap \in Int
  BY SizeAssumption DEF Counters
<1>1. CASE h >= t
  <2>1. t + Count(h, t) = h /\ t + Count(h, t) - 1 = h - 1
    BY <1>0, <1>1, CountValue
  <2>2. h - 1 \in Int /\ (h - 1) + Wrap = h + Wrap - 1
    BY <1>0
  <2>3. mask((h - 1) + Wrap) = mask(h - 1)
    BY <2>2, SlotAcrossWrap
  <2>4. mask(t + Count(h, t) - 1) = mask(h + Wrap - 1)
    BY Zenon, <2>1, <2>2, <2>3
  <2> QED  BY <2>1, <2>4
<1>2. CASE h < t
  <2>1. t + Count(h, t) = h + Wrap /\ t + Count(h, t) - 1 = h + Wrap - 1
    BY <1>0, <1>2, CountValue
  <2>2. mask(h + Wrap) = mask(h)
    BY <1>0, SlotAcrossWrap
  <2> QED  BY Zenon, <2>1, <2>2
<1> QED  BY <1>0, <1>1, <1>2

(* buff_is_empty and buff_is_full, which compare counters and slots, tell *)
(* how many characters are held.                                          *)
LEMMA EmptyAndFull ==
    ASSUME RInv
    PROVE  /\ buff_is_empty <=> Count(head, tail) = 0
           /\ buff_is_full <=> Count(head, tail) = Size
<1> DEFINE n == Count(head, tail)
<1>1. /\ head \in Counters /\ tail \in Counters
      /\ n \in Nat /\ n <= Size
      /\ Size \in Nat \ {0} /\ Wrap \in Nat \ {0}
      /\ tail \in Int
  BY CountValue, SizeAssumption DEF RInv, Counters
<1>2. buff_is_empty <=> n = 0
  <2>1. n = IF head >= tail THEN head - tail ELSE head + Wrap - tail
    BY <1>1, CountValue
  <2>2. head \in 0 .. Wrap - 1 /\ tail \in 0 .. Wrap - 1
    BY <1>1 DEF Counters
  <2> HIDE DEF n
  <2> QED  BY <1>1, <2>1, <2>2 DEF buff_is_empty
<1>3. mask(tail + n) = mask(head)
  BY <1>1, SlotOfHead
<1> HIDE DEF n
<1>4. buff_is_full <=> n = Size
  <2>1. CASE n = 0
    BY <1>1, <1>2, <2>1 DEF buff_is_full
  <2>2. CASE n \in 1 .. Size - 1
    <3>1. mask(tail + n) # mask(tail)
      BY <1>1, <2>2, OtherRemainder DEF mask
    <3> QED  BY <1>1, <1>3, <2>2, <3>1 DEF buff_is_full
  <2>3. CASE n = Size
    <3>1. mask(tail + Size) = mask(tail)
      BY <1>1, OneTurn DEF mask
    <3> QED  BY <1>1, <1>2, <1>3, <2>3, <3>1 DEF buff_is_full
  <2> QED  BY <1>1, <2>1, <2>2, <2>3
<1> QED  BY <1>2, <1>4 DEF n

-----------------------------------------------------------------------------
(* What the buffer holds is a sequence. *)
LEMMA HeldIsSeq ==
    ASSUME NEW h \in Counters, NEW t \in Counters, NEW b \in Contents
    PROVE  /\ Held(h, t, b) \in Seq(Chars \cup {NUL})
           /\ Len(Held(h, t, b)) = Count(h, t)
           /\ \A i \in 1 .. Count(h, t) : Held(h, t, b)[i] = b[mask(t + i - 1)]
           /\ Held(h, t, b) = <<>> <=> Count(h, t) = 0
<1>1. Count(h, t) \in Nat /\ t \in Int
  BY CountValue, SizeAssumption DEF Counters
<1>2. \A i \in 1 .. Count(h, t) : b[mask(t + i - 1)] \in Chars \cup {NUL}
  <2>1. ASSUME NEW i \in 1 .. Count(h, t)
        PROVE  mask(t + i - 1) \in Index
    BY <1>1, SlotAcrossWrap
  <2> QED  BY <2>1 DEF Contents
<1>3. Held(h, t, b) \in [1 .. Count(h, t) -> Chars \cup {NUL}]
  BY <1>2 DEF Held
<1>4. Held(h, t, b) \in Seq(Chars \cup {NUL})
  BY <1>1, <1>3, SeqDef
<1>5. Len(Held(h, t, b)) = Count(h, t)
  BY <1>1, <1>3, <1>4, LenProperties
<1>6. Held(h, t, b) = <<>> <=> Count(h, t) = 0
  BY <1>4, <1>5, EmptySeq
<1> QED  BY <1>4, <1>5, <1>6 DEF Held

(* Storing a character where there is room appends it and spoils no other. *)
LEMMA PutAppends ==
    ASSUME NEW h \in Counters, NEW t \in Counters, NEW b \in Contents,
           NEW c \in Chars, Count(h, t) < Size
    PROVE  /\ [b EXCEPT ![mask(h)] = c] \in Contents
           /\ Count(increment(h), t) = Count(h, t) + 1
           /\ Held(increment(h), t, [b EXCEPT ![mask(h)] = c])
                = Append(Held(h, t, b), c)
<1> DEFINE n == Count(h, t)
           b2 == [b EXCEPT ![mask(h)] = c]
           s == Held(h, t, b)
           u == Held(increment(h), t, b2)
<1>1. /\ h \in Int /\ t \in Int /\ n \in Nat /\ n < Size
      /\ Size \in Nat \ {0} /\ Wrap \in Nat \ {0} /\ Size < Wrap
      /\ increment(h) \in Counters
  BY CountValue, IncrementValue, SizeAssumption DEF Counters
<1>2. mask(h) \in Index /\ b2 \in Contents
  BY <1>1, SlotAcrossWrap DEF Contents
<1>3. Count(increment(h), t) = n + 1
  <2> DEFINE h2 == increment(h)
  <2>1. h \in 0 .. Wrap - 1 /\ t \in 0 .. Wrap - 1 /\ h2 \in Counters
    BY <1>1 DEF Counters
  <2>2. h2 = IF h = Wrap - 1 THEN 0 ELSE h + 1
    BY IncrementValue
  <2>3. n = IF h >= t THEN h - t ELSE h + Wrap - t
    BY CountValue
  <2>4. Count(h2, t) = IF h2 >= t THEN h2 - t ELSE h2 + Wrap - t
    BY <2>1, CountValue
  <2> HIDE DEF h2, n
  <2>5. Count(h2, t) = n + 1
    BY <1>1, <2>1, <2>2, <2>3, <2>4
  <2> QED  BY <2>5 DEF h2
<1>4. /\ s \in Seq(Chars \cup {NUL}) /\ Len(s) = n
      /\ \A i \in 1 .. n : s[i] = b[mask(t + i - 1)]
  BY HeldIsSeq
<1>5. /\ u \in Seq(Chars \cup {NUL}) /\ Len(u) = n + 1
      /\ \A i \in 1 .. n + 1 : u[i] = b2[mask(t + i - 1)]
  <2> DEFINE h2 == increment(h)
  <2> HIDE DEF b2, n
  <2>1. h2 \in Counters /\ b2 \in Contents /\ Count(h2, t) = n + 1
    BY <1>1, <1>2, <1>3
  <2>2. /\ Held(h2, t, b2) \in Seq(Chars \cup {NUL})
        /\ Len(Held(h2, t, b2)) = Count(h2, t)
        /\ \A i \in 1 .. Count(h2, t) : Held(h2, t, b2)[i] = b2[mask(t + i - 1)]
    <3> HIDE DEF h2
    <3> QED  BY <2>1, HeldIsSeq
  <2> QED  BY <2>1, <2>2
<1> HIDE DEF s, u
<1>6. /\ Append(s, c) \in Seq(Chars \cup {NUL})
      /\ Len(Append(s, c)) = n + 1
      /\ \A i \in 1 .. n : Append(s, c)[i] = s[i]
      /\ Append(s, c)[n + 1] = c
  BY <1>4, AppendProperties
<1>7. ASSUME NEW i \in 1 .. n + 1
      PROVE  u[i] = Append(s, c)[i]
  <2>1. mask(t + n) = mask(h)
    BY SlotOfHead
  <2>2. CASE i = n + 1
    <3>1. t + i - 1 = t + n
      BY <1>1, <2>2
    <3>2. b2[mask(h)] = c
      BY <1>2 DEF Contents
    <3> QED  BY <1>5, <1>6, <2>1, <2>2, <3>1, <3>2
  <2>3. CASE i \in 1 .. n
    <3> DEFINE p == t + i - 1
               d == n + 1 - i
    <3>1. p \in Int /\ d \in 1 .. Size - 1 /\ p + d = t + n
      BY <1>1, <2>3
    <3>2. mask(p) # mask(h)
      <4> HIDE DEF p, d
      <4>1. (p + d) % Size # p % Size
        BY <1>1, <3>1, OtherRemainder
      <4> QED  BY <2>1, <3>1, <4>1 DEF mask
    <3>3. mask(p) \in Index
      BY <3>1, SlotAcrossWrap
    <3>4. b2[mask(p)] = b[mask(p)]
      BY <3>2, <3>3, <1>2 DEF Contents
    <3> HIDE DEF b2, n
    <3>5. u[i] = b2[mask(p)]
      BY <1>5
    <3>6. s[i] = b[mask(p)]
      BY <1>4, <2>3
    <3>7. Append(s, c)[i] = s[i]
      BY <1>6, <2>3
    <3> QED  BY <3>4, <3>5, <3>6, <3>7
  <2>4. i = n + 1 \/ i \in 1 .. n
    <3> HIDE DEF n
    <3> QED  BY <1>1
  <2> QED  BY <2>2, <2>3, <2>4
<1>8. u = Append(s, c)
  BY <1>5, <1>6, <1>7, SeqEqual
<1> QED  BY <1>2, <1>3, <1>8 DEF s, u

(* Taking a character takes the oldest and leaves the others in order. *)
LEMMA GetTakesHead ==
    ASSUME NEW h \in Counters, NEW t \in Counters, NEW b \in Contents,
           Count(h, t) # 0
    PROVE  /\ b[mask(t)] = Head(Held(h, t, b))
           /\ Count(h, increment(t)) = Count(h, t) - 1
           /\ Held(h, increment(t), b) = Tail(Held(h, t, b))
<1> DEFINE n == Count(h, t)
           t2 == increment(t)
           s == Held(h, t, b)
           u == Held(h, t2, b)
<1>1. /\ h \in Int /\ t \in Int /\ n \in Nat \ {0} /\ Wrap \in Nat \ {0}
      /\ t2 \in Counters /\ t2 \in Int
  BY CountValue, IncrementValue, SizeAssumption DEF Counters
<1>2. Count(h, t2) = n - 1
  <2>1. h \in 0 .. Wrap - 1 /\ t \in 0 .. Wrap - 1
    BY DEF Counters
  <2>2. t2 = IF t = Wrap - 1 THEN 0 ELSE t + 1
    BY IncrementValue
  <2>3. n = IF h >= t THEN h - t ELSE h + Wrap - t
    BY CountValue
  <2>4. Count(h, t2) = IF h >= t2 THEN h - t2 ELSE h + Wrap - t2
    BY <1>1, CountValue
  <2> HIDE DEF t2, n
  <2> QED  BY <1>1, <2>1, <2>2, <2>3, <2>4
<1>3. /\ s \in Seq(Chars \cup {NUL}) /\ Len(s) = n /\ s # <<>>
      /\ \A i \in 1 .. n : s[i] = b[mask(t + i - 1)]
  BY <1>1, HeldIsSeq
<1>4. /\ u \in Seq(Chars \cup {NUL}) /\ Len(u) = n - 1
      /\ \A i \in 1 .. n - 1 : u[i] = b[mask(t2 + i - 1)]
  <2>1. t2 \in Counters /\ Count(h, t2) = n - 1
    BY <1>1, <1>2
  <2> HIDE DEF t2, n
  <2>2. /\ u \in Seq(Chars \cup {NUL}) /\ Len(u) = Count(h, t2)
        /\ \A i \in 1 .. Count(h, t2) : u[i] = b[mask(t2 + i - 1)]
    BY <2>1, HeldIsSeq
  <2> HIDE DEF u
  <2> QED  BY <2>1, <2>2
<1>5. \A i \in Nat : mask(t2 + i - 1) = mask(t + i)
  <2> SUFFICES ASSUME NEW i \in Nat PROVE mask(t2 + i - 1) = mask(t + i)
    OBVIOUS
  <2>1. CASE t = Wrap - 1
    <3>1. t2 + i - 1 = i - 1 /\ t + i = (i - 1) + Wrap /\ i - 1 \in Int
      BY <1>1, <2>1, IncrementValue
    <3> QED  BY <3>1, SlotAcrossWrap
  <2>2. CASE t # Wrap - 1
    <3>1. t2 + i - 1 = t + i
      BY <1>1, <2>2, IncrementValue
    <3> QED  BY <3>1
  <2> QED  BY <2>1, <2>2
<1> HIDE DEF s, u, t2, n
<1>6. /\ Tail(s) \in Seq(Chars \cup {NUL})
      /\ Len(Tail(s)) = n - 1
      /\ \A i \in 1 .. n - 1 : Tail(s)[i] = s[i + 1]
  BY <1>3, HeadTailProperties
<1>7. ASSUME NEW i \in 1 .. n - 1
      PROVE  u[i] = Tail(s)[i]
  <2>1. i \in Nat /\ i + 1 \in 1 .. n /\ t + (i + 1) - 1 = t + i
    BY <1>1
  <2>2. s[i + 1] = b[mask(t + i)]
    BY <1>3, <2>1
  <2> QED  BY <1>4, <1>5, <1>6, <2>1, <2>2
<1>8. u = Tail(s)
  BY <1>4, <1>6, <1>7, SeqEqual
<1>9. Head(s) = b[mask(t)]
  <2>1. Head(s) = s[1]
    BY <1>3
  <2>2. 1 \in 1 .. n /\ t + 1 - 1 = t
    BY <1>1
  <2> QED  BY <1>3, <2>1, <2>2
<1> QED  BY <1>2, <1>8, <1>9 DEF s, u, t2, n

(* The last character stored is in the slot before head. *)
LEMMA LastIsBeforeHead ==
    ASSUME NEW h \in Counters, NEW t \in Counters, NEW b \in Contents,
           Count(h, t) # 0
    PROVE  b[mask(h + Wrap - 1)] = Last(Held(h, t, b))
<1>1. Count(h, t) \in 1 .. Count(h, t)
  BY CountValue, SizeAssumption
<1>2. Last(Held(h, t, b)) = b[mask(t + Count(h, t) - 1)]
  BY <1>1, HeldIsSeq DEF Last
<1> QED  BY <1>2, SlotOfHead

-----------------------------------------------------------------------------
(* The calls of ringbuffer.h keep the invariant. *)
LEMMA RNextPreserves == RInv /\ [Next]_vars => RInv'
<1> SUFFICES ASSUME RInv, [Next]_vars PROVE RInv'
  OBVIOUS
<1>0. /\ head \in Counters /\ tail \in Counters /\ buffer \in Contents
      /\ Count(head, tail) \in Nat /\ Count(head, tail) <= Size
      /\ Size \in Nat
  BY CountValue, SizeAssumption DEF RInv
<1>1. ASSUME NEW c \in Chars, buff_putc(c) PROVE RInv'
  <2>1. CASE buff_is_full
    <3>1. UNCHANGED <<head, tail, buffer>>
      BY <1>1, <2>1 DEF buff_putc
    <3> QED  BY <3>1 DEF RInv
  <2>2. CASE ~buff_is_full
    <3>1. Count(head, tail) < Size
      BY <1>0, <2>2, EmptyAndFull
    <3>2. /\ buffer' = [buffer EXCEPT ![mask(head)] = c]
          /\ head' = increment(head)
          /\ tail' = tail
      BY <1>1, <2>2 DEF buff_putc
    <3>3. buffer' \in Contents /\ Count(head', tail') = Count(head, tail) + 1
      BY <1>0, <3>1, <3>2, PutAppends
    <3>4. head' \in Counters
      BY <1>0, <3>2, IncrementValue
    <3> QED  BY <1>0, <3>1, <3>2, <3>3, <3>4 DEF RInv
  <2> QED  BY <2>1, <2>2
<1>2. CASE buff_getc
  <2>1. Count(head, tail) # 0
    BY <1>2, EmptyAndFull DEF buff_getc
  <2>2. tail' = increment(tail) /\ UNCHANGED <<head, buffer>>
    BY <1>2 DEF buff_getc
  <2>3. Count(head', tail') = Count(head, tail) - 1
    BY <1>0, <2>1, <2>2, GetTakesHead
  <2>4. tail' \in Counters
    BY <1>0, <2>2, IncrementValue
  <2> QED  BY <1>0, <2>2, <2>3, <2>4 DEF RInv
<1>3. CASE buff_peekc \/ buff_peekc_last \/ UNCHANGED vars
  <2>1. UNCHANGED <<head, tail, buffer>>
    BY <1>3 DEF buff_peekc, buff_peekc_last, vars
  <2> QED  BY <2>1 DEF RInv
<1> QED  BY <1>1, <1>2, <1>3 DEF Next

(* The cleared buffer is the empty queue. *)
LEMMA RInit == Init => RInv /\ Fifo!Init
<1> SUFFICES ASSUME Init PROVE RInv /\ Fifo!Init
  OBVIOUS
<1>1. head \in Counters /\ tail \in Counters /\ buffer \in Contents
  BY SizeAssumption DEF Init, Counters, Contents
<1>2. Count(head, tail) = 0
  BY <1>1, CountValue, SizeAssumption DEF Init
<1>3. stored = Held(head, tail, buffer)
  BY DEF stored, Held, Occupancy, Count
<1>4. stored = <<>>
  BY <1>1, <1>2, <1>3, HeldIsSeq
<1> QED  BY <1>1, <1>2, <1>4, SizeAssumption DEF RInv, Fifo!Init, Init

(* Every call is the operation of the queue it stands for, or changes *)
(* nothing.                                                           *)
LEMMA RStepSimulates == RInv /\ RInv' /\ [Next]_vars => [Fifo!Next]_Fifo!vars
<1> SUFFICES ASSUME RInv, RInv', [Next]_vars PROVE [Fifo!Next]_Fifo!vars
  OBVIOUS
<1>0. /\ head \in Counters /\ tail \in Counters /\ buffer \in Contents
      /\ Count(head, tail) \in Nat /\ Count(head, tail) <= Size
      /\ Size \in Nat
  BY CountValue, SizeAssumption DEF RInv
<1>1. /\ stored = Held(head, tail, buffer)
      /\ stored' = Held(head', tail', buffer')
  BY DEF stored, Held, Occupancy, Count
<1>2. /\ Len(stored) = Count(head, tail)
      /\ stored = <<>> <=> Count(head, tail) = 0
  BY <1>0, <1>1, HeldIsSeq
<1>3. ASSUME NEW c \in Chars, buff_putc(c) PROVE Fifo!Put(c)
  <2>1. CASE buff_is_full
    <3>1. UNCHANGED <<head, tail, buffer>> /\ ret' = "full"
      BY <1>3, <2>1 DEF buff_putc
    <3>2. Len(stored) = Size /\ stored' = stored
      BY <1>1, <1>2, <2>1, <3>1, EmptyAndFull
    <3> QED  BY <3>1, <3>2 DEF Fifo!Put
  <2>2. CASE ~buff_is_full
    <3>1. Count(head, tail) < Size
      BY <1>0, <2>2, EmptyAndFull
    <3>2. /\ buffer' = [buffer EXCEPT ![mask(head)] = c]
          /\ head' = increment(head)
          /\ tail' = tail
          /\ ret' = "stored"
      BY <1>3, <2>2 DEF buff_putc
    <3>3. stored' = Append(stored, c)
      BY <1>0, <1>1, <3>1, <3>2, PutAppends
    <3> QED  BY <1>2, <3>1, <3>2, <3>3 DEF Fifo!Put
  <2> QED  BY <2>1, <2>2
<1>4. CASE buff_getc
  <2>1. Count(head, tail) # 0
    BY <1>4, EmptyAndFull DEF buff_getc
  <2>2. /\ tail' = increment(tail) /\ UNCHANGED <<head, buffer>>
        /\ ret' = buffer[mask(tail)]
    BY <1>4 DEF buff_getc
  <2>3. ret' = Head(stored) /\ stored' = Tail(stored)
    BY <1>0, <1>1, <2>1, <2>2, GetTakesHead
  <2> QED  BY <1>2, <2>1, <2>3 DEF Fifo!Next, Fifo!Get
<1>5. CASE buff_peekc
  <2>1. Count(head, tail) # 0
    BY <1>5, EmptyAndFull DEF buff_peekc
  <2>2. ret' = Head(stored) /\ stored' = stored
    BY <1>0, <1>1, <1>5, <2>1, GetTakesHead DEF buff_peekc
  <2> QED  BY <1>2, <2>1, <2>2 DEF Fifo!Next, Fifo!Peek
<1>6. CASE buff_peekc_last
  <2>1. Count(head, tail) # 0
    BY <1>6, EmptyAndFull DEF buff_peekc_last
  <2>2. ret' = Last(stored) /\ stored' = stored
    BY <1>0, <1>1, <1>6, <2>1, LastIsBeforeHead DEF buff_peekc_last
  <2> QED  BY <1>2, <2>1, <2>2 DEF Fifo!Next, Fifo!PeekLast, Fifo!Last, Last
<1>7. CASE UNCHANGED vars
  <2>1. stored' = stored /\ ret' = ret
    BY <1>1, <1>7 DEF vars
  <2> QED  BY <2>1 DEF Fifo!vars
<1> QED  BY <1>3, <1>4, <1>5, <1>6, <1>7 DEF Next, Fifo!Next

(***************************************************************************)
(* The counters of ringbuffer.h are never further apart than its size, so  *)
(* that comparing remainders decides whether it is full.                   *)
(***************************************************************************)
THEOREM CountersBounded == Spec => []RInv
BY RInit, RNextPreserves, PTL DEF Spec

(***************************************************************************)
(* ringbuffer.h implements the bounded queue whatever its size and however *)
(* often its counters have wrapped around: buff_putc refuses exactly when  *)
(* Size characters are held, and buff_getc and the peeks return the oldest *)
(* and the newest of them.                                                 *)
(***************************************************************************)
THEOREM RingBufferIsFifo == Spec => ImplementsFifo
BY RInit, RNextPreserves, RStepSimulates, PTL DEF Spec, ImplementsFifo, Fifo!Spec

-----------------------------------------------------------------------------
(* What pointers are of and, but for Null, what they point at. *)
Cells == Heads \cup Nodes

(* The cell at position i of the list s with the head h, in a circle. *)
CellAt(h, s, i) == IF i \in 1 .. Len(s) THEN s[i] ELSE h

(* next leads from each cell of the list to the one behind it, *)
LinkedForth(nx, h, s) ==
    \A i \in 0 .. Len(s) : nx[CellAt(h, s, i)] = CellAt(h, s, i + 1)

(* and prev from each cell to the one before it. *)
LinkedBack(pv, h, s) ==
    \A i \in 0 .. Len(s) : pv[CellAt(h, s, i + 1)] = CellAt(h, s, i)

(***************************************************************************)
(* The pointers form the lists q: each node is in one of them, once, and   *)
(* both chains of pointers lead through each list and back to its head.    *)
(***************************************************************************)
Forms(nx, pv, q) ==
    /\ nx \in [Cells -> Cells \cup {Null}]
    /\ pv \in [Cells -> Cells \cup {Null}]
    /\ q \in [Heads -> Seq(Nodes)]
    /\ \A h \in Heads : /\ IsInjective(q[h])
                        /\ LinkedForth(nx, h, q[h])
                        /\ LinkedBack(pv, h, q[h])
    /\ \A g, h \in Heads : g # h => Range(q[g]) \cap Range(q[h]) = {}

(* The cells of a list are different, up to the return to the head. *)
LEMMA CellsOfList ==
    ASSUME NEW h \in Heads, NEW s \in Seq(Nodes), IsInjective(s)
    PROVE  /\ Len(s) \in Nat /\ DOMAIN s = 1 .. Len(s)
           /\ CellAt(h, s, 0) = h /\ CellAt(h, s, Len(s) + 1) = h
           /\ \A i \in 1 .. Len(s) : CellAt(h, s, i) = s[i] /\ s[i] \in Nodes /\ s[i] # h
           /\ \A i \in 0 .. Len(s) + 1 : CellAt(h, s, i) \in Cells
           /\ \A i, j \in 0 .. Len(s) : CellAt(h, s, i) = CellAt(h, s, j) => i = j
           /\ \A i, j \in 1 .. Len(s) + 1 : CellAt(h, s, i) = CellAt(h, s, j) => i = j
<1> DEFINE A(i) == CellAt(h, s, i)
           m == Len(s)
<1>1. m \in Nat /\ DOMAIN s = 1 .. m
  BY LenProperties
<1>2. A(0) = h /\ A(m + 1) = h
  BY <1>1 DEF CellAt
<1>3. \A i \in 1 .. m : A(i) = s[i] /\ s[i] \in Nodes /\ s[i] # h
  BY ElementOfSeq, NodesAssumption DEF CellAt
<1>4. \A i, j \in 1 .. m : A(i) = A(j) => i = j
  BY <1>1, <1>3 DEF IsInjective
<1> HIDE DEF A, m
<1>5. \A i \in 0 .. m : i = 0 \/ i \in 1 .. m
  BY <1>1
<1>6. \A i \in 1 .. m + 1 : i = m + 1 \/ i \in 1 .. m
  BY <1>1
<1>7. \A i \in 0 .. m + 1 : i = 0 \/ i = m + 1 \/ i \in 1 .. m
  BY <1>1
<1>8. \A i \in 0 .. m + 1 : A(i) \in Cells
  BY <1>2, <1>3, <1>7 DEF Cells
<1>9. \A i, j \in 0 .. m : A(i) = A(j) => i = j
  BY <1>2, <1>3, <1>4, <1>5
<1>10. \A i, j \in 1 .. m + 1 : A(i) = A(j) => i = j
  BY <1>2, <1>3, <1>4, <1>6
<1> QED  BY <1>1, <1>2, <1>3, <1>8, <1>9, <1>10 DEF A, m

(* No list is longer than there are nodes. *)
LEMMA ListFits ==
    ASSUME NEW s \in Seq(Nodes), IsInjective(s)
    PROVE  Cardinality(Nodes) \in Nat /\ Len(s) <= Cardinality(Nodes)
<1> DEFINE m == Len(s)
<1>1. m \in Nat /\ DOMAIN s = 1 .. m /\ s = [i \in 1 .. m |-> s[i]] /\ \A i \in 1 .. m : s[i] \in Nodes
  BY LenProperties, ElementOfSeq
<1>2. Range(s) \subseteq Nodes
  BY <1>1 DEF Range
<1>3. /\ IsFiniteSet(Range(s)) /\ Cardinality(Range(s)) <= Cardinality(Nodes)
      /\ Cardinality(Nodes) \in Nat
  BY <1>2, NodesAssumption, FS_Subset, FS_CardinalityType
<1>4. Cardinality(Range(s)) = m
  <2> DEFINE D == Range(s)
  <2>1. s \in [1 .. m -> D]
    BY <1>1 DEF Range
  <2>2. \A a, b \in 1 .. m : s[a] = s[b] => a = b
    BY <1>1 DEF IsInjective
  <2>3. \A t \in D : \E x \in 1 .. m : s[x] = t
    BY <1>1 DEF Range
  <2>4. s \in Bijection(1 .. m, D)
    BY <1>1, <2>1, <2>2, <2>3 DEF Bijection, Injection, Surjection, IsInjective
  <2>5. ExistsBijection(1 .. m, D)
    BY <2>4 DEF ExistsBijection
  <2> QED  BY <1>1, <2>5, FS_CountingElements
<1> QED  BY <1>3, <1>4

(* Following pointers step by step. *)
LEMMA ReachedIs ==
    ASSUME NEW nx \in [Cells -> Cells \cup {Null}], NEW h \in Heads
    PROVE  LET at == Reached(nx, h)
               len == Cardinality(Nodes) + 1 IN
           /\ at[0] = h
           /\ \A k \in 1 .. len : at[k] = IF at[k - 1] = Null THEN Null ELSE nx[at[k - 1]]
<1> DEFINE V == Cells \cup {Null}
           len == Cardinality(Nodes) + 1
           go(x) == IF x = Null THEN Null ELSE nx[x]
           r == [k \in Nat |-> [x \in V |-> go(x)]]
           f == Reached(nx, h)
<1>0. len \in Nat
  BY NodesAssumption, FS_CardinalityType
<1>1. r \in [Nat -> [V -> V]]
  <2>1. \A x \in V : go(x) \in V
    OBVIOUS
  <2> HIDE DEF go, V
  <2> QED  BY <2>1
<1> HIDE DEF len
<1>2. PICK g \in [0 .. len -> V] : History(g, len, h, r)
  <2>1. h \in V
    BY DEF Cells
  <2> HIDE DEF r, V
  <2>2. \A n \in Nat : \E g \in [0 .. n -> V] : History(g, n, h, r)
    BY <1>1, <2>1, HistoryExists, Zenon
  <2> QED  BY <1>0, <2>2
<1>3. g = [k \in 0 .. len |-> IF k = 0 THEN h ELSE go(g[k - 1])]
  <2> HIDE DEF go, V
  <2>1. \A k \in 0 .. len : k # 0 => r[k][g[k - 1]] = go(g[k - 1])
    BY <1>0
  <2> HIDE DEF r
  <2> QED  BY <1>2, <2>1 DEF History
<1>4. f = [k \in 0 .. len |-> IF k = 0 THEN h ELSE go(f[k - 1])]
  <2> DEFINE w == CHOOSE v : v = [k \in 0 .. len |-> IF k = 0 THEN h ELSE go(v[k - 1])]
  <2>1. \E v : v = [k \in 0 .. len |-> IF k = 0 THEN h ELSE go(v[k - 1])]
    BY <1>3
  <2>2. w = [k \in 0 .. len |-> IF k = 0 THEN h ELSE go(w[k - 1])]
    <3> HIDE DEF w, go
    <3> QED  BY <2>1 DEF w
  <2> QED  BY <2>2 DEF Reached, len
<1> HIDE DEF f
<1>5. \A j \in 0 .. len : f[j] = IF j = 0 THEN h ELSE go(f[j - 1])
  <2> TAKE j \in 0 .. len
  <2>1. f[j] = [k \in 0 .. len |-> IF k = 0 THEN h ELSE go(f[k - 1])][j]
    BY <1>4
  <2> HIDE DEF go
  <2> QED  BY <2>1
<1> HIDE DEF go
<1>6. f[0] = h /\ \A k \in 1 .. len : f[k] = go(f[k - 1])
  <2>1. 0 \in 0 .. len /\ \A k \in 1 .. len : k \in 0 .. len /\ k # 0
    BY <1>0
  <2> QED  BY <1>5, <2>1
<1> QED  BY <1>6 DEF f, len, go

(* A walk along the pointers of a list meets just its nodes. *)
LEMMA WalkIs ==
    ASSUME NEW nx \in [Cells -> Cells \cup {Null}], NEW h \in Heads,
           NEW s \in Seq(Nodes), IsInjective(s), LinkedForth(nx, h, s)
    PROVE  Walk(nx, h) = s
<1> DEFINE at == Reached(nx, h)
           A(i) == CellAt(h, s, i)
           m == Len(s)
           len == Cardinality(Nodes) + 1
           back == {k \in 1 .. len : at[k] = h}
<1>1. m \in Nat /\ len \in Nat /\ m + 1 <= len
  BY ListFits, CellsOfList
<1>2. /\ DOMAIN s = 1 .. m
      /\ A(0) = h /\ A(m + 1) = h
      /\ \A i \in 1 .. m : A(i) = s[i] /\ s[i] # h
      /\ \A i \in 0 .. m + 1 : A(i) \in Cells
  BY CellsOfList
<1>3. \A i \in 0 .. m : nx[A(i)] = A(i + 1)
  BY DEF LinkedForth
<1>4. at[0] = h /\ \A k \in 1 .. len : at[k] = IF at[k - 1] = Null THEN Null ELSE nx[at[k - 1]]
  BY ReachedIs
<1>5. Null \notin Cells
  BY NodesAssumption DEF Cells
<1>6. Walk(nx, h) = IF back = {} THEN <<>>
                    ELSE [k \in 1 .. (CHOOSE l \in back : \A n \in back : l <= n) - 1 |-> at[k]]
  BY DEF Walk
<1> HIDE DEF at, A, m, len
<1> DEFINE T == {k \in Nat : k <= m + 1 => at[k] = A(k)}
<1>7. 0 \in T
  BY <1>2, <1>4
<1>8. ASSUME NEW k \in Nat, k \in T
      PROVE  k + 1 \in T
  <2>1. CASE k + 1 <= m + 1
    <3>1. k \in 0 .. m /\ k + 1 \in 1 .. len /\ (k + 1) - 1 = k /\ k <= m + 1 /\ k \in 0 .. m + 1
      BY <1>1, <2>1
    <3>2. at[k] = A(k) /\ A(k) # Null
      BY <1>2, <1>5, <1>8, <3>1
    <3>3. at[k + 1] = A(k + 1)
      BY <1>3, <1>4, <3>1, <3>2
    <3> QED  BY <3>3
  <2>2. CASE ~(k + 1 <= m + 1)
    BY <2>2
  <2> QED  BY <2>1, <2>2
<1>9. \A k \in Nat : k \in T
  <2> HIDE DEF T
  <2> QED  BY <1>7, <1>8, SetInduction
<1>10. \A k \in 1 .. m : at[k] = s[k] /\ s[k] # h
  <2> TAKE k \in 1 .. m
  <2>1. k \in Nat /\ k <= m + 1 /\ k \in T
    BY <1>1, <1>9
  <2> QED  BY <1>2, <2>1
<1>11. at[m + 1] = h
  <2>1. m + 1 \in Nat /\ m + 1 \in T
    BY <1>1, <1>9
  <2> QED  BY <1>2, <2>1
<1>12. m + 1 \in back /\ \A k \in back : k \in Nat /\ m + 1 <= k
  <2>1. m + 1 \in 1 .. len
    BY <1>1
  <2>2. ASSUME NEW k \in back PROVE k \in Nat /\ m + 1 <= k
    <3>1. k \in 1 .. len /\ at[k] = h
      OBVIOUS
    <3>2. k \notin 1 .. m
      BY <1>10, <3>1
    <3> QED  BY <1>1, <3>1, <3>2
  <2> QED  BY <1>11, <2>1, <2>2
<1> HIDE DEF back
<1>13. (CHOOSE l \in back : \A n \in back : l <= n) = m + 1
  <2> DEFINE w == CHOOSE l \in back : \A n \in back : l <= n
  <2>1. \E l \in back : \A n \in back : l <= n
    BY <1>12
  <2>2. w \in back /\ \A n \in back : w <= n
    <3> HIDE DEF w
    <3> QED  BY <2>1 DEF w
  <2> HIDE DEF w
  <2>3. w <= m + 1 /\ m + 1 <= w /\ w \in Nat
    BY <1>12, <2>2
  <2>4. w = m + 1
    BY <1>1, <2>3
  <2> QED  BY <2>4 DEF w
<1>14. Walk(nx, h) = [k \in 1 .. m |-> at[k]]
  <2>1. (m + 1) - 1 = m /\ back # {}
    BY <1>1, <1>12
  <2> QED  BY <1>6, <1>13, <2>1
<1>15. s = [k \in 1 .. m |-> s[k]]
  BY <1>2
<1> QED  BY <1>10, <1>14, <1>15

(* The cells of two lists are different. *)
LEMMA CellsApart ==
    ASSUME NEW g \in Heads, NEW h \in Heads, g # h,
           NEW s \in Seq(Nodes), NEW t \in Seq(Nodes), Range(s) \cap Range(t) = {}
    PROVE  \A i, j : CellAt(g, s, i) # CellAt(h, t, j)
<1>1. /\ \A k \in 1 .. Len(s) : s[k] \in Nodes /\ s[k] \in Range(s)
      /\ \A k \in 1 .. Len(t) : t[k] \in Nodes /\ t[k] \in Range(t)
  BY LenProperties, ElementOfSeq DEF Range
<1> QED  BY <1>1, NodesAssumption DEF CellAt

(* Positions before and behind position i of a list of length m. *)
LEMMA PositionsOfGap ==
    ASSUME NEW m \in Nat, NEW i \in 0 .. m, NEW j \in 0 .. m + 1
    PROVE  /\ j \in 0 .. m + 2 /\ j + 1 \in 0 .. m + 2 /\ (j + 1) - 1 = j
           /\ j + 1 <= i => /\ j <= i /\ j \in 0 .. m /\ j # i /\ j + 1 # i + 1
                           /\ j + 1 \in 1 .. m + 1 /\ j + 1 \in 0 .. m + 1
           /\ j = i + 1 => ~(j <= i) /\ ~(j + 1 <= i) /\ j + 1 # i + 1
           /\ j >= i + 2 => /\ ~(j <= i) /\ j # i + 1 /\ ~(j + 1 <= i) /\ j + 1 # i + 1
                           /\ j - 1 \in 0 .. m /\ j - 1 \in 0 .. m + 1 /\ j - 1 # i
                           /\ j \in 1 .. m + 1 /\ (j - 1) + 1 = j
           /\ j + 1 <= i \/ j = i \/ j = i + 1 \/ j >= i + 2
OBVIOUS

(* Positions before and behind the node at position i of such a list. *)
LEMMA PositionsOfNode ==
    ASSUME NEW m \in Nat, NEW i \in 1 .. m, NEW j \in 0 .. m - 1
    PROVE  /\ j \in 0 .. m /\ j + 1 \in 0 .. m /\ j \in 0 .. m + 1
           /\ j + 1 < i => /\ j < i /\ j # i - 1 /\ j + 1 # i + 1
                          /\ j + 1 \in 1 .. m + 1 /\ j + 1 \in 0 .. m + 1
           /\ j + 1 = i => j < i /\ ~(j + 1 < i) /\ j = i - 1 /\ (j + 1) + 1 = i + 1
           /\ j + 1 > i => /\ ~(j < i) /\ ~(j + 1 < i)
                          /\ j + 1 # i - 1 /\ (j + 1) + 1 # i + 1
                          /\ (j + 1) + 1 \in 1 .. m + 1
                          /\ j + 1 \in 0 .. m + 1 /\ (j + 1) + 1 \in 0 .. m + 1
           /\ j + 1 < i \/ j + 1 = i \/ j + 1 > i
OBVIOUS

(***************************************************************************)
(* The four assignments of list_add_ put the node x behind position i of   *)
(* the list with the head h.                                               *)
(***************************************************************************)
LEMMA AddForms ==
    ASSUME NEW nx, NEW pv, NEW q, Forms(nx, pv, q), NEW h \in Heads,
           NEW i \in 0 .. Len(q[h]), NEW x \in Nodes, \A g \in Heads : x \notin Range(q[g]),
           NEW t \in Seq(Nodes), Len(t) = Len(q[h]) + 1,
           \A j \in 1 .. Len(t) :
             t[j] = IF j <= i THEN q[h][j] ELSE IF j = i + 1 THEN x ELSE q[h][j - 1],
           NEW b, b = CellAt(h, q[h], i)
    PROVE  Forms(list_add_(nx, pv, x, b).next, list_add_(nx, pv, x, b).prev,
                 [q EXCEPT ![h] = t])
<1> DEFINE s == q[h]
           m == Len(s)
           A(j) == CellAt(h, s, j)
           B(j) == CellAt(h, t, j)
           a == nx[b]
           N == [nx EXCEPT ![x] = a, ![b] = x]
           P == [pv EXCEPT ![x] = b, ![a] = x]
           r == [q EXCEPT ![h] = t]
<1>1. /\ nx \in [Cells -> Cells \cup {Null}] /\ pv \in [Cells -> Cells \cup {Null}]
      /\ q \in [Heads -> Seq(Nodes)]
      /\ \A g \in Heads : IsInjective(q[g]) /\ LinkedForth(nx, g, q[g]) /\ LinkedBack(pv, g, q[g])
      /\ \A f, g \in Heads : f # g => Range(q[f]) \cap Range(q[g]) = {}
  BY DEF Forms
<1>2. s \in Seq(Nodes) /\ IsInjective(s)
  BY <1>1
<1>3. /\ m \in Nat /\ DOMAIN s = 1 .. m /\ A(0) = h /\ A(m + 1) = h
      /\ \A j \in 1 .. m : A(j) = s[j] /\ s[j] \in Nodes
      /\ \A j \in 0 .. m + 1 : A(j) \in Cells
      /\ \A j, k \in 0 .. m : A(j) = A(k) => j = k
      /\ \A j, k \in 1 .. m + 1 : A(j) = A(k) => j = k
  <2> HIDE DEF s
  <2> QED  BY <1>2, CellsOfList
<1>4. \A j \in 0 .. m : nx[A(j)] = A(j + 1) /\ pv[A(j + 1)] = A(j)
  BY <1>1 DEF LinkedForth, LinkedBack
<1>5. x \in Cells /\ x \notin Heads /\ \A j \in 0 .. m + 1 : A(j) # x
  <2>1. x \in Cells /\ x # h /\ x \notin Heads
    BY NodesAssumption DEF Cells
  <2>2. \A j \in 1 .. m : s[j] # x
    BY <1>3 DEF Range
  <2> QED  BY <2>1, <2>2 DEF CellAt
<1>6. b = A(i) /\ a = A(i + 1) /\ i \in 0 .. m /\ i + 1 \in 1 .. m + 1
      /\ b \in Cells /\ a \in Cells /\ a # x /\ b # x
  <2>1. b = A(i) /\ i \in 0 .. m /\ i + 1 \in 0 .. m + 1 /\ i \in 0 .. m + 1 /\ i + 1 \in 1 .. m + 1
    BY <1>3
  <2>2. a = A(i + 1)
    BY <1>4, <2>1
  <2> HIDE DEF A, a
  <2> QED  BY <1>3, <1>5, <2>1, <2>2
<1>7. list_add_(nx, pv, x, b).next = N /\ list_add_(nx, pv, x, b).prev = P
  BY DEF list_add_
<1> HIDE DEF a
<1>8. /\ N \in [Cells -> Cells \cup {Null}] /\ P \in [Cells -> Cells \cup {Null}]
      /\ N[x] = a /\ N[b] = x /\ P[x] = b /\ P[a] = x
      /\ \A c \in Cells : c # x /\ c # b => N[c] = nx[c]
      /\ \A c \in Cells : c # x /\ c # a => P[c] = pv[c]
  BY <1>1, <1>5, <1>6 DEF Cells
<1>9. Len(t) = m + 1 /\ \A j \in 1 .. m + 1 :
             t[j] = IF j <= i THEN s[j] ELSE IF j = i + 1 THEN x ELSE s[j - 1]
  OBVIOUS
<1>10. \A j \in 0 .. m + 2 : B(j) = IF j <= i THEN A(j) ELSE IF j = i + 1 THEN x ELSE A(j - 1)
  <2> TAKE j \in 0 .. m + 2
  <2>1. CASE j = 0
    <3>1. B(j) = h /\ j <= i
      BY <1>6, <2>1 DEF CellAt
    <3> HIDE DEF A, B
    <3> QED  BY <1>3, <2>1, <3>1
  <2>2. CASE j = m + 2
    <3>1. j \notin 1 .. Len(t)
      BY <1>3, <1>9, <2>2
    <3>2. B(j) = h
      BY <3>1 DEF CellAt
    <3> HIDE DEF A, B
    <3>3. ~(j <= i) /\ j # i + 1 /\ j - 1 = m + 1
      BY <1>3, <1>6, <2>2
    <3> QED  BY <1>3, <3>2, <3>3
  <2>3. CASE j \in 1 .. m + 1
    <3>1. B(j) = t[j]
      BY <1>9, <2>3 DEF CellAt
    <3> HIDE DEF A, B
    <3>2. j <= i => j \in 1 .. m
      BY <1>3, <1>6, <2>3
    <3>3. ~(j <= i) /\ j # i + 1 => j - 1 \in 1 .. m
      BY <1>3, <1>6, <2>3
    <3> QED  BY <1>3, <1>9, <2>3, <3>1, <3>2, <3>3
  <2> QED  BY <1>3, <2>1, <2>2, <2>3
<1> HIDE DEF A, B, N, P, s, m
<1>11. \A j \in 0 .. m + 1 : N[B(j)] = B(j + 1) /\ P[B(j + 1)] = B(j)
  <2> TAKE j \in 0 .. m + 1
  <2>0. /\ j \in 0 .. m + 2 /\ j + 1 \in 0 .. m + 2 /\ (j + 1) - 1 = j
        /\ m \in Nat /\ i \in 0 .. m
        /\ j + 1 <= i \/ j = i \/ j = i + 1 \/ j >= i + 2
    BY <1>3, <1>6, PositionsOfGap
  <2>1. CASE j + 1 <= i
    <3>1. j <= i /\ j \in 0 .. m /\ j # i /\ j + 1 \in 1 .. m + 1 /\ j + 1 # i + 1
          /\ j \in 0 .. m + 1 /\ j + 1 \in 0 .. m + 1
      BY <2>0, <2>1, PositionsOfGap
    <3>2. B(j) = A(j) /\ B(j + 1) = A(j + 1)
      BY <1>10, <2>0, <2>1, <3>1
    <3>3. A(j) # b /\ A(j) # x /\ A(j) \in Cells /\ A(j + 1) # a /\ A(j + 1) # x /\ A(j + 1) \in Cells
      BY <1>3, <1>5, <1>6, <3>1
    <3> QED  BY <1>4, <1>8, <3>1, <3>2, <3>3
  <2>2. CASE j = i
    <3>1. B(j) = b /\ B(j + 1) = x
      BY <1>6, <1>10, <2>0, <2>2
    <3> QED  BY <1>8, <3>1
  <2>3. CASE j = i + 1
    <3>1. B(j) = x /\ B(j + 1) = a
      <4>1. ~(j <= i) /\ ~(j + 1 <= i) /\ j + 1 # i + 1
        BY <2>0, <2>3, PositionsOfGap
      <4> QED  BY <1>6, <1>10, <2>0, <2>3, <4>1
    <3> QED  BY <1>8, <3>1
  <2>4. CASE j >= i + 2
    <3>1. /\ ~(j <= i) /\ j # i + 1 /\ ~(j + 1 <= i) /\ j + 1 # i + 1
          /\ j - 1 \in 0 .. m /\ j - 1 # i /\ j \in 1 .. m + 1 /\ (j - 1) + 1 = j
          /\ j - 1 \in 0 .. m + 1
      BY <2>0, <2>4, PositionsOfGap
    <3>2. B(j) = A(j - 1) /\ B(j + 1) = A(j)
      BY <1>10, <2>0, <3>1
    <3>3. A(j - 1) # b /\ A(j - 1) # x /\ A(j - 1) \in Cells /\ A(j) # a /\ A(j) # x /\ A(j) \in Cells
      BY <1>3, <1>5, <1>6, <3>1
    <3>4. nx[A(j - 1)] = A(j) /\ pv[A(j)] = A(j - 1)
      BY <1>4, <3>1
    <3> QED  BY <1>8, <3>2, <3>3, <3>4
  <2> QED  BY <2>0, <2>1, <2>2, <2>3, <2>4
<1>12. LinkedForth(N, h, t) /\ LinkedBack(P, h, t)
  <2>1. \A j \in 0 .. Len(t) : N[B(j)] = B(j + 1) /\ P[B(j + 1)] = B(j)
    BY <1>9, <1>11
  <2> QED  BY <2>1 DEF LinkedForth, LinkedBack, B
<1>13. Range(t) = Range(s) \cup {x} /\ IsInjective(t)
  <2>1. DOMAIN t = 1 .. m + 1 /\ m \in Nat /\ i \in 0 .. m
    BY <1>3, <1>6, <1>9, LenProperties
  <2>2. ASSUME NEW j \in 1 .. m + 1
        PROVE  \/ t[j] = s[j] /\ j <= i /\ j \in 1 .. m
               \/ t[j] = x /\ j = i + 1
               \/ t[j] = s[j - 1] /\ j > i + 1 /\ j - 1 \in 1 .. m
    <3>1. CASE j <= i
      BY <1>9, <2>1, <3>1
    <3>2. CASE j = i + 1
      BY <1>9, <2>1, <3>2
    <3>3. CASE j > i + 1
      BY <1>9, <2>1, <3>3
    <3> QED  BY <2>1, <3>1, <3>2, <3>3
  <2>3. \A j \in 1 .. m : s[j] # x /\ \A k \in 1 .. m : s[j] = s[k] => j = k
    BY <1>2, <1>3, <1>5 DEF IsInjective, A, CellAt
  <2>4. ASSUME NEW j \in 1 .. m + 1, NEW k \in 1 .. m + 1, t[j] = t[k]
        PROVE  j = k
    <3> DEFINE from(p) == IF p <= i THEN p ELSE p - 1
    <3>1. ASSUME NEW p \in 1 .. m + 1, p # i + 1
          PROVE  from(p) \in 1 .. m /\ t[p] = s[from(p)]
      BY <2>1, <2>2, <3>1
    <3>2. \A p \in 1 .. m + 1 : t[p] = x <=> p = i + 1
      <4> TAKE p \in 1 .. m + 1
      <4>1. p = i + 1 => t[p] = x
        BY <2>1, <2>2
      <4> HIDE DEF from
      <4> QED  BY <2>3, <3>1, <4>1
    <3>3. CASE j = i + 1 \/ k = i + 1
      BY <2>4, <3>2, <3>3
    <3>4. CASE j # i + 1 /\ k # i + 1
      <4>1. from(j) \in 1 .. m /\ from(k) \in 1 .. m /\ s[from(j)] = s[from(k)]
        BY <2>4, <3>1, <3>4
      <4>2. from(j) = from(k)
        <5> HIDE DEF from
        <5> QED  BY <2>3, <4>1
      <4> QED  BY <2>1, <3>4, <4>2
    <3> QED  BY <3>3, <3>4
  <2>5. \A c \in Range(t) : c \in Range(s) \cup {x}
    <3> TAKE c \in Range(t)
    <3>1. PICK j \in 1 .. m + 1 : t[j] = c
      BY <2>1 DEF Range
    <3>2. \A p \in 1 .. m : s[p] \in Range(s)
      BY <1>3 DEF Range
    <3> QED  BY <2>2, <3>1, <3>2
  <2>6. \A c \in Range(s) \cup {x} : c \in Range(t)
    <3>1. i + 1 \in 1 .. m + 1 /\ t[i + 1] = x
      BY <1>9, <2>1
    <3>2. ASSUME NEW j \in 1 .. m
          PROVE  \E k \in 1 .. m + 1 : t[k] = s[j]
      <4>1. CASE j <= i
        BY <1>9, <2>1, <4>1
      <4>2. CASE j > i
        <5>1. j + 1 \in 1 .. m + 1 /\ ~(j + 1 <= i) /\ j + 1 # i + 1 /\ (j + 1) - 1 = j
          BY <2>1, <4>2
        <5> QED  BY <1>9, <5>1
      <4> QED  BY <2>1, <4>1, <4>2
    <3>3. x \in Range(t)
      BY <2>1, <3>1 DEF Range
    <3>4. ASSUME NEW c \in Range(s) PROVE c \in Range(t)
      <4>1. PICK j \in 1 .. m : c = s[j]
        BY <1>3 DEF Range
      <4>2. PICK k \in 1 .. m + 1 : t[k] = s[j]
        BY <3>2
      <4> QED  BY <2>1, <4>1, <4>2 DEF Range
    <3> QED  BY <3>3, <3>4
  <2> QED  BY <2>1, <2>4, <2>5, <2>6 DEF IsInjective
<1>14. r \in [Heads -> Seq(Nodes)] /\ r[h] = t /\ \A g \in Heads : g # h => r[g] = q[g]
  BY <1>1
<1> HIDE DEF r
<1>15. ASSUME NEW g \in Heads, g # h
       PROVE  LinkedForth(N, g, q[g]) /\ LinkedBack(P, g, q[g])
  <2> DEFINE C(j) == CellAt(g, q[g], j)
  <2>1. q[g] \in Seq(Nodes) /\ IsInjective(q[g]) /\ Range(q[g]) \cap Range(q[h]) = {}
    BY <1>1, <1>15
  <2>2. \A j \in 0 .. Len(q[g]) + 1 : C(j) \in Cells
    BY <2>1, CellsOfList
  <2>3. \A j : C(j) # a /\ C(j) # b
    <3>1. \A j, k : CellAt(g, q[g], j) # CellAt(h, s, k)
      <4>1. q[g] \in Seq(Nodes) /\ s \in Seq(Nodes) /\ Range(q[g]) \cap Range(s) = {}
        BY <1>2, <2>1 DEF s
      <4> HIDE DEF C
      <4> QED  BY <1>15, <4>1, CellsApart, Zenon
    <3>2. \A j, k : C(j) # A(k)
      BY <3>1 DEF A
    <3> HIDE DEF C
    <3> QED  BY <1>6, <3>2
  <2>4. \A j : C(j) # x
    <3>1. \A j \in 1 .. Len(q[g]) : q[g][j] \in Range(q[g])
      BY <2>1, LenProperties DEF Range
    <3> QED  BY <1>5, <3>1 DEF CellAt
  <2>5. \A j \in 0 .. Len(q[g]) : nx[C(j)] = C(j + 1) /\ pv[C(j + 1)] = C(j)
    BY <1>1 DEF LinkedForth, LinkedBack
  <2>6. \A j \in 0 .. Len(q[g]) : j \in 0 .. Len(q[g]) + 1 /\ j + 1 \in 0 .. Len(q[g]) + 1
    BY <2>1, LenProperties
  <2> HIDE DEF C
  <2>7. \A j \in 0 .. Len(q[g]) : N[C(j)] = C(j + 1) /\ P[C(j + 1)] = C(j)
    BY <1>8, <2>2, <2>3, <2>4, <2>5, <2>6
  <2> QED  BY <2>7 DEF LinkedForth, LinkedBack, C
<1>16. \A g \in Heads : IsInjective(r[g]) /\ LinkedForth(N, g, r[g]) /\ LinkedBack(P, g, r[g])
  BY <1>1, <1>12, <1>13, <1>14, <1>15
<1>17. \A f, g \in Heads : f # g => Range(r[f]) \cap Range(r[g]) = {}
  <2> TAKE f, g \in Heads
  <2>1. CASE f # h /\ g # h
    BY <1>1, <1>14, <2>1
  <2>2. CASE f = h /\ g # h
    BY <1>1, <1>13, <1>14, <2>2 DEF s
  <2>3. CASE f # h /\ g = h
    BY <1>1, <1>13, <1>14, <2>3 DEF s
  <2> QED  BY <2>1, <2>2, <2>3
<1>18. Forms(N, P, r)
  BY <1>8, <1>14, <1>16, <1>17 DEF Forms
<1> QED  BY <1>7, <1>18 DEF r

(***************************************************************************)
(* The two assignments of list_remove_ take the node x at position i out   *)
(* of the list with the head h.                                            *)
(***************************************************************************)
LEMMA RemoveForms ==
    ASSUME NEW nx, NEW pv, NEW q, Forms(nx, pv, q), NEW h \in Heads,
           NEW i \in 1 .. Len(q[h]), NEW x, x = q[h][i],
           NEW t \in Seq(Nodes), Len(t) = Len(q[h]) - 1,
           \A j \in 1 .. Len(t) : t[j] = IF j < i THEN q[h][j] ELSE q[h][j + 1]
    PROVE  Forms(list_remove_(nx, pv, x).next, list_remove_(nx, pv, x).prev,
                 [q EXCEPT ![h] = t])
<1> DEFINE s == q[h]
           m == Len(s)
           A(j) == CellAt(h, s, j)
           B(j) == CellAt(h, t, j)
           a == nx[x]
           b == pv[x]
           N == [nx EXCEPT ![b] = a]
           P == [pv EXCEPT ![a] = b]
           r == [q EXCEPT ![h] = t]
<1>1. /\ nx \in [Cells -> Cells \cup {Null}] /\ pv \in [Cells -> Cells \cup {Null}]
      /\ q \in [Heads -> Seq(Nodes)]
      /\ \A g \in Heads : IsInjective(q[g]) /\ LinkedForth(nx, g, q[g]) /\ LinkedBack(pv, g, q[g])
      /\ \A f, g \in Heads : f # g => Range(q[f]) \cap Range(q[g]) = {}
  BY DEF Forms
<1>2. s \in Seq(Nodes) /\ IsInjective(s)
  BY <1>1
<1>3. /\ m \in Nat /\ DOMAIN s = 1 .. m /\ A(0) = h /\ A(m + 1) = h
      /\ \A j \in 1 .. m : A(j) = s[j] /\ s[j] \in Nodes
      /\ \A j \in 0 .. m + 1 : A(j) \in Cells
      /\ \A j, k \in 0 .. m : A(j) = A(k) => j = k
      /\ \A j, k \in 1 .. m + 1 : A(j) = A(k) => j = k
  <2> HIDE DEF s
  <2> QED  BY <1>2, CellsOfList
<1>4. \A j \in 0 .. m : nx[A(j)] = A(j + 1) /\ pv[A(j + 1)] = A(j)
  BY <1>1 DEF LinkedForth, LinkedBack
<1>5. i \in 1 .. m /\ x = A(i) /\ x = s[i] /\ x \in Nodes
  BY <1>3
<1>6. b = A(i - 1) /\ a = A(i + 1) /\ i - 1 \in 0 .. m /\ i + 1 \in 1 .. m + 1
      /\ b \in Cells /\ a \in Cells
  <2>1. i \in 0 .. m /\ i - 1 \in 0 .. m /\ (i - 1) + 1 = i /\ i + 1 \in 1 .. m + 1
        /\ i - 1 \in 0 .. m + 1 /\ i + 1 \in 0 .. m + 1
    BY <1>3, <1>5
  <2> HIDE DEF A
  <2>2. nx[A(i)] = A(i + 1) /\ pv[A((i - 1) + 1)] = A(i - 1)
    BY <1>4, <2>1
  <2>3. a = A(i + 1) /\ b = A(i - 1)
    BY <1>5, <2>1, <2>2
  <2> QED  BY <1>3, <2>1, <2>3
<1>7. list_remove_(nx, pv, x).next = N /\ list_remove_(nx, pv, x).prev = P
  BY DEF list_remove_
<1> HIDE DEF a, b
<1>8. /\ N \in [Cells -> Cells \cup {Null}] /\ P \in [Cells -> Cells \cup {Null}]
      /\ N[b] = a /\ P[a] = b
      /\ \A c \in Cells : c # b => N[c] = nx[c]
      /\ \A c \in Cells : c # a => P[c] = pv[c]
  BY <1>1, <1>6
<1>9. Len(t) = m - 1 /\ \A j \in 1 .. m - 1 : t[j] = IF j < i THEN s[j] ELSE s[j + 1]
  OBVIOUS
<1>10. \A j \in 0 .. m : B(j) = IF j < i THEN A(j) ELSE A(j + 1)
  <2> TAKE j \in 0 .. m
  <2>1. CASE j = 0
    <3>1. B(j) = h /\ j < i
      BY <1>5, <2>1 DEF CellAt
    <3> HIDE DEF A, B
    <3> QED  BY <1>3, <2>1, <3>1
  <2>2. CASE j = m
    <3>1. j \notin 1 .. Len(t)
      BY <1>3, <1>9, <2>2
    <3>2. B(j) = h
      BY <3>1 DEF CellAt
    <3> HIDE DEF A, B
    <3>3. ~(j < i)
      BY <1>3, <1>5, <2>2
    <3> QED  BY <1>3, <2>2, <3>2, <3>3
  <2>3. CASE j \in 1 .. m - 1
    <3>1. B(j) = t[j]
      BY <1>9, <2>3 DEF CellAt
    <3> HIDE DEF A, B
    <3>2. j \in 1 .. m /\ j + 1 \in 1 .. m
      BY <1>3, <2>3
    <3> QED  BY <1>3, <1>9, <2>3, <3>1, <3>2
  <2> QED  BY <1>3, <2>1, <2>2, <2>3
<1> HIDE DEF A, B, N, P, s, m
<1>11. \A j \in 0 .. m - 1 : N[B(j)] = B(j + 1) /\ P[B(j + 1)] = B(j)
  <2> TAKE j \in 0 .. m - 1
  <2>0. /\ j \in 0 .. m /\ j + 1 \in 0 .. m /\ m \in Nat /\ i \in 1 .. m
        /\ j + 1 < i \/ j + 1 = i \/ j + 1 > i
    BY <1>3, <1>5, PositionsOfNode
  <2>1. CASE j + 1 < i
    <3>1. j < i /\ j # i - 1 /\ j + 1 # i + 1 /\ j + 1 \in 1 .. m + 1 /\ j + 1 \in 0 .. m + 1
          /\ j \in 0 .. m + 1
      BY <2>0, <2>1, PositionsOfNode
    <3>2. B(j) = A(j) /\ B(j + 1) = A(j + 1)
      BY <1>10, <2>0, <2>1, <3>1
    <3>3. A(j) # b /\ A(j) \in Cells /\ A(j + 1) # a /\ A(j + 1) \in Cells
      BY <1>3, <1>6, <2>0, <3>1
    <3> QED  BY <1>4, <1>8, <2>0, <3>2, <3>3
  <2>2. CASE j + 1 = i
    <3>1. j < i /\ ~(j + 1 < i) /\ j = i - 1 /\ (j + 1) + 1 = i + 1
      BY <2>0, <2>2, PositionsOfNode
    <3>2. B(j) = b /\ B(j + 1) = a
      BY <1>6, <1>10, <2>0, <3>1
    <3> QED  BY <1>8, <3>2
  <2>3. CASE j + 1 > i
    <3>1. ~(j < i) /\ ~(j + 1 < i) /\ j + 1 # i - 1 /\ (j + 1) + 1 # i + 1
          /\ (j + 1) + 1 \in 1 .. m + 1 /\ j + 1 \in 0 .. m + 1 /\ (j + 1) + 1 \in 0 .. m + 1
      BY <2>0, <2>3, PositionsOfNode
    <3>2. B(j) = A(j + 1) /\ B(j + 1) = A((j + 1) + 1)
      BY <1>10, <2>0, <3>1
    <3>3. A(j + 1) # b /\ A(j + 1) \in Cells /\ A((j + 1) + 1) # a /\ A((j + 1) + 1) \in Cells
      BY <1>3, <1>6, <2>0, <3>1
    <3> QED  BY <1>4, <1>8, <2>0, <3>2, <3>3
  <2> QED  BY <2>0, <2>1, <2>2, <2>3
<1>12. LinkedForth(N, h, t) /\ LinkedBack(P, h, t)
  <2>1. \A j \in 0 .. Len(t) : N[B(j)] = B(j + 1) /\ P[B(j + 1)] = B(j)
    BY <1>9, <1>11
  <2> QED  BY <2>1 DEF LinkedForth, LinkedBack, B
<1>13. Range(t) = Range(s) \ {x} /\ IsInjective(t)
  <2>1. /\ RemoveAt(s, i) \in Seq(Nodes) /\ Len(RemoveAt(s, i)) = m - 1
        /\ \A j \in 1 .. m - 1 : RemoveAt(s, i)[j] = IF j < i THEN s[j] ELSE s[j + 1]
    BY <1>2, <1>5, UnlinkPositions DEF m
  <2>2. t = RemoveAt(s, i)
    BY <1>9, <2>1, SeqEqual
  <2>3. IsInjective(RemoveAt(s, i)) /\ Range(RemoveAt(s, i)) = Range(s) \ {s[i]}
    <3>1. i \in 1 .. Len(s)
      BY <1>5 DEF m
    <3> QED  BY <1>2, <3>1, UnlinkLemma
  <2> QED  BY <1>5, <2>2, <2>3
<1>14. r \in [Heads -> Seq(Nodes)] /\ r[h] = t /\ \A g \in Heads : g # h => r[g] = q[g]
  BY <1>1
<1> HIDE DEF r
<1>15. ASSUME NEW g \in Heads, g # h
       PROVE  LinkedForth(N, g, q[g]) /\ LinkedBack(P, g, q[g])
  <2> DEFINE C(j) == CellAt(g, q[g], j)
  <2>1. q[g] \in Seq(Nodes) /\ IsInjective(q[g]) /\ Range(q[g]) \cap Range(q[h]) = {}
    BY <1>1, <1>15
  <2>2. \A j \in 0 .. Len(q[g]) + 1 : C(j) \in Cells
    BY <2>1, CellsOfList
  <2>3. \A j : C(j) # a /\ C(j) # b
    <3>1. \A j, k : CellAt(g, q[g], j) # CellAt(h, s, k)
      <4>1. q[g] \in Seq(Nodes) /\ s \in Seq(Nodes) /\ Range(q[g]) \cap Range(s) = {}
        BY <1>2, <2>1 DEF s
      <4> HIDE DEF C
      <4> QED  BY <1>15, <4>1, CellsApart, Zenon
    <3>2. \A j, k : C(j) # A(k)
      BY <3>1 DEF A
    <3> HIDE DEF C
    <3> QED  BY <1>6, <3>2
  <2>5. \A j \in 0 .. Len(q[g]) : nx[C(j)] = C(j + 1) /\ pv[C(j + 1)] = C(j)
    BY <1>1 DEF LinkedForth, LinkedBack
  <2>6. \A j \in 0 .. Len(q[g]) : j \in 0 .. Len(q[g]) + 1 /\ j + 1 \in 0 .. Len(q[g]) + 1
    BY <2>1, LenProperties
  <2> HIDE DEF C
  <2>7. \A j \in 0 .. Len(q[g]) : N[C(j)] = C(j + 1) /\ P[C(j + 1)] = C(j)
    BY <1>8, <2>2, <2>3, <2>5, <2>6
  <2> QED  BY <2>7 DEF LinkedForth, LinkedBack, C
<1>16. \A g \in Heads : IsInjective(r[g]) /\ LinkedForth(N, g, r[g]) /\ LinkedBack(P, g, r[g])
  BY <1>1, <1>12, <1>13, <1>14, <1>15
<1>17. \A f, g \in Heads : f # g => Range(r[f]) \cap Range(r[g]) = {}
  <2> TAKE f, g \in Heads
  <2>1. CASE f # h /\ g # h
    BY <1>1, <1>14, <2>1
  <2>2. CASE f = h /\ g # h
    BY <1>1, <1>13, <1>14, <2>2 DEF s
  <2>3. CASE f # h /\ g = h
    BY <1>1, <1>13, <1>14, <2>3 DEF s
  <2> QED  BY <2>1, <2>2, <2>3
<1>18. Forms(N, P, r)
  BY <1>8, <1>14, <1>16, <1>17 DEF Forms
<1> QED  BY <1>7, <1>18 DEF r

(***************************************************************************)
(* The inductive invariant of the lists: the pointers form the lists that  *)
(* are read off next, and cur is on a cell of the list the loop walks.     *)
(***************************************************************************)
AtCell(c, h, s) == c # Null => \E p \in 1 .. Len(s) + 1 : c = CellAt(h, s, p)

LInv ==
    /\ Forms(next, prev, contents)
    /\ sleep_queue \in Heads
    /\ AtCell(cur, sleep_queue, contents[sleep_queue])

(* The position of a cell in a list, as `position' has it of cur. *)
Place(c, h, s) ==
    IF c = Null THEN 0
    ELSE IF c = h THEN Len(s) + 1
    ELSE LET I == {i \in 1 .. Len(s) : s[i] = c} IN IF I # {} THEN Min(I) ELSE 0

(* Pointers that form the lists q show q to a walk. *)
LEMMA WalkedLists ==
    ASSUME NEW nx, NEW pv, NEW q, Forms(nx, pv, q)
    PROVE  [h \in Heads |-> Walk(nx, h)] = q
<1>1. \A h \in Heads : Walk(nx, h) = q[h]
  <2> TAKE h \in Heads
  <2>1. /\ nx \in [Cells -> Cells \cup {Null}] /\ q[h] \in Seq(Nodes)
        /\ IsInjective(q[h]) /\ LinkedForth(nx, h, q[h])
    BY DEF Forms
  <2> QED  BY <2>1, WalkIs
<1>2. q = [h \in Heads |-> q[h]]
  BY DEF Forms
<1> QED  BY <1>1, <1>2

(* The position of a cell. *)
LEMMA PlaceIs ==
    ASSUME NEW h \in Heads, NEW s \in Seq(Nodes), IsInjective(s),
           NEW p \in 1 .. Len(s) + 1, NEW c, c = CellAt(h, s, p)
    PROVE  Place(c, h, s) = p /\ c # Null
<1>1. /\ Len(s) \in Nat /\ DOMAIN s = 1 .. Len(s) /\ CellAt(h, s, Len(s) + 1) = h
      /\ \A i \in 1 .. Len(s) : CellAt(h, s, i) = s[i] /\ s[i] \in Nodes /\ s[i] # h
      /\ \A i \in 0 .. Len(s) + 1 : CellAt(h, s, i) \in Cells
  BY CellsOfList
<1>2. c # Null
  <2>1. p \in 0 .. Len(s) + 1
    BY <1>1
  <2> QED  BY <1>1, <2>1, NodesAssumption DEF Cells
<1>3. CASE p = Len(s) + 1
  BY <1>1, <1>2, <1>3 DEF Place
<1>4. CASE p \in 1 .. Len(s)
  <2> DEFINE I == {i \in 1 .. Len(s) : s[i] = c}
  <2>1. c = s[p] /\ c # h
    BY <1>1, <1>4
  <2>2. I = {p}
    BY <1>1, <1>4, <2>1 DEF IsInjective
  <2>3. Place(c, h, s) = IF I # {} THEN Min(I) ELSE 0
    BY <1>2, <2>1 DEF Place
  <2> HIDE DEF I
  <2>4. Min(I) = p
    <3>1. p \in I /\ p <= p /\ \A y \in I : y = p
      BY <1>1, <1>4, <2>2
    <3> QED  BY <3>1 DEF Min
  <2> QED  BY <1>2, <2>2, <2>3, <2>4
<1> QED  BY <1>1, <1>3, <1>4

(* Outside the loop the queues have no position. *)
LEMMA NoPlace == ASSUME NEW h, NEW s PROVE Place(Null, h, s) = 0
BY DEF Place

(* What the invariant says of the pointers at the ends of a list. *)
LEMMA EndsOfList ==
    ASSUME LInv, NEW h \in Heads
    PROVE  LET s == contents[h] IN
           /\ s \in Seq(Nodes) /\ IsInjective(s) /\ Len(s) \in Nat /\ DOMAIN s = 1 .. Len(s)
           /\ \A i \in 0 .. Len(s) : next[CellAt(h, s, i)] = CellAt(h, s, i + 1)
           /\ next[h] = CellAt(h, s, 1) /\ prev[h] = CellAt(h, s, Len(s))
           /\ list_is_empty(h) <=> s = <<>>
           /\ s # <<>> => /\ Len(s) \in 1 .. Len(s) /\ 1 \in 1 .. Len(s)
                          /\ next[h] = s[1] /\ next[h] = Head(s)
                          /\ prev[h] = s[Len(s)] /\ prev[h] = Last(s)
<1> DEFINE s == contents[h]
<1>1. s \in Seq(Nodes) /\ IsInjective(s) /\ LinkedForth(next, h, s) /\ LinkedBack(prev, h, s)
  BY DEF LInv, Forms
<1> HIDE DEF s
<1>2. /\ Len(s) \in Nat /\ DOMAIN s = 1 .. Len(s)
      /\ CellAt(h, s, 0) = h /\ CellAt(h, s, Len(s) + 1) = h
      /\ \A i \in 1 .. Len(s) : CellAt(h, s, i) = s[i] /\ s[i] # h
  BY <1>1, CellsOfList
<1>3. \A i \in 0 .. Len(s) : next[CellAt(h, s, i)] = CellAt(h, s, i + 1)
                             /\ prev[CellAt(h, s, i + 1)] = CellAt(h, s, i)
  BY <1>1 DEF LinkedForth, LinkedBack
<1>4. next[h] = CellAt(h, s, 1) /\ prev[h] = CellAt(h, s, Len(s))
  <2>1. 0 \in 0 .. Len(s) /\ Len(s) \in 0 .. Len(s) /\ 0 + 1 = 1
    BY <1>2
  <2> QED  BY <1>2, <1>3, <2>1
<1>5. CASE s = <<>>
  <2>1. Len(s) = 0
    BY <1>5
  <2>2. next[h] = h
    BY <1>2, <1>4, <2>1
  <2> QED  BY <1>1, <1>2, <1>3, <1>4, <1>5, <2>2 DEF s, list_is_empty
<1>6. CASE s # <<>>
  <2>1. Len(s) \in 1 .. Len(s) /\ 1 \in 1 .. Len(s)
    BY <1>1, <1>2, <1>6, EmptySeq
  <2>2. next[h] = s[1] /\ prev[h] = s[Len(s)] /\ next[h] # h
    BY <1>2, <1>4, <2>1
  <2>3. Head(s) = s[1] /\ Last(s) = s[Len(s)]
    BY DEF Last
  <2> QED  BY <1>1, <1>2, <1>3, <1>4, <1>6, <2>1, <2>2, <2>3 DEF s, list_is_empty
<1> QED  BY <1>5, <1>6

(* Steps whose pointers form the lists r. *)
LEMMA NewLists ==
    ASSUME NEW r, Forms(next', prev', r),
           sleep_queue' \in Heads, AtCell(cur', sleep_queue', r[sleep_queue'])
    PROVE  LInv' /\ contents' = r
<1>1. contents' = r
  <2>1. contents' = [h \in Heads |-> Walk(next', h)]
    BY DEF contents
  <2>2. [h \in Heads |-> Walk(next', h)] = r
    BY WalkedLists
  <2> QED  BY <2>1, <2>2
<1>2. (contents[sleep_queue])' = r[sleep_queue']
  BY <1>1
<1> QED  BY <1>1, <1>2 DEF LInv

(* The position the queues have is the place of cur. *)
LEMMA PositionIs ==
    /\ position = Place(cur, sleep_queue, contents[sleep_queue])
    /\ position' = Place(cur', sleep_queue', contents'[sleep_queue'])
BY DEF position, Place, SelectInSeq

-----------------------------------------------------------------------------
(* Calls outside the loop, whose pointers form the list t for list. *)
LEMMA Changed ==
    ASSUME LInv, cur = Null, UNCHANGED <<sleep_queue, cur>>,
           NEW list \in Heads, NEW t, Forms(next', prev', [contents EXCEPT ![list] = t])
    PROVE  LInv' /\ Q!Change(list, t) /\ contents' = [contents EXCEPT ![list] = t]
<1>1. LInv' /\ contents' = [contents EXCEPT ![list] = t]
  <2> DEFINE r == [contents EXCEPT ![list] = t]
  <2>1. sleep_queue' \in Heads /\ AtCell(cur', sleep_queue', r[sleep_queue'])
    BY DEF LInv, AtCell
  <2> HIDE DEF r
  <2>2. Forms(next', prev', r)
    BY DEF r
  <2>3. LInv' /\ contents' = r
    BY <2>1, <2>2, NewLists
  <2> QED  BY <2>3 DEF r
<1>2. position' = position
  BY PositionIs, NoPlace
<1> QED  BY <1>1, <1>2 DEF Q!Change

(* Calls outside the loop that leave the pointers alone. *)
LEMMA Unchanged ==
    ASSUME LInv, cur = Null, UNCHANGED <<next, prev, sleep_queue, cur>>
    PROVE  LInv' /\ UNCHANGED <<contents, sleep_queue, position>>
<1>1. contents' = contents
  BY DEF contents
<1>2. LInv'
  <2>1. (contents[sleep_queue])' = contents[sleep_queue]
    BY <1>1
  <2> QED  BY <1>1, <2>1 DEF LInv
<1>3. position' = position
  BY PositionIs, NoPlace
<1> QED  BY <1>1, <1>2, <1>3

(* A node in no list, as the walks show it. *)
LEMMA InNoListMeans ==
    ASSUME NEW n
    PROVE  InNoList(n) <=> \A h \in Heads : n \notin Range(contents[h])
BY DEF InNoList, contents

(* list_add_first, whose position to add behind is the head itself. *)
LEMMA AddFirstStep ==
    ASSUME LInv, cur = Null, UNCHANGED <<sleep_queue, cur>>,
           NEW list \in Heads, NEW new \in Nodes, list_add_first(list, new)
    PROVE  LInv' /\ Q!AddFirst(list, new)
<1> DEFINE s == contents[list]
           t == <<new>> \o s
<1>1. s \in Seq(Nodes) /\ Len(s) \in Nat /\ IsInjective(s)
  BY EndsOfList
<1>2. /\ t \in Seq(Nodes) /\ Len(t) = Len(s) + 1
      /\ \A j \in 1 .. Len(t) :
            t[j] = IF j <= 0 THEN s[j] ELSE IF j = 0 + 1 THEN new ELSE s[j - 1]
  <2> HIDE DEF s
  <2>1. <<new>> \in Seq(Nodes) /\ Len(<<new>>) = 1 /\ <<new>>[1] = new
    OBVIOUS
  <2>2. /\ t \in Seq(Nodes) /\ Len(t) = 1 + Len(s)
        /\ \A j \in 1 .. 1 + Len(s) : t[j] = IF j <= 1 THEN <<new>>[j] ELSE s[j - 1]
    BY <1>1, <2>1, ConcatProperties
  <2> HIDE DEF t
  <2> QED  BY <1>1, <2>1, <2>2
<1>3. list = CellAt(list, s, 0)
  <2> HIDE DEF s
  <2> QED  BY <1>1, CellsOfList
<1>4. Forms(next, prev, contents) /\ \A h \in Heads : new \notin Range(contents[h])
  BY InNoListMeans DEF LInv, list_add_first
<1> HIDE DEF t
<1>5. Forms(list_add_(next, prev, new, list).next, list_add_(next, prev, new, list).prev,
            [contents EXCEPT ![list] = t])
  <2>1. 0 \in 0 .. Len(contents[list])
    BY <1>1
  <2> QED  BY <1>1, <1>2, <1>3, <1>4, <2>1, AddForms
<1>6. Forms(next', prev', [contents EXCEPT ![list] = t])
  BY <1>5 DEF list_add_first, linked
<1>7. LInv' /\ Q!Change(list, t)
  BY <1>6, Changed
<1>8. new \in Q!Free /\ taken' = taken
  BY <1>4 DEF Q!Free, Q!Range, Range, list_add_first
<1> QED  BY <1>7, <1>8 DEF Q!AddFirst, t

(* list_add_last finds the end of the list in prev of the head. *)
LEMMA AddLastStep ==
    ASSUME LInv, cur = Null, UNCHANGED <<sleep_queue, cur>>,
           NEW list \in Heads, NEW new \in Nodes, list_add_last(list, new)
    PROVE  LInv' /\ Q!AddLast(list, new)
<1> DEFINE s == contents[list]
           t == Append(s, new)
           i == Len(s)
<1>1. /\ s \in Seq(Nodes) /\ i \in Nat /\ i \in 0 .. Len(s) /\ IsInjective(s)
      /\ prev[list] = CellAt(list, s, i)
  BY EndsOfList
<1>2. /\ t \in Seq(Nodes) /\ Len(t) = Len(s) + 1
      /\ \A j \in 1 .. Len(t) :
            t[j] = IF j <= i THEN s[j] ELSE IF j = i + 1 THEN new ELSE s[j - 1]
  <2> HIDE DEF s
  <2>1. /\ t \in Seq(Nodes) /\ Len(t) = Len(s) + 1
        /\ \A j \in 1 .. Len(s) : t[j] = s[j]
        /\ t[Len(s) + 1] = new
    BY <1>1, AppendProperties
  <2> HIDE DEF t
  <2> QED  BY <1>1, <2>1
<1>3. Forms(next, prev, contents) /\ \A h \in Heads : new \notin Range(contents[h])
  BY InNoListMeans DEF LInv, list_add_last
<1> HIDE DEF t, i
<1>4. Forms(list_add_(next, prev, new, prev[list]).next,
            list_add_(next, prev, new, prev[list]).prev, [contents EXCEPT ![list] = t])
  BY <1>1, <1>2, <1>3, AddForms
<1>5. Forms(next', prev', [contents EXCEPT ![list] = t])
  BY <1>4 DEF list_add_last, linked
<1>6. LInv' /\ Q!Change(list, t)
  BY <1>5, Changed
<1>7. new \in Q!Free /\ taken' = taken
  BY <1>3 DEF Q!Free, Q!Range, Range, list_add_last
<1> QED  BY <1>6, <1>7 DEF Q!AddLast, t

(* Unlinking the node at position i of a list, outside the loop. *)
LEMMA UnlinkStep ==
    ASSUME LInv, cur = Null, UNCHANGED <<sleep_queue, cur>>,
           NEW list \in Heads, NEW i \in 1 .. Len(contents[list]),
           linked(list_remove_(next, prev, contents[list][i])),
           NEW t \in Seq(Nodes), Len(t) = Len(contents[list]) - 1,
           \A j \in 1 .. Len(t) :
             t[j] = IF j < i THEN contents[list][j] ELSE contents[list][j + 1]
    PROVE  LInv' /\ Q!Change(list, t)
<1> DEFINE x == contents[list][i]
<1>1. Forms(next, prev, contents)
  BY DEF LInv
<1>2. Forms(list_remove_(next, prev, x).next, list_remove_(next, prev, x).prev,
            [contents EXCEPT ![list] = t])
  BY <1>1, RemoveForms
<1>3. Forms(next', prev', [contents EXCEPT ![list] = t])
  BY <1>2 DEF linked
<1> QED  BY <1>3, Changed

(* list_remove_first takes the node at the first position, or nothing. *)
LEMMA TakeFirstStep ==
    ASSUME LInv, cur = Null, UNCHANGED <<sleep_queue, cur>>,
           NEW list \in Heads, list_remove_first(list)
    PROVE  LInv' /\ Q!Take(list, Head, Tail)
<1> DEFINE s == contents[list]
<1>1. s \in Seq(Nodes) /\ Len(s) \in Nat /\ (list_is_empty(list) <=> s = <<>>)
      /\ (s # <<>> => 1 \in 1 .. Len(s) /\ next[list] = s[1] /\ next[list] = Head(s))
  BY EndsOfList
<1>2. CASE s = <<>>
  <2>1. taken' = Null /\ UNCHANGED <<next, prev>>
    BY <1>1, <1>2 DEF list_remove_first, take
  <2>2. LInv' /\ UNCHANGED <<contents, sleep_queue, position>>
    BY <2>1, Unchanged
  <2> QED  BY <1>2, <2>1, <2>2 DEF Q!Take
<1>3. CASE s # <<>>
  <2>1. /\ taken' = Head(s)
        /\ linked(list_remove_(next, prev, s[1]))
    BY <1>1, <1>3 DEF list_remove_first, take
  <2>2. /\ Tail(s) \in Seq(Nodes) /\ Len(Tail(s)) = Len(s) - 1
        /\ \A j \in 1 .. Len(Tail(s)) : Tail(s)[j] = IF j < 1 THEN s[j] ELSE s[j + 1]
    <3> HIDE DEF s
    <3>1. /\ Tail(s) \in Seq(Nodes) /\ Len(Tail(s)) = Len(s) - 1
          /\ \A j \in 1 .. Len(Tail(s)) : Tail(s)[j] = s[j + 1]
      BY <1>1, <1>3, HeadTailProperties
    <3> QED  BY <3>1
  <2>3. LInv' /\ Q!Change(list, Tail(s))
    <3>1. 1 \in 1 .. Len(contents[list])
      BY <1>1, <1>3
    <3> QED  BY <2>1, <2>2, <3>1, UnlinkStep
  <2> QED  BY <1>3, <2>1, <2>3 DEF Q!Take
<1> QED  BY <1>2, <1>3

(* list_remove_last takes the node at the last position, or nothing. *)
LEMMA TakeLastStep ==
    ASSUME LInv, cur = Null, UNCHANGED <<sleep_queue, cur>>,
           NEW list \in Heads, list_remove_last(list)
    PROVE  LInv' /\ Q!Take(list, Q!Last, Q!Front)
<1> DEFINE s == contents[list]
           i == Len(s)
<1>1. s \in Seq(Nodes) /\ i \in Nat /\ (list_is_empty(list) <=> s = <<>>)
      /\ (s # <<>> => i \in 1 .. Len(s) /\ prev[list] = s[i] /\ prev[list] = Last(s))
  BY EndsOfList
<1>2. CASE s = <<>>
  <2>1. taken' = Null /\ UNCHANGED <<next, prev>>
    BY <1>1, <1>2 DEF list_remove_last, take
  <2>2. LInv' /\ UNCHANGED <<contents, sleep_queue, position>>
    BY <2>1, Unchanged
  <2> QED  BY <1>2, <2>1, <2>2 DEF Q!Take
<1>3. CASE s # <<>>
  <2> DEFINE t == Front(s)
  <2>1. taken' = Last(s) /\ linked(list_remove_(next, prev, s[i]))
    BY <1>1, <1>3 DEF list_remove_last, take
  <2>2. /\ t \in Seq(Nodes) /\ Len(t) = Len(s) - 1
        /\ \A j \in 1 .. Len(t) : t[j] = IF j < i THEN s[j] ELSE s[j + 1]
    <3> HIDE DEF s
    <3> DEFINE l == Len(s) - 1
    <3>1. t = SubSeq(s, 1, l) /\ l \in Int /\ l >= 0 /\ \A j \in 1 .. l : s[j] \in Nodes
      BY <1>1, <1>3, ElementOfSeq DEF Front
    <3>2. l = i - 1
      OBVIOUS
    <3> HIDE DEF l, t
    <3>3. /\ SubSeq(s, 1, l) \in Seq(Nodes)
          /\ Len(SubSeq(s, 1, l)) = IF 1 <= l THEN l - 1 + 1 ELSE 0
          /\ \A j \in 1 .. l - 1 + 1 : SubSeq(s, 1, l)[j] = s[1 + j - 1]
      BY <3>1, SubSeqProperties
    <3>4. t \in Seq(Nodes) /\ Len(t) = l /\ \A j \in 1 .. l : t[j] = s[j]
      BY <3>1, <3>3
    <3> QED  BY <1>1, <3>1, <3>2, <3>4
  <2> HIDE DEF t
  <2>3. LInv' /\ Q!Change(list, t)
    <3>1. i \in 1 .. Len(contents[list])
      BY <1>1, <1>3
    <3> HIDE DEF i
    <3> QED  BY <2>1, <2>2, <3>1, UnlinkStep
  <2>4. Q!Last(contents[list]) = Last(s) /\ Q!Front(contents[list]) = t
    BY DEF Q!Last, Q!Front, Last, Front, t
  <2> QED  BY <1>3, <2>1, <2>3, <2>4 DEF Q!Take
<1> QED  BY <1>2, <1>3

(* list_remove unlinks the node where it stands, or changes nothing. *)
LEMMA DeleteStep ==
    ASSUME LInv, cur = Null, UNCHANGED <<sleep_queue, cur>>,
           NEW list \in Heads, NEW rem \in Nodes, list_remove(list, rem)
    PROVE  LInv' /\ Q!Delete(list, rem)
<1> DEFINE s == contents[list]
<1>1. s \in Seq(Nodes) /\ Len(s) \in Nat /\ DOMAIN s = 1 .. Len(s) /\ s = Walk(next, list)
  BY EndsOfList DEF contents
<1>2. CASE rem \notin Range(s)
  <2>1. taken' = Null /\ UNCHANGED <<next, prev>>
    BY <1>1, <1>2 DEF list_remove
  <2>2. LInv' /\ UNCHANGED <<contents, sleep_queue, position>>
    BY <2>1, Unchanged
  <2> QED  BY <1>2, <2>1, <2>2 DEF Q!Delete, Q!Range, Range
<1>3. CASE rem \in Range(s)
  <2>1. taken' = rem /\ linked(list_remove_(next, prev, rem))
    BY <1>1, <1>3 DEF list_remove
  <2>2. PICK i \in 1 .. Len(s) : s[i] = rem
    BY <1>1, <1>3 DEF Range
  <2> DEFINE t == RemoveAt(s, i)
  <2>3. /\ t \in Seq(Nodes) /\ Len(t) = Len(s) - 1
        /\ \A j \in 1 .. Len(t) : t[j] = IF j < i THEN s[j] ELSE s[j + 1]
    <3> HIDE DEF s
    <3> QED  BY <1>1, UnlinkPositions
  <2> HIDE DEF t
  <2>4. LInv' /\ Q!Change(list, t)
    BY <2>1, <2>2, <2>3, UnlinkStep
  <2>5. Q!RemoveAt(contents[list], i) = t
    BY DEF Q!RemoveAt, RemoveAt, t
  <2> QED  BY <1>1, <2>1, <2>2, <2>4, <2>5 DEF Q!Delete
<1> QED  BY <1>2, <1>3

(* list_get_first changes nothing. *)
LEMMA LookFirstStep ==
    ASSUME LInv, cur = Null, UNCHANGED <<sleep_queue, cur>>,
           NEW list \in Heads, list_get_first(list)
    PROVE  LInv' /\ Q!Look(list, Head)
<1>1. taken' = IF contents[list] = <<>> THEN Null ELSE Head(contents[list])
  BY EndsOfList DEF list_get_first
<1>2. LInv' /\ UNCHANGED <<contents, sleep_queue, position>>
  BY Unchanged DEF list_get_first
<1> QED  BY <1>1, <1>2 DEF Q!Look

(* list_get_last changes nothing. *)
LEMMA LookLastStep ==
    ASSUME LInv, cur = Null, UNCHANGED <<sleep_queue, cur>>,
           NEW list \in Heads, list_get_last(list)
    PROVE  LInv' /\ Q!Look(list, Q!Last)
<1>1. taken' = IF contents[list] = <<>> THEN Null ELSE Last(contents[list])
  BY EndsOfList DEF list_get_last
<1>2. LInv' /\ UNCHANGED <<contents, sleep_queue, position>>
  BY Unchanged DEF list_get_last
<1>3. Q!Last(contents[list]) = Last(contents[list])
  BY DEF Q!Last, Last
<1> QED  BY <1>1, <1>2, <1>3 DEF Q!Look

(* The loop starts at the first node, or at the head of an empty list. *)
LEMMA BeginScanStep ==
    ASSUME LInv, cur = Null, NEW list \in Heads, begin_scan(list)
    PROVE  LInv' /\ Q!BeginScan(list)
<1> DEFINE s == contents[list]
<1>1. s \in Seq(Nodes) /\ IsInjective(s) /\ 1 \in 1 .. Len(s) + 1 /\ next[list] = CellAt(list, s, 1)
  BY EndsOfList
<1>2. sleep_queue' = list /\ cur' = CellAt(list, s, 1) /\ UNCHANGED <<next, prev, taken>>
  BY <1>1 DEF begin_scan
<1>3. Forms(next', prev', contents)
  BY <1>2 DEF LInv
<1> HIDE DEF s
<1>4. AtCell(cur', list, s)
  BY <1>1, <1>2 DEF AtCell
<1>5. LInv' /\ contents' = contents
  BY <1>2, <1>3, <1>4, NewLists DEF s
<1>6. Place(cur', list, s) = 1
  BY <1>1, <1>2, PlaceIs
<1>7. position' = 1
  <2>1. contents'[sleep_queue'] = s
    BY <1>2, <1>5 DEF s
  <2> QED  BY <1>2, <1>6, <2>1, PositionIs
<1> QED  BY <1>2, <1>5, <1>7 DEF Q!BeginScan

(* In the loop, cur is on the cell at the position of the queues' scan. *)
LEMMA InTheLoop ==
    ASSUME LInv, cur # Null
    PROVE  LET s == contents[sleep_queue] IN
           /\ sleep_queue \in Heads /\ s \in Seq(Nodes) /\ IsInjective(s)
           /\ Len(s) \in Nat /\ position \in 1 .. Len(s) + 1
           /\ cur = CellAt(sleep_queue, s, position)
           /\ cur = sleep_queue <=> position = Len(s) + 1
           /\ position \in 1 .. Len(s) =>
                 cur = s[position] /\ next[cur] = CellAt(sleep_queue, s, position + 1)
<1> DEFINE h == sleep_queue
           s == contents[h]
<1>1. /\ h \in Heads /\ s \in Seq(Nodes) /\ IsInjective(s) /\ Len(s) \in Nat
      /\ \A i \in 0 .. Len(s) : next[CellAt(h, s, i)] = CellAt(h, s, i + 1)
  BY EndsOfList DEF LInv
<1>2. PICK p \in 1 .. Len(s) + 1 : cur = CellAt(h, s, p)
  BY DEF LInv, AtCell
<1>3. position = Place(cur, h, s)
  BY PositionIs
<1> HIDE DEF h, s
<1>4. position = p
  BY <1>1, <1>2, <1>3, PlaceIs
<1>5. /\ CellAt(h, s, Len(s) + 1) = h
      /\ \A i \in 1 .. Len(s) : CellAt(h, s, i) = s[i] /\ s[i] # h
  BY <1>1, CellsOfList
<1>6. cur = h <=> p = Len(s) + 1
  BY <1>1, <1>2, <1>5
<1>7. p \in 1 .. Len(s) => cur = s[p] /\ next[cur] = CellAt(h, s, p + 1)
  BY <1>1, <1>2, <1>5
<1> QED  BY <1>1, <1>2, <1>4, <1>6, <1>7 DEF h, s

(* The loop ends when cur is back at the head, behind the last position. *)
LEMMA EndScanStep ==
    ASSUME LInv, end_scan
    PROVE  LInv' /\ Q!EndScan
<1>1. cur = sleep_queue /\ cur' = Null /\ UNCHANGED <<next, prev, sleep_queue, taken>>
  BY DEF end_scan
<1>2. cur # Null
  BY <1>1, NodesAssumption DEF LInv
<1>3. position = Len(contents[sleep_queue]) + 1
  BY <1>1, <1>2, InTheLoop
<1>4. LInv' /\ contents' = contents
  <2>1. Forms(next', prev', contents) /\ sleep_queue' \in Heads
    BY <1>1 DEF LInv
  <2>2. AtCell(cur', sleep_queue', contents[sleep_queue'])
    BY <1>1 DEF AtCell
  <2> QED  BY <2>1, <2>2, NewLists
<1>5. position' = 0
  BY <1>1, PositionIs, NoPlace
<1> QED  BY <1>1, <1>3, <1>4, <1>5 DEF Q!EndScan

(* The body leaves the node on the list. *)
LEMMA KeepStep ==
    ASSUME LInv, cur \notin {Null, sleep_queue}, cur' = next[cur],
           UNCHANGED <<next, prev, sleep_queue, taken>>
    PROVE  LInv' /\ Q!KeepNode
<1> DEFINE h == sleep_queue
           s == contents[h]
           p == position
<1>1. /\ h \in Heads /\ s \in Seq(Nodes) /\ IsInjective(s) /\ Len(s) \in Nat
      /\ p \in 1 .. Len(s) /\ cur' = CellAt(h, s, p + 1)
  <2>1. /\ h \in Heads /\ s \in Seq(Nodes) /\ IsInjective(s) /\ Len(s) \in Nat
        /\ p \in 1 .. Len(s) + 1 /\ p # Len(s) + 1
        /\ p \in 1 .. Len(s) => next[cur] = CellAt(h, s, p + 1)
    BY InTheLoop
  <2> HIDE DEF h, s, p
  <2> QED  BY <2>1
<1>2. Forms(next', prev', contents) /\ sleep_queue' = h
  BY DEF LInv
<1> HIDE DEF s, p
<1>3. p + 1 \in 1 .. Len(s) + 1
  BY <1>1
<1>4. AtCell(cur', h, s)
  BY <1>1, <1>3 DEF AtCell
<1>5. LInv' /\ contents' = contents
  BY <1>1, <1>2, <1>4, NewLists DEF s
<1>6. Place(cur', h, s) = p + 1
  BY <1>1, <1>3, PlaceIs
<1>7. position' = p + 1
  <2>1. contents'[sleep_queue'] = s
    BY <1>2, <1>5 DEF s
  <2> QED  BY <1>2, <1>6, <2>1, PositionIs
<1> QED  BY <1>1, <1>5, <1>7 DEF Q!KeepNode, Q!InScan, s, p

(* The body moves the node to the end of another list. *)
LEMMA MoveStep ==
    ASSUME LInv, cur \notin {Null, sleep_queue}, cur' = next[cur],
           NEW run_queue \in Heads, run_queue # sleep_queue,
           LET l == list_remove_(next, prev, cur)
           IN  linked(list_add_(l.next, l.prev, cur, l.prev[run_queue])),
           UNCHANGED <<sleep_queue, taken>>
    PROVE  LInv' /\ Q!MoveNode(run_queue)
<1> DEFINE h == sleep_queue
           s == contents[h]
           p == position
           l == list_remove_(next, prev, cur)
           t == RemoveAt(s, p)
           q1 == [contents EXCEPT ![h] = t]
           u == contents[run_queue]
           a == Append(u, cur)
           r == [q1 EXCEPT ![run_queue] = a]
<1>1. /\ h \in Heads /\ s \in Seq(Nodes) /\ IsInjective(s) /\ Len(s) \in Nat
      /\ p \in 1 .. Len(s) /\ cur = s[p] /\ cur' = CellAt(h, s, p + 1)
  <2>1. /\ h \in Heads /\ s \in Seq(Nodes) /\ IsInjective(s) /\ Len(s) \in Nat
        /\ p \in 1 .. Len(s) + 1 /\ p # Len(s) + 1
        /\ p \in 1 .. Len(s) => cur = s[p] /\ next[cur] = CellAt(h, s, p + 1)
    BY InTheLoop
  <2> HIDE DEF h, s, p
  <2> QED  BY <2>1
<1>2. Forms(next, prev, contents) /\ contents \in [Heads -> Seq(Nodes)]
  BY DEF LInv, Forms
<1>3. /\ t \in Seq(Nodes) /\ Len(t) = Len(s) - 1
      /\ \A j \in 1 .. Len(s) - 1 : t[j] = IF j < p THEN s[j] ELSE s[j + 1]
  <2> HIDE DEF s, p
  <2> QED  BY <1>1, UnlinkPositions
<1> HIDE DEF t, p
<1>4. /\ Forms(l.next, l.prev, q1) /\ cur \in Nodes
      /\ \A g \in Heads : cur \notin Range(q1[g])
  <2>1. p \in 1 .. Len(contents[h]) /\ cur = contents[h][p]
    BY <1>1
  <2>2. \A j \in 1 .. Len(t) : t[j] = IF j < p THEN contents[h][j] ELSE contents[h][j + 1]
    BY <1>3
  <2>3. Len(t) = Len(contents[h]) - 1
    BY <1>3
  <2> HIDE DEF h, s
  <2> DEFINE x == contents[h][p]
  <2>4. h \in Heads /\ t \in Seq(Nodes) /\ Forms(next, prev, contents)
        /\ p \in 1 .. Len(contents[h])
    BY <1>1, <1>2, <1>3, <2>1
  <2>6. Forms(list_remove_(next, prev, x).next, list_remove_(next, prev, x).prev, q1)
    BY <2>2, <2>3, <2>4, RemoveForms
  <2>7. x \in Nodes /\ Range(t) = Range(contents[h]) \ {x}
    <3>1. contents[h] \in Seq(Nodes) /\ IsInjective(contents[h])
      BY <1>2, <2>4 DEF Forms
    <3> QED  BY <2>4, <3>1, UnlinkLemma DEF t, s
  <2>8. ASSUME NEW g \in Heads PROVE x \notin Range(q1[g])
    <3>1. x \in Range(contents[h])
      BY <1>1 DEF Range, s
    <3>2. g # h => Range(contents[g]) \cap Range(contents[h]) = {}
      BY <2>4 DEF Forms
    <3> QED  BY <1>2, <2>4, <2>7, <3>1, <3>2
  <2>5. cur = x
    BY <2>1
  <2> HIDE DEF x
  <2> QED  BY <2>5, <2>6, <2>7, <2>8
<1>5. q1[run_queue] = u /\ q1[h] = t /\ q1 \in [Heads -> Seq(Nodes)] /\ u \in Seq(Nodes)
      /\ IsInjective(u) /\ Len(u) \in Nat
  <2>1. u \in Seq(Nodes) /\ IsInjective(u) /\ Len(u) \in Nat
    BY EndsOfList
  <2> QED  BY <1>1, <1>2, <1>3, <2>1
<1> HIDE DEF l, q1, u, s
<1>6. l.prev[run_queue] = CellAt(run_queue, u, Len(u))
  <2>1. LinkedBack(l.prev, run_queue, u)
    BY <1>4, <1>5 DEF Forms
  <2>2. Len(u) \in 0 .. Len(u) /\ CellAt(run_queue, u, Len(u) + 1) = run_queue
    BY <1>5, CellsOfList
  <2> QED  BY <2>1, <2>2 DEF LinkedBack
<1>7. /\ a \in Seq(Nodes) /\ Len(a) = Len(u) + 1
      /\ \A j \in 1 .. Len(a) :
           a[j] = IF j <= Len(u) THEN u[j] ELSE IF j = Len(u) + 1 THEN cur ELSE u[j - 1]
  <2>1. /\ a \in Seq(Nodes) /\ Len(a) = Len(u) + 1
        /\ \A j \in 1 .. Len(u) : a[j] = u[j]
        /\ a[Len(u) + 1] = cur
    BY <1>4, <1>5, AppendProperties
  <2> HIDE DEF a
  <2> QED  BY <1>5, <2>1
<1> HIDE DEF a
<1>8. Forms(list_add_(l.next, l.prev, cur, l.prev[run_queue]).next,
            list_add_(l.next, l.prev, cur, l.prev[run_queue]).prev, r)
  <2> DEFINE v == q1[run_queue]
             i == Len(v)
             nx == l.next
             pv == l.prev
             b == pv[run_queue]
  <2>1. i \in 0 .. Len(v) /\ b = CellAt(run_queue, v, i)
    BY <1>5, <1>6
  <2>2. /\ Len(a) = Len(v) + 1
        /\ \A j \in 1 .. Len(a) :
             a[j] = IF j <= i THEN v[j] ELSE IF j = i + 1 THEN cur ELSE v[j - 1]
    BY <1>5, <1>7
  <2>3. Forms(nx, pv, q1)
    BY <1>4
  <2> HIDE DEF i, nx, pv, b
  <2>4. Forms(list_add_(nx, pv, cur, b).next, list_add_(nx, pv, cur, b).prev, r)
    BY <1>4, <1>7, <2>1, <2>2, <2>3, AddForms
  <2> QED  BY <2>4 DEF b, nx, pv
<1>9. Forms(next', prev', r)
  BY <1>8 DEF linked, l
<1>10. r[h] = t /\ r = [contents EXCEPT ![h] = t, ![run_queue] = a]
  BY <1>1, <1>5 DEF q1
<1>11. p \in 1 .. Len(t) + 1 /\ cur' = CellAt(h, t, p) /\ IsInjective(t)
  <2>1. IsInjective(r[h])
    BY <1>1, <1>9 DEF Forms
  <2>2. p \in 1 .. Len(t) + 1
    BY <1>1, <1>3
  <2>3. CASE p = Len(s)
    <3>1. p + 1 \notin 1 .. Len(s) /\ p \notin 1 .. Len(t)
      BY <1>1, <1>3, <2>3
    <3> QED  BY <1>1, <1>10, <2>1, <2>2, <3>1 DEF CellAt
  <2>4. CASE p \in 1 .. Len(s) - 1
    <3>1. p + 1 \in 1 .. Len(s) /\ p \in 1 .. Len(t) /\ t[p] = s[p + 1]
      BY <1>1, <1>3, <2>4
    <3> QED  BY <1>1, <1>10, <2>1, <2>2, <3>1 DEF CellAt
  <2> QED  BY <1>1, <2>3, <2>4
<1> HIDE DEF r
<1>12. LInv' /\ contents' = r
  <2>1. sleep_queue' = h /\ AtCell(cur', h, r[h])
    BY <1>10, <1>11 DEF AtCell
  <2> QED  BY <1>1, <1>9, <2>1, NewLists
<1>13. Place(cur', h, t) = p
  BY <1>1, <1>3, <1>11, PlaceIs
<1>14. position' = p
  <2>1. contents'[sleep_queue'] = t
    BY <1>10, <1>12
  <2> QED  BY <1>13, <2>1, PositionIs
<1>15. contents' = [contents EXCEPT ![h] = Q!RemoveAt(@, p),
                                    ![run_queue] = Append(@, contents[h][p])]
  <2>1. Q!RemoveAt(contents[h], p) = t
    BY DEF Q!RemoveAt, RemoveAt, t, s
  <2>2. a = Append(u, contents[h][p])
    BY <1>1 DEF a, s
  <2>3. r = [contents EXCEPT ![h] = t, ![run_queue] = Append(u, contents[h][p])]
    BY <1>10, <2>2
  <2>4. r = [contents EXCEPT ![h] = Q!RemoveAt(contents[h], p),
                             ![run_queue] = Append(contents[run_queue], contents[h][p])]
    BY <2>1, <2>3 DEF u
  <2>5. run_queue # h /\ h \in Heads /\ contents \in [Heads -> Seq(Nodes)]
    BY <1>1, <1>2
  <2> HIDE DEF h
  <2> QED  BY <1>12, <2>4, <2>5
<1> QED  BY <1>1, <1>12, <1>14, <1>15 DEF Q!MoveNode, Q!InScan, s, p

(* Heads that are linked to themselves form empty lists. *)
LEMMA ListsInit ==
    ASSUME LInit
    PROVE  LInv /\ Q!Init
<1> DEFINE q == [h \in Heads |-> <<>>]
<1>1. /\ next = [x \in Heads \cup Nodes |-> IF x \in Heads THEN x ELSE Null]
      /\ prev = [x \in Heads \cup Nodes |-> IF x \in Heads THEN x ELSE Null]
      /\ sleep_queue \in Heads /\ cur = Null /\ taken = Null
  BY DEF LInit
<1>2. Forms(next, prev, q)
  <2>1. next \in [Cells -> Cells \cup {Null}] /\ prev \in [Cells -> Cells \cup {Null}]
    BY <1>1 DEF Cells
  <2>2. q \in [Heads -> Seq(Nodes)]
    OBVIOUS
  <2>3. ASSUME NEW h \in Heads
        PROVE  /\ q[h] = <<>> /\ Len(q[h]) = 0 /\ DOMAIN q[h] = {}
               /\ next[h] = h /\ prev[h] = h
    BY <1>1
  <2> HIDE DEF q
  <2>4. ASSUME NEW h \in Heads
        PROVE  IsInjective(q[h]) /\ LinkedForth(next, h, q[h]) /\ LinkedBack(prev, h, q[h])
    <3>1. \A i : CellAt(h, q[h], i) = h
      BY <2>3 DEF CellAt
    <3> QED  BY <2>3, <3>1 DEF IsInjective, LinkedForth, LinkedBack
  <2>5. \A g, h \in Heads : g # h => Range(q[g]) \cap Range(q[h]) = {}
    BY <2>3 DEF Range
  <2> QED  BY <2>1, <2>2, <2>4, <2>5 DEF Forms
<1>3. contents = q
  BY <1>2, WalkedLists DEF contents
<1>4. LInv
  <2> HIDE DEF q
  <2> QED  BY <1>1, <1>2, <1>3 DEF LInv, AtCell
<1>5. position = 0
  BY <1>1, PositionIs, NoPlace
<1> QED  BY <1>1, <1>3, <1>4, <1>5 DEF Q!Init

(* Each call and each step of the loop keeps the form and is a step of Queues. *)
LEMMA ListsStep ==
    ASSUME LInv, [LNext]_lvars
    PROVE  LInv' /\ [Q!Next]_Q!vars
<1>1. CASE UNCHANGED lvars
  <2>1. UNCHANGED <<next, prev, sleep_queue, cur, taken>>
    BY <1>1 DEF lvars
  <2>2. contents' = contents
    BY <2>1 DEF contents
  <2>3. (contents[sleep_queue])' = contents[sleep_queue]
    BY <2>1, <2>2
  <2>4. LInv'
    BY <2>1, <2>2, <2>3 DEF LInv
  <2>5. position' = position
    BY <2>1, <2>2, PositionIs
  <2> QED  BY <2>1, <2>2, <2>4, <2>5 DEF Q!vars
<1>2. ASSUME NEW list \in Heads, cur = Null, Operation(list)
      PROVE  LInv' /\ Q!Next
  <2>1. UNCHANGED <<sleep_queue, cur>> /\ position = 0
    BY <1>2, PositionIs, NoPlace DEF Operation
  <2>2. LInv' /\ Q!Operation(list)
    <3>1. CASE \E node \in Nodes : list_add_first(list, node)
      BY <1>2, <2>1, <3>1, AddFirstStep DEF Q!Operation
    <3>2. CASE \E node \in Nodes : list_add_last(list, node)
      BY <1>2, <2>1, <3>2, AddLastStep DEF Q!Operation
    <3>3. CASE \E node \in Nodes : list_remove(list, node)
      BY <1>2, <2>1, <3>3, DeleteStep DEF Q!Operation
    <3>4. CASE list_remove_first(list)
      BY <1>2, <2>1, <3>4, TakeFirstStep DEF Q!Operation
    <3>5. CASE list_remove_last(list)
      BY <1>2, <2>1, <3>5, TakeLastStep DEF Q!Operation
    <3>6. CASE list_get_first(list)
      BY <1>2, <2>1, <3>6, LookFirstStep DEF Q!Operation
    <3>7. CASE list_get_last(list)
      BY <1>2, <2>1, <3>7, LookLastStep DEF Q!Operation
    <3> QED  BY <1>2, <3>1, <3>2, <3>3, <3>4, <3>5, <3>6, <3>7 DEF Operation
  <2> QED  BY <2>1, <2>2 DEF Q!Next
<1>3. ASSUME NEW list \in Heads, cur = Null, begin_scan(list)
      PROVE  LInv' /\ Q!Next
  <2>1. LInv' /\ Q!BeginScan(list) /\ position = 0
    BY <1>3, BeginScanStep, PositionIs, NoPlace
  <2> QED  BY <2>1 DEF Q!Next, Q!Operation
<1>4. ASSUME NEW run_queue \in Heads, scan_body(run_queue)
      PROVE  LInv' /\ Q!Next
  <2>1. CASE UNCHANGED <<next, prev>>
    <3>1. LInv' /\ Q!KeepNode
      BY <1>4, <2>1, KeepStep DEF scan_body
    <3> QED  BY <3>1 DEF Q!Next
  <2>2. CASE /\ run_queue # sleep_queue
             /\ LET l == list_remove_(next, prev, cur)
                IN  linked(list_add_(l.next, l.prev, cur, l.prev[run_queue]))
    <3>1. LInv' /\ Q!MoveNode(run_queue)
      BY <1>4, <2>2, MoveStep DEF scan_body
    <3> QED  BY <3>1 DEF Q!Next
  <2> QED  BY <1>4, <2>1, <2>2 DEF scan_body
<1>5. ASSUME end_scan
      PROVE  LInv' /\ Q!Next
  BY <1>5, EndScanStep DEF Q!Next
<1> QED  BY <1>1, <1>2, <1>3, <1>4, <1>5 DEF LNext

(***************************************************************************)
(* However the functions of list.h are called on nodes in no list, next    *)
(* and prev form the same lists, no node is in two of them, and the loop   *)
(* of scheduler_update_sleepers stands on a cell of the list it walks.     *)
(***************************************************************************)
THEOREM ListsKeepTheirForm == LSpec => []LInv
<1>1. LInit => LInv
  BY ListsInit
<1>2. LInv /\ [LNext]_lvars => LInv'
  BY ListsStep
<1> QED  BY <1>1, <1>2, PTL DEF LSpec

(***************************************************************************)
(* list.h, at the level of pointers, implements queues for any number of   *)
(* heads and nodes, and the loop that advances cur before it unlinks the   *)
(* node visits every node of its list once, in order.                      *)
(***************************************************************************)
THEOREM ListsImplementQueues == LSpec => ImplementsQueues
<1>1. LInit => Q!Init
  BY ListsInit
<1>2. LInv /\ [LNext]_lvars => [Q!Next]_Q!vars
  BY ListsStep
<1> QED  BY <1>1, <1>2, ListsKeepTheirForm, PTL DEF LSpec, ImplementsQueues, Q!Spec
=============================================================================
