----------------------------- MODULE MCFunctions -----------------------------
(***************************************************************************)
(* The code that computes something from its arguments and keeps no state  *)
(* beyond a call, side by side: the decoder of fault statuses, the memory  *)
(* functions and kprintf.  A behaviour is one of the part `part', and the  *)
(* others stay where they start.                                           *)
(***************************************************************************)
EXTENDS FaultStatus, Memory, Kprintf

(* All bytes different, and two bytes at most that are negative as signed   *)
(* chars, so that two blocks differ in up to two places, either way round.  *)
Ascending == [a \in 0 .. MemSize - 1 |-> a]

HighAt(x, y) == [a \in 0 .. MemSize - 1 |-> IF a \in {x, y} THEN 255 ELSE 1]

MCContents ==
    {Ascending} \cup {HighAt(x, y) : x, y \in 0 .. MemSize - 1}

MCFills == {-1, 7, 300}

(* Zero, numbers of one digit, one more, and the ends of the ranges of a    *)
(* word of 30 bits.                                                         *)
MCWord == 1073741824

MCInts == {-(MCWord \div 2), -1, 0, 10, (MCWord \div 2) - 1}

MCUnsigneds == {0, 9, 16, MCWord - 1}

MCStrings == {<<>>, <<"t", "t">>}

VARIABLE part

NoCall == [fn |-> "memcpy", s1 |-> 0, s2 |-> 0, c |-> -1, n |-> 0]

MCInit ==
    /\ part \in {"exception_print", "mem", "kprintf"}
    /\ FInit
    /\ part # "kprintf" => format = <<>>
    /\ PInit
    /\ part # "mem" => old = Ascending /\ call = NoCall
    /\ MInit

MCNext ==
    /\ \/ part = "exception_print" /\ FNext /\ UNCHANGED <<mvars, pvars>>
       \/ part = "mem" /\ MNext /\ UNCHANGED <<fvars, pvars>>
       \/ part = "kprintf" /\ PNext /\ UNCHANGED <<fvars, mvars>>
    /\ UNCHANGED part

MCSpec == MCInit /\ [][MCNext]_<<part, fvars, mvars, pvars>>
=============================================================================
