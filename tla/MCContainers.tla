---------------------------- MODULE MCContainers ----------------------------
(***************************************************************************)
(* The two containers of include/lib/, which have no state in common, side *)
(* by side: a behaviour is one of the ring buffer or one of the lists, and *)
(* the other stays where it starts.                                        *)
(***************************************************************************)
EXTENDS RingBuffer, LinkedList

VARIABLE part     \* the container that is used

CInit ==
    /\ part \in {"ringbuffer", "list"}
    /\ Init
    /\ part = "ringbuffer" => sleep_queue = CHOOSE h \in Heads : TRUE
    /\ LInit

CNext ==
    /\ \/ part = "ringbuffer" /\ Next /\ UNCHANGED lvars
       \/ part = "list" /\ LNext /\ UNCHANGED vars
    /\ UNCHANGED part

CSpec == CInit /\ [][CNext]_<<part, vars, lvars>>
=============================================================================
