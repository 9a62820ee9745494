----------------------------- MODULE LinkedList -----------------------------
(***************************************************************************)
(* lib/list.h: circular doubly linked lists with a head node, at the level *)
(* of next and prev pointers, and the loop of scheduler_update_sleepers    *)
(* that unlinks nodes of the list it walks.                                *)
(*                                                                         *)
(* The functions do not check that a node they add is in no list.  Their   *)
(* callers see to it (the queue discipline of module Scheduler), so only   *)
(* such nodes are added here.  A node keeps its old pointers when it is    *)
(* unlinked.                                                               *)
(***************************************************************************)
EXTENDS Naturals, FiniteSets, SequencesExt

CONSTANTS
    Heads,   \* the head nodes, one per list
    Nodes,   \* the nodes embedded in threads
    Null     \* nullptr

(* Different nodes have different addresses, none of them that of nothing. *)
ASSUME NodesAssumption ==
    IsFiniteSet(Nodes) /\ Heads \cap Nodes = {} /\ Null \notin Heads \cup Nodes

VARIABLES
    next, prev,
    sleep_queue,   \* the list the loop walks
    cur,           \* its next node, Null outside the loop
    taken          \* what the last call returned

lvars == <<next, prev, sleep_queue, cur, taken>>

(* list_create links a head to itself; nodes are zero-initialised. *)
LInit ==
    /\ next = [x \in Heads \cup Nodes |-> IF x \in Heads THEN x ELSE Null]
    /\ prev = [x \in Heads \cup Nodes |-> IF x \in Heads THEN x ELSE Null]
    /\ sleep_queue \in Heads
    /\ cur = Null
    /\ taken = Null

(* Where k steps along the pointers `link' lead from list. *)
Reached(link, list) ==
    LET at[k \in 0 .. Cardinality(Nodes) + 1] ==
            IF k = 0 THEN list
            ELSE IF at[k - 1] = Null THEN Null ELSE link[at[k - 1]]
    IN at

(***************************************************************************)
(* What a walk along the pointers meets before it is back at the head.  No *)
(* list is longer than Nodes.                                              *)
(***************************************************************************)
Walk(link, list) ==
    LET at == Reached(link, list)
        back == {k \in 1 .. Cardinality(Nodes) + 1 : at[k] = list}
    IN  IF back = {} THEN <<>>
        ELSE [k \in 1 .. (CHOOSE m \in back : \A n \in back : m <= n) - 1 |-> at[k]]

list_is_empty(list) == next[list] = list

(***************************************************************************)
(* The helpers, as the pointers they leave: the four assignments of        *)
(* list_add_, the two of list_remove_.                                     *)
(***************************************************************************)
list_add_(nx, pv, node, before) ==
    [next |-> [nx EXCEPT ![node] = nx[before], ![before] = node],
     prev |-> [pv EXCEPT ![node] = before, ![nx[before]] = node]]

list_remove_(nx, pv, node) ==
    [next |-> [nx EXCEPT ![pv[node]] = nx[node]],
     prev |-> [pv EXCEPT ![nx[node]] = pv[node]]]

linked(l) == next' = l.next /\ prev' = l.prev

InNoList(node) == \A h \in Heads : node \notin Range(Walk(next, h))

list_add_first(list, new) ==
    /\ InNoList(new)
    /\ linked(list_add_(next, prev, new, list))
    /\ UNCHANGED taken

list_add_last(list, new) ==
    /\ InNoList(new)
    /\ linked(list_add_(next, prev, new, prev[list]))
    /\ UNCHANGED taken

take(list, del) ==
    \/ /\ list_is_empty(list)
       /\ taken' = Null
       /\ UNCHANGED <<next, prev>>
    \/ /\ ~list_is_empty(list)
       /\ linked(list_remove_(next, prev, del))
       /\ taken' = del

list_remove_first(list) == take(list, next[list])

list_remove_last(list) == take(list, prev[list])

(* The search for rem goes forward from the head. *)
list_remove(list, rem) ==
    \/ /\ rem \in Range(Walk(next, list))
       /\ linked(list_remove_(next, prev, rem))
       /\ taken' = rem
    \/ /\ rem \notin Range(Walk(next, list))
       /\ taken' = Null
       /\ UNCHANGED <<next, prev>>

list_get_first(list) ==
    /\ taken' = IF list_is_empty(list) THEN Null ELSE next[list]
    /\ UNCHANGED <<next, prev>>

list_get_last(list) ==
    /\ taken' = IF list_is_empty(list) THEN Null ELSE prev[list]
    /\ UNCHANGED <<next, prev>>

Operation(list) ==
    /\ \/ \E node \in Nodes :
            \/ list_add_first(list, node)
            \/ list_add_last(list, node)
            \/ list_remove(list, node)
       \/ list_remove_first(list)
       \/ list_remove_last(list)
       \/ list_get_first(list)
       \/ list_get_last(list)
    /\ UNCHANGED <<sleep_queue, cur>>

(***************************************************************************)
(* scheduler_update_sleepers: cur is read before the loop and advanced     *)
(* before the body, which leaves the node or moves it to another list.     *)
(***************************************************************************)
begin_scan(list) ==
    /\ sleep_queue' = list
    /\ cur' = next[list]
    /\ UNCHANGED <<next, prev, taken>>

(* Mutant: cur is advanced after the body. *)
scan_advances_late(run_queue) ==
    /\ cur \notin {Null, sleep_queue}
    /\ \/ UNCHANGED <<next, prev>>
       \/ /\ run_queue # sleep_queue
          /\ LET l == list_remove_(next, prev, cur)
             IN  linked(list_add_(l.next, l.prev, cur, l.prev[run_queue]))
    /\ cur' = next'[cur]
    /\ UNCHANGED <<sleep_queue, taken>>

scan_body(run_queue) ==
    /\ cur \notin {Null, sleep_queue}
    /\ cur' = next[cur]
    /\ \/ UNCHANGED <<next, prev>>
       \/ /\ run_queue # sleep_queue
          /\ LET l == list_remove_(next, prev, cur)
             IN  linked(list_add_(l.next, l.prev, cur, l.prev[run_queue]))
    /\ UNCHANGED <<sleep_queue, taken>>

end_scan ==
    /\ cur = sleep_queue
    /\ cur' = Null
    /\ UNCHANGED <<next, prev, sleep_queue, taken>>

LNext ==
    \/ cur = Null /\ \E list \in Heads : Operation(list) \/ begin_scan(list)
    \/ \E run_queue \in Heads : scan_body(run_queue)
    \/ end_scan

LSpec == LInit /\ [][LNext]_lvars

-----------------------------------------------------------------------------
contents == [h \in Heads |-> Walk(next, h)]

(* Where the scan is, as a position in the list it walks. *)
position ==
    IF cur = Null THEN 0
    ELSE IF cur = sleep_queue THEN Len(contents[sleep_queue]) + 1
    ELSE SelectInSeq(contents[sleep_queue], LAMBDA node : node = cur)

Q == INSTANCE Queues
        WITH queue <- contents, scanned <- sleep_queue, pos <- position,
             ret <- taken

(***************************************************************************)
(* list.h implements queues.  In particular the loop that advances cur     *)
(* before it unlinks the node visits every node of the list exactly once,  *)
(* which is what module Scheduler takes for granted of its positions, and  *)
(* operations at the end, which follow prev, see the list that next forms. *)
(***************************************************************************)
ImplementsQueues == Q!Spec
=============================================================================
