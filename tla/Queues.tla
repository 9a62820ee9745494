------------------------------- MODULE Queues -------------------------------
(***************************************************************************)
(* What lib/list.h promises the scheduler: several queues of nodes, a node *)
(* in at most one of them, and a scan that looks at the nodes of one queue *)
(* one after the other, keeping each or moving it to the end of another    *)
(* queue.  `pos' is the position the scan is at, 0 when there is none.     *)
(***************************************************************************)
EXTENDS Naturals, SequencesExt

CONSTANTS Heads, Nodes, Null

VARIABLES queue, scanned, pos, ret

vars == <<queue, scanned, pos, ret>>

Init ==
    /\ queue = [h \in Heads |-> <<>>]
    /\ scanned \in Heads
    /\ pos = 0
    /\ ret = Null

Free == {n \in Nodes : \A h \in Heads : n \notin Range(queue[h])}

Change(h, s) == queue' = [queue EXCEPT ![h] = s] /\ UNCHANGED <<scanned, pos>>

AddFirst(h, n) == n \in Free /\ Change(h, <<n>> \o queue[h]) /\ UNCHANGED ret

AddLast(h, n) == n \in Free /\ Change(h, Append(queue[h], n)) /\ UNCHANGED ret

Take(h, get(_), rest(_)) ==
    IF queue[h] = <<>> THEN ret' = Null /\ UNCHANGED <<queue, scanned, pos>>
                       ELSE ret' = get(queue[h]) /\ Change(h, rest(queue[h]))

Delete(h, n) ==
    \/ /\ n \notin Range(queue[h])
       /\ ret' = Null
       /\ UNCHANGED <<queue, scanned, pos>>
    \/ \E i \in DOMAIN queue[h] :
         /\ queue[h][i] = n
         /\ ret' = n
         /\ Change(h, RemoveAt(queue[h], i))

Look(h, get(_)) ==
    /\ ret' = IF queue[h] = <<>> THEN Null ELSE get(queue[h])
    /\ UNCHANGED <<queue, scanned, pos>>

BeginScan(h) == scanned' = h /\ pos' = 1 /\ UNCHANGED <<queue, ret>>

InScan == pos \in 1 .. Len(queue[scanned])

KeepNode == InScan /\ pos' = pos + 1 /\ UNCHANGED <<queue, scanned, ret>>

MoveNode(to) ==
    /\ InScan
    /\ to # scanned
    /\ queue' = [queue EXCEPT ![scanned] = RemoveAt(@, pos),
                              ![to] = Append(@, queue[scanned][pos])]
    /\ UNCHANGED <<scanned, pos, ret>>

EndScan ==
    /\ pos = Len(queue[scanned]) + 1
    /\ pos' = 0
    /\ UNCHANGED <<queue, scanned, ret>>

Operation(h) ==
    \/ \E n \in Nodes : AddFirst(h, n) \/ AddLast(h, n) \/ Delete(h, n)
    \/ Take(h, Head, Tail)
    \/ Take(h, Last, Front)
    \/ Look(h, Head)
    \/ Look(h, Last)
    \/ BeginScan(h)

Next ==
    \/ pos = 0 /\ \E h \in Heads : Operation(h)
    \/ KeepNode
    \/ \E to \in Heads : MoveNode(to)
    \/ EndScan

Spec == Init /\ [][Next]_vars
=============================================================================
