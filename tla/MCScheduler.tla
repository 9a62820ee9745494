---------------------------- MODULE MCScheduler ----------------------------
(***************************************************************************)
(* The scheduler, with the lengths of sleeps recorded, on a small          *)
(* instance, and the mapping under which it implements RoundRobin.         *)
(***************************************************************************)
EXTENDS SleepClock

(* The sleepers the scan has not looked at yet. *)
Unscanned ==
    IF cur = 0 THEN {} ELSE {sleep_queue[j] : j \in cur .. Len(sleep_queue)}

WakesInScan(t) == t \in Unscanned /\ sleep_counter[t] = 0

(* The thread at position i of q, if a scan that finds the counters c wakes it. *)
WokenAt(q, c, i) == IF c[q[i]] = 0 THEN <<q[i]>> ELSE <<>>

(* Those of the last k threads of q that such a scan wakes, oldest first. *)
WokenOfLast(q, c) ==
    LET woken[k \in 0 .. Len(q)] ==
            IF k = 0 THEN <<>> ELSE WokenAt(q, c, Len(q) - k + 1) \o woken[k - 1]
    IN woken

StillWoken ==
    IF cur = 0 THEN <<>>
    ELSE WokenOfLast(sleep_queue, sleep_counter)[Len(sleep_queue) - cur + 1]

(***************************************************************************)
(* The whole scan counts as done once it has begun: what it still has to   *)
(* do is fixed by the state.                                               *)
(***************************************************************************)
readyAfterScan == run_queue \o StillWoken

asleepAfterScan ==
    [t \in {u \in Range(sleep_queue) : ~WakesInScan(u)} |->
        IF t \in Unscanned THEN sleep_counter[t] - 1
                           ELSE sleep_counter[t]]

RR == INSTANCE RoundRobin
        WITH Idle <- idle_thread, Nobody <- NULL, current <- running_thread,
             ready <- readyAfterScan, blocked <- wait_queue,
             asleep <- asleepAfterScan, aged <- cur # 0

(***************************************************************************)
(* scheduler.c implements RoundRobin: walking the sleep queue node by node *)
(* while unlinking nodes wakes exactly the sleepers that are due, ages     *)
(* each of the others by one, and no other operation disturbs the order    *)
(* in which threads get the CPU.                                           *)
(***************************************************************************)
ImplementsRoundRobin == RR!Spec
=============================================================================
