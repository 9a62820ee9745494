----------------------------- MODULE SleepClock -----------------------------
(***************************************************************************)
(* The scheduler with a record of what sleeping threads asked for: `asked' *)
(* is the argument of a thread's last sleep and `elapsed' the number of    *)
(* timer ticks that have begun since.  Neither influences the scheduler.   *)
(***************************************************************************)
EXTENDS Scheduler

VARIABLES asked, elapsed

svars == <<vars, asked, elapsed>>

SInit ==
    /\ Init
    /\ asked = [t \in Threads |-> 0]
    /\ elapsed = [t \in Threads |-> 0]

AsksToSleep(cycles) ==
    /\ SleepCall(cycles)
    /\ asked' = [asked EXCEPT ![running_thread] = cycles]
    /\ elapsed' = [elapsed EXCEPT ![running_thread] = 0]

TickBegins ==
    /\ scheduler_tick_from_irq
    /\ elapsed' = [t \in Threads |->
                    IF status[t] = "SLEEPING" THEN elapsed[t] + 1 ELSE elapsed[t]]
    /\ UNCHANGED asked

AnyOtherStep ==
    /\ BootCreate \/ BootStart \/ SvcOrFault \/ Notify \/ TickWork
    /\ UNCHANGED <<asked, elapsed>>

SNext ==
    \/ \E cycles \in SleepArgs : AsksToSleep(cycles)
    \/ TickBegins
    \/ AnyOtherStep

SSpec == SInit /\ [][SNext]_svars

(***************************************************************************)
(* scheduler_sleep_running_from_irq(n) sleeps for n whole tick periods: no *)
(* thread leaves the sleep queue before the tick after the n-th, whatever  *)
(* other sleepers leave it in the same scan.                               *)
(***************************************************************************)
NeverWokenEarly ==
    [][\A t \in Threads :
         status[t] = "SLEEPING" /\ status'[t] # "SLEEPING"
            => elapsed[t] = asked[t] + 1]_svars

(***************************************************************************)
(* And no longer: once the scan of that tick is over no thread is still    *)
(* asleep, so the scan skips nobody.                                       *)
(***************************************************************************)
NeverOverslept ==
    \A t \in Threads : status[t] = "SLEEPING" /\ cur = 0 => elapsed[t] <= asked[t]
=============================================================================
