------------------------------- MODULE Systick -------------------------------
(***************************************************************************)
(* The system tick: kernel/systick.c and arch/bsp/system_timer.c for the   *)
(* channel it uses, TIMER_C1, with the timer itself.  The timer counts in  *)
(* clo, 2^32 here Wrap, and sets the match bit m1 when clo reaches c1.     *)
(*                                                                         *)
(* Time goes on between any two steps of the code.  The interrupt is       *)
(* masked until the first thread runs and whenever the kernel runs, so the *)
(* handler may come late; it comes at most MaxLatency after a match.       *)
(***************************************************************************)
EXTENDS Naturals

CONSTANTS
    Wrap,         \* 2 to the width of clo
    Interval,     \* SYSTICK_TIMER_INTERVAL
    MaxLatency    \* units of time from a match until the handler has updated
                  \* the compare register, the one of the match included

(***************************************************************************)
(* What the tick relies on: the handler is not a whole interval late, and  *)
(* two intervals are short of the range of the counter.                    *)
(***************************************************************************)
ASSUME LatencyAssumption ==
    /\ Wrap \in Nat /\ Interval \in Nat \ {0} /\ MaxLatency \in Nat
    /\ MaxLatency <= Interval
    /\ 2 * Interval < Wrap

VARIABLES
    clo, c1, m1,
    tpc,        \* "init", "set", "user", "clear", "update", "tick"
    compare,    \* local of system_timer_set_interval
    overdue,    \* time since the match the handler has not answered, or 0
    phase       \* time since systick_init read clo, modulo Interval

tvars == <<clo, c1, m1, tpc, compare, overdue, phase>>

Times == 0 .. Wrap - 1

(* Counter, compare register and match bit are whatever the firmware left. *)
TInit ==
    /\ clo \in Times /\ c1 \in Times /\ m1 \in BOOLEAN
    /\ tpc = "init" /\ compare = 0
    /\ overdue = 0 /\ phase = 0

Armed == tpc \notin {"init", "set"}

(***************************************************************************)
(* One unit of time.  It does not go on while the handler is MaxLatency    *)
(* late: that is the assumption, not something the hardware does.  The     *)
(* assignment of the freshly computed compare value is not delayed by a    *)
(* whole interval either.                                                  *)
(***************************************************************************)
match == (clo + 1) % Wrap = c1

TimePasses ==
    /\ overdue < MaxLatency
    /\ tpc = "set" => (clo + 1) % Wrap # compare
    /\ clo' = (clo + 1) % Wrap
    /\ m1' = (m1 \/ match)
    /\ overdue' = IF overdue > 0 \/ (match /\ Armed) THEN overdue + 1 ELSE 0
    /\ phase' = IF tpc = "init" THEN 0 ELSE (phase + 1) % Interval
    /\ UNCHANGED <<c1, tpc, compare>>

(* system_timer_set_interval, called once by systick_init *)
system_timer_set_interval ==
    /\ \/ tpc = "init" /\ tpc' = "set" /\ compare' = (clo + Interval) % Wrap
          /\ UNCHANGED c1
       \/ tpc = "set" /\ tpc' = "user" /\ c1' = compare /\ UNCHANGED compare
    /\ UNCHANGED <<clo, m1, overdue, phase>>

(* systick_handle_irq tests the match bit; without it there is nothing to do. *)
systick_check_compare ==
    /\ tpc = "user"
    /\ m1
    /\ tpc' = "clear"
    /\ UNCHANGED <<clo, c1, m1, compare, overdue, phase>>

systick_clear_interrupt ==
    /\ tpc = "clear"
    /\ m1' = FALSE
    /\ tpc' = "update"
    /\ UNCHANGED <<clo, c1, compare, overdue, phase>>

(* Mutants: the compare register keeps its value; it is set from the clock. *)
compare_not_updated ==
    /\ tpc = "update"
    /\ tpc' = "tick"
    /\ overdue' = 0
    /\ UNCHANGED <<clo, c1, m1, compare, phase>>

compare_from_now ==
    /\ tpc = "update"
    /\ c1' = (clo + Interval) % Wrap
    /\ tpc' = "tick"
    /\ overdue' = 0
    /\ UNCHANGED <<clo, m1, compare, phase>>

system_timer_update_compare ==
    /\ tpc = "update"
    /\ c1' = (c1 + Interval) % Wrap
    /\ tpc' = "tick"
    /\ overdue' = 0
    /\ UNCHANGED <<clo, m1, compare, phase>>

(* scheduler_tick_from_irq and the return to user mode *)
tick ==
    /\ tpc = "tick"
    /\ tpc' = "user"
    /\ UNCHANGED <<clo, c1, m1, compare, overdue, phase>>

Handler ==
    systick_check_compare \/ systick_clear_interrupt
        \/ system_timer_update_compare \/ tick

TNext == TimePasses \/ system_timer_set_interval \/ Handler

TSpec == TInit /\ [][TNext]_tvars

-----------------------------------------------------------------------------
Remaining == (c1 + Wrap - clo) % Wrap

(***************************************************************************)
(* Ticks do not drift: system_timer_update_compare adds to the compare     *)
(* register, not to the time of the handler, so that every match falls on  *)
(* a multiple of the interval after systick_init, however late the         *)
(* handlers before it were.                                                *)
(***************************************************************************)
NoDrift == [][Armed /\ match /\ clo' # clo => phase' = 0]_tvars

(***************************************************************************)
(* The timer never waits for a time that has passed, which would stop the  *)
(* system for a whole turn of the counter: while no match is unanswered,   *)
(* the compare register is at most two intervals ahead, and it is that far *)
(* only after a handler without a match of its own, the first of which     *)
(* finds a match bit from before systick_init.                             *)
(***************************************************************************)
NextMatchAhead == Armed /\ overdue = 0 => Remaining \in 1 .. 2 * Interval
=============================================================================
