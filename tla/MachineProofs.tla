---------------------------- MODULE MachineProofs ----------------------------
(***************************************************************************)
(* Proofs about the parts below the kernel, each on its own: the system    *)
(* tick, the start of the cores, the way of an interrupt, the report of a  *)
(* fault, the memory functions and kprintf.  Each theorem is about the     *)
(* specification of one of the modules; the variables of the others are    *)
(* not mentioned in it.                                                    *)
(***************************************************************************)
EXTENDS Systick, Boot, InterruptController, FaultStatus, Memory, Kprintf, DataLemmas

-----------------------------------------------------------------------------
(***************************************************************************)
(* The system tick.  Ahead(a) is the time from clo until it is a.          *)
(***************************************************************************)
Ahead(a) == (a + Wrap - clo) % Wrap

(* The next value of a counter that wraps at m. *)
LEMMA CounterStep ==
    ASSUME NEW m \in Nat \ {0}, NEW a \in 0 .. m - 1
    PROVE  (a + 1) % m = IF a + 1 = m THEN 0 ELSE a + 1
BY WrapOnce

(* Distances on a counter without remainders. *)
LEMMA AheadIs ==
    ASSUME NEW a \in 0 .. Wrap - 1, Wrap \in Nat, clo \in 0 .. Wrap - 1
    PROVE  Ahead(a) = IF a < clo THEN a + Wrap - clo ELSE a - clo
<1> DEFINE d == a + Wrap - clo
<1>1. d \in 0 .. 2 * Wrap - 1 /\ Wrap \in Nat \ {0}
  OBVIOUS
<1> HIDE DEF d
<1>2. d % Wrap = IF d < Wrap THEN d ELSE d - Wrap
  BY <1>1, WrapOnce
<1> QED  BY <1>2 DEF d, Ahead

(***************************************************************************)
(* The inductive invariant.  Until systick_init has set the compare        *)
(* register, what it will set falls a whole number of intervals after it   *)
(* read the counter.  From then on the same holds of the compare register: *)
(* the next match is what is left of this interval away, or one interval   *)
(* more if a handler has run without a match.  A handler can only run so   *)
(* while the match is due in this interval.                                *)
(***************************************************************************)
TickTypes ==
    /\ clo \in 0 .. Wrap - 1 /\ c1 \in 0 .. Wrap - 1 /\ compare \in 0 .. Wrap - 1
    /\ overdue \in 0 .. MaxLatency
    /\ phase \in 0 .. Interval - 1
    /\ tpc \in {"init", "set", "user", "clear", "update", "tick"}

HandlerDue == m1 \/ tpc \in {"clear", "update"}

TickInv ==
    /\ TickTypes
    /\ tpc \in {"init", "set"} => overdue = 0
    /\ tpc = "init" => phase = 0
    /\ tpc = "set" => Ahead(compare) = Interval - phase
    /\ Armed /\ overdue = 0 =>
         /\ Ahead(c1) = Interval - phase \/ Ahead(c1) = 2 * Interval - phase
         /\ HandlerDue => Ahead(c1) = Interval - phase
         /\ tpc = "update" => ~m1
    /\ Armed /\ overdue > 0 =>
         phase = overdue - 1 /\ Ahead(c1) = IF phase = 0 THEN 0 ELSE Wrap - phase

(* A unit of time brings a moment nearer; at distance 1 it is reached. *)
LEMMA OneUnit ==
    ASSUME NEW a \in 0 .. Wrap - 1, Wrap \in Nat, clo \in 0 .. Wrap - 1, Wrap > 1,
           clo' = (clo + 1) % Wrap
    PROVE  /\ clo' \in 0 .. Wrap - 1
           /\ Ahead(a) \in 0 .. Wrap - 1
           /\ (a + Wrap - clo') % Wrap = IF Ahead(a) = 0 THEN Wrap - 1 ELSE Ahead(a) - 1
           /\ clo' = a <=> Ahead(a) = 1
<1>1. clo' = IF clo + 1 = Wrap THEN 0 ELSE clo + 1
  BY CounterStep
<1>2. Ahead(a) = IF a < clo THEN a + Wrap - clo ELSE a - clo
  BY AheadIs
<1> DEFINE d == a + Wrap - clo'
<1>3. d \in 0 .. 2 * Wrap - 1 /\ Wrap \in Nat \ {0}
  BY <1>1
<1>4. d % Wrap = IF d < Wrap THEN d ELSE d - Wrap
  <2> HIDE DEF d
  <2> QED  BY <1>3, WrapOnce
<1>5. clo' \in 0 .. Wrap - 1
  BY <1>1
<1>6. d % Wrap = IF Ahead(a) = 0 THEN Wrap - 1 ELSE Ahead(a) - 1
  BY <1>1, <1>2, <1>4
<1>7. Ahead(a) \in 0 .. Wrap - 1 /\ (clo' = a <=> Ahead(a) = 1)
  BY <1>1, <1>2
<1> QED  BY <1>5, <1>6, <1>7

(* Adding an interval to a moment that is not too far ahead. *)
LEMMA OneInterval ==
    ASSUME NEW a \in 0 .. Wrap - 1, NEW k \in 0 .. Wrap - 1, Wrap \in Nat,
           clo \in 0 .. Wrap - 1
    PROVE  /\ (a + k) % Wrap \in 0 .. Wrap - 1
           /\ Ahead((a + k) % Wrap) = IF Ahead(a) + k < Wrap THEN Ahead(a) + k
                                      ELSE Ahead(a) + k - Wrap
<1> DEFINE b == (a + k) % Wrap
<1>1. b = IF a + k < Wrap THEN a + k ELSE a + k - Wrap
  <2> DEFINE d == a + k
  <2>1. d \in 0 .. 2 * Wrap - 1 /\ Wrap \in Nat \ {0}
    OBVIOUS
  <2> HIDE DEF d
  <2>2. d % Wrap = IF d < Wrap THEN d ELSE d - Wrap
    BY <2>1, WrapOnce
  <2> QED  BY <2>2 DEF d
<1> HIDE DEF b
<1>2. b \in 0 .. Wrap - 1
  BY <1>1
<1>3. Ahead(b) = IF b < clo THEN b + Wrap - clo ELSE b - clo
  BY <1>2, AheadIs
<1>4. Ahead(a) = IF a < clo THEN a + Wrap - clo ELSE a - clo
  BY AheadIs
<1>5. Ahead(b) = IF Ahead(a) + k < Wrap THEN Ahead(a) + k ELSE Ahead(a) + k - Wrap
  BY <1>1, <1>3, <1>4
<1> QED  BY <1>2, <1>5 DEF b

(* The state at power-up, whatever the firmware has left in the timer. *)
LEMMA InitTick == TInit => TickInv
BY LatencyAssumption DEF TInit, Times, Armed, TickInv, TickTypes

(* Time passes: the next match comes nearer or happens. *)
LEMMA TimeTick ==
    ASSUME TickInv, TimePasses
    PROVE  TickInv'
<1> USE LatencyAssumption
<1>1. /\ clo' = (clo + 1) % Wrap
      /\ phase' = IF tpc = "init" THEN 0 ELSE (phase + 1) % Interval
      /\ UNCHANGED <<c1, tpc, compare>>
      /\ overdue < MaxLatency
      /\ overdue' = IF overdue > 0 \/ (clo' = c1 /\ Armed) THEN overdue + 1 ELSE 0
      /\ tpc = "set" => clo' # compare
      /\ Wrap > 1
  BY DEF TimePasses, match
<1>2. /\ clo' \in 0 .. Wrap - 1
      /\ Ahead(c1) \in 0 .. Wrap - 1
      /\ Ahead(c1)' = IF Ahead(c1) = 0 THEN Wrap - 1 ELSE Ahead(c1) - 1
      /\ clo' = c1 <=> Ahead(c1) = 1
  BY <1>1, OneUnit DEF TickInv, TickTypes, Ahead
<1>3. /\ Ahead(compare) \in 0 .. Wrap - 1
      /\ Ahead(compare)' = IF Ahead(compare) = 0 THEN Wrap - 1 ELSE Ahead(compare) - 1
      /\ clo' = compare <=> Ahead(compare) = 1
  BY <1>1, OneUnit DEF TickInv, TickTypes, Ahead
<1>4. (phase + 1) % Interval = IF phase + 1 = Interval THEN 0 ELSE phase + 1
  BY CounterStep DEF TickInv, TickTypes
<1>5. TickTypes'
  BY <1>1, <1>2, <1>4 DEF TickInv, TickTypes
<1>6. CASE tpc = "init"
  BY <1>1, <1>5, <1>6 DEF TickInv, TickTypes, Armed
<1>7. CASE tpc = "set"
  <2>1. Ahead(compare)' = Interval - phase' /\ overdue' = 0
    BY <1>1, <1>3, <1>4, <1>7 DEF TickInv, TickTypes, Armed
  <2> QED  BY <1>1, <1>5, <1>7, <2>1 DEF TickInv, Armed
<1>8. CASE Armed /\ overdue > 0
  <2>1. phase' = overdue' - 1 /\ overdue' > 0
    BY <1>1, <1>4, <1>8 DEF TickInv, TickTypes, Armed
  <2>2. Ahead(c1)' = IF phase' = 0 THEN 0 ELSE Wrap - phase'
    BY <1>1, <1>2, <1>4, <1>8 DEF TickInv, TickTypes, Armed
  <2> QED  BY <1>1, <1>5, <1>8, <2>1, <2>2 DEF TickInv, Armed
<1>9. CASE Armed /\ overdue = 0
  <2>0. /\ Ahead(c1) = Interval - phase \/ Ahead(c1) = 2 * Interval - phase
        /\ HandlerDue => Ahead(c1) = Interval - phase
        /\ phase \in 0 .. Interval - 1
        /\ Armed' /\ phase' = IF phase + 1 = Interval THEN 0 ELSE phase + 1
    BY <1>1, <1>4, <1>9 DEF TickInv, TickTypes, Armed
  <2>1. CASE clo' = c1
    <3>1. overdue' = 1 /\ Ahead(c1) = 1 /\ Ahead(c1)' = 0
      BY <1>1, <1>2, <1>9, <2>1
    <3>2. phase' = 0
      BY <2>0, <3>1
    <3> QED  BY <1>1, <1>5, <2>0, <3>1, <3>2 DEF TickInv, Armed
  <2>2. CASE clo' # c1
    <3>1. overdue' = 0 /\ Ahead(c1)' = Ahead(c1) - 1 /\ Ahead(c1)' # 0
      BY <1>1, <1>2, <1>9, <2>0, <2>2
    <3>2. \/ Ahead(c1)' = Interval - phase'
          \/ Ahead(c1)' = 2 * Interval - phase'
      BY <2>0, <3>1
    <3>3. Ahead(c1) = Interval - phase => Ahead(c1)' = Interval - phase'
      BY <2>0, <3>1
    <3>4. m1' <=> m1
      BY <2>2, Zenon DEF TimePasses, match
    <3>5. HandlerDue' => Ahead(c1)' = Interval - phase'
      BY <1>1, <2>0, <3>3, <3>4 DEF HandlerDue
    <3>6. tpc' = "update" => ~m1'
      BY <1>1, <1>9, <3>4 DEF TickInv
    <3> QED  BY <1>1, <1>5, <1>9, <3>1, <3>2, <3>5, <3>6 DEF TickInv, Armed
  <2> QED  BY <2>1, <2>2
<1> QED  BY <1>6, <1>7, <1>8, <1>9 DEF TickInv, TickTypes, Armed

(* Every step of timer and handler preserves the invariant. *)
LEMMA NextTick ==
    TickInv /\ [TNext]_tvars => TickInv'
<1> SUFFICES ASSUME TickInv, [TNext]_tvars PROVE TickInv'
  OBVIOUS
<1> USE LatencyAssumption
<1>1. CASE TimePasses
  BY <1>1, TimeTick
<1>2. CASE system_timer_set_interval
  <2>1. CASE tpc = "init" /\ tpc' = "set" /\ compare' = (clo + Interval) % Wrap
             /\ UNCHANGED c1
    <3>1. compare' \in 0 .. Wrap - 1 /\ Ahead(clo) = 0
      BY <2>1, OneInterval, AheadIs DEF TickInv, TickTypes
    <3>2. Ahead(compare') = Interval
      BY <2>1, <3>1, OneInterval DEF TickInv, TickTypes
    <3>3. Ahead(compare)' = Interval
      BY <1>2, <3>2 DEF system_timer_set_interval, Ahead
    <3> QED  BY <1>2, <2>1, <3>1, <3>3
             DEF system_timer_set_interval, TickInv, TickTypes, Armed
  <2>2. CASE tpc = "set" /\ tpc' = "user" /\ c1' = compare /\ UNCHANGED compare
    <3>1. Ahead(c1)' = Interval - phase'
      BY <1>2, <2>2 DEF system_timer_set_interval, TickInv, Ahead
    <3> QED  BY <1>2, <2>2, <3>1
             DEF system_timer_set_interval, TickInv, TickTypes, Armed
  <2> QED  BY <1>2, <2>1, <2>2 DEF system_timer_set_interval
<1>3. ASSUME UNCHANGED <<clo, c1, compare, overdue, phase>>, Armed, Armed',
             tpc' \in {"init", "set", "user", "clear", "update", "tick"},
             HandlerDue' => HandlerDue, tpc' = "update" => ~m1'
      PROVE  TickInv'
  <2>1. Ahead(c1)' = Ahead(c1) /\ TickTypes'
    BY <1>3 DEF Ahead, TickInv, TickTypes
  <2> QED  BY <1>3, <2>1 DEF TickInv, Armed
<1>4. CASE systick_check_compare
  BY <1>3, <1>4 DEF systick_check_compare, Armed, HandlerDue
<1>5. CASE systick_clear_interrupt
  BY <1>3, <1>5 DEF systick_clear_interrupt, Armed, HandlerDue
<1>6. CASE tick
  BY <1>3, <1>6 DEF tick, Armed, HandlerDue
<1>7. CASE system_timer_update_compare
  <2>1. /\ tpc = "update" /\ tpc' = "tick" /\ overdue' = 0
        /\ c1' = (c1 + Interval) % Wrap /\ UNCHANGED <<clo, m1, compare, phase>>
    BY <1>7 DEF system_timer_update_compare
  <2>2. /\ c1' \in 0 .. Wrap - 1
        /\ Ahead(c1') = IF Ahead(c1) + Interval < Wrap THEN Ahead(c1) + Interval
                        ELSE Ahead(c1) + Interval - Wrap
    BY <2>1, OneInterval DEF TickInv, TickTypes
  <2>3. Ahead(c1)' = Ahead(c1')
    BY <2>1 DEF Ahead
  <2>4. TickTypes'
    BY <2>1, <2>2 DEF TickInv, TickTypes
  <2>5. CASE overdue = 0
    <3>1. Ahead(c1) = Interval - phase /\ ~m1 /\ phase \in 0 .. Interval - 1
      BY <2>1, <2>5 DEF TickInv, TickTypes, HandlerDue, Armed
    <3>2. Ahead(c1)' = 2 * Interval - phase'
      BY <2>1, <2>2, <2>3, <3>1
    <3> QED  BY <2>1, <2>4, <3>1, <3>2 DEF TickInv, Armed, HandlerDue
  <2>6. CASE overdue > 0
    <3>1. /\ phase = overdue - 1 /\ phase \in 0 .. Interval - 1
          /\ Ahead(c1) = IF phase = 0 THEN 0 ELSE Wrap - phase
      BY <2>1, <2>6 DEF TickInv, TickTypes, Armed
    <3>2. Ahead(c1)' = Interval - phase'
      BY <2>1, <2>2, <2>3, <3>1
    <3> QED  BY <2>1, <2>4, <3>1, <3>2 DEF TickInv, Armed, HandlerDue
  <2> QED  BY <2>5, <2>6 DEF TickInv, TickTypes
<1>8. CASE UNCHANGED tvars
  <2>1. Ahead(c1)' = Ahead(c1) /\ Ahead(compare)' = Ahead(compare) /\ TickTypes'
    BY <1>8 DEF tvars, Ahead, TickInv, TickTypes
  <2>2. HandlerDue' <=> HandlerDue
    BY <1>8 DEF tvars, HandlerDue
  <2> QED  BY <1>8, <2>1, <2>2 DEF tvars, TickInv, Armed
<1> QED  BY <1>1, <1>2, <1>4, <1>5, <1>6, <1>7, <1>8 DEF TNext, Handler

(* Where the next match of the systick's channel is, in every state. *)
THEOREM TickInvHolds == TSpec => []TickInv
BY InitTick, NextTick, PTL DEF TSpec

(***************************************************************************)
(* systick.c never waits for a time that has passed: for every width of    *)
(* the counter and every interval, and from whatever the firmware left in  *)
(* the timer.                                                              *)
(***************************************************************************)
THEOREM NextMatchIsAhead ==
    TSpec => []NextMatchAhead
<1>1. TickInv => NextMatchAhead
  BY LatencyAssumption DEF TickInv, TickTypes, NextMatchAhead, Remaining, Ahead
<1> QED  BY <1>1, TickInvHolds, PTL

(***************************************************************************)
(* Matches fall on whole intervals after systick_init, however late the    *)
(* handlers are.                                                           *)
(***************************************************************************)
THEOREM TicksDoNotDrift ==
    TSpec => NoDrift
<1>1. TickInv /\ [TNext]_tvars
        => [Armed /\ match /\ clo' # clo => phase' = 0]_tvars
  <2> SUFFICES ASSUME TickInv, [TNext]_tvars, Armed, match, clo' # clo
               PROVE  phase' = 0
    OBVIOUS
  <2>1. TimePasses
    BY DEF TNext, tvars, system_timer_set_interval, Handler,
           systick_check_compare, systick_clear_interrupt,
           system_timer_update_compare, tick
  <2>2. /\ clo' = (clo + 1) % Wrap /\ clo' = c1 /\ overdue < MaxLatency
        /\ phase' = (phase + 1) % Interval
    BY <2>1 DEF TimePasses, match, Armed
  <2>3. Ahead(c1) = 1
    BY <2>2, OneUnit, LatencyAssumption DEF TickInv, TickTypes
  <2>4. phase + 1 = Interval
    BY <2>2, <2>3, LatencyAssumption DEF TickInv, TickTypes, Armed
  <2>5. (phase + 1) % Interval = 0
    BY <2>4, CounterStep, LatencyAssumption DEF TickInv, TickTypes
  <2> QED  BY <2>2, <2>5
<1> QED  BY <1>1, TickInvHolds, PTL DEF TSpec, NoDrift

-----------------------------------------------------------------------------
(***************************************************************************)
(* The start.  Every core but 0 stays on the way to _parkCore.  For core 0 *)
(* the mode it is in between two stack pointers tells how many of them it  *)
(* has written.                                                            *)
(***************************************************************************)
Modes == {"FIQ", "IRQ", "ABT", "UND", "SYS", "SVC"}

Early == {"_start", "_exitHyper", "_checkCores"}

Late == {"uart_init", "systick_init", "setup_interrupts", "scheduler_start", "thread"}

Labels == Early \cup {"_parkCore", "end", "_bsprak", "stacks"} \cup Late

(* The stacks written by a core that is in the j-th mode of StackModes. *)
Written(j) == \A i \in 1 .. j : sp[0][StackModes[i]] = StackModes[i]

BootTypes ==
    /\ bpc \in [Cores -> Labels] /\ mode \in [Cores -> Modes \cup {"HYP", "USR"}]
    /\ masked \in [Cores -> BOOLEAN]
    /\ sp \in [Cores -> [Modes -> Modes \cup {"none"}]]

Parked(k) ==
    /\ bpc[k] \in Early \cup {"_parkCore", "end"}
    /\ \A m \in Modes : sp[k][m] = "none"

CoreZero ==
    /\ bpc[0] \in Early \cup {"_bsprak", "stacks"} \cup Late
    /\ bpc[0] \in Early \cup {"_bsprak"} => mode[0] \in {"HYP", "SVC"}
    /\ bpc[0] \in Early \cup {"_bsprak", "stacks"} => irqs = {}
    /\ bpc[0] \in {"stacks"} \cup Late => masked[0] \/ bpc[0] = "thread"
    /\ bpc[0] = "thread" => vbar
    /\ bpc[0] = "scheduler_start" => vbar
    /\ bpc[0] = "stacks" => \A j \in 1 .. 5 : mode[0] = StackModes[j] => Written(j)
    /\ bpc[0] \in Late => Written(6)

BootInv ==
    /\ BootTypes
    /\ \A k \in Cores \ {0} : Parked(k)
    /\ CoreZero

(* The modes whose stack pointers entry.S sets. *)
LEMMA StackModesAre ==
    /\ Len(StackModes) = 6 /\ DOMAIN StackModes = 1 .. 6
    /\ Range(StackModes) = Modes
    /\ \A i \in 1 .. 6 : StackModes[i] \in Modes
    /\ \A i, j \in 1 .. 6 : StackModes[i] = StackModes[j] => i = j
    /\ StackModes[6] = "SVC"
    /\ \A m \in Modes : \E i \in 1 .. 6 : m = StackModes[i]
<1>1. Len(StackModes) = 6 /\ DOMAIN StackModes = 1 .. 6
  BY DEF StackModes
<1>2. /\ StackModes[1] = "FIQ" /\ StackModes[2] = "IRQ" /\ StackModes[3] = "ABT"
      /\ StackModes[4] = "UND" /\ StackModes[5] = "SYS" /\ StackModes[6] = "SVC"
  BY DEF StackModes
<1>3. 1 .. 6 = {1, 2, 3, 4, 5, 6}
  OBVIOUS
<1> QED  BY <1>1, <1>2, <1>3 DEF Range, Modes

(* Firmware leaves the cores in any mode, with no stack of this kernel. *)
LEMMA InitBoot == BInit => BootInv
<1> SUFFICES ASSUME BInit PROVE BootInv
  OBVIOUS
<1>1. sp = [k \in Cores |-> [m \in Modes |-> "none"]]
  BY StackModesAre DEF BInit
<1>2. 0 \in Cores
  BY CoresAssumption
<1>3. BootTypes
  BY <1>1 DEF BInit, BootTypes, Labels, Early, Modes
<1>4. \A k \in Cores : Parked(k)
  BY <1>1 DEF BInit, Parked, Early
<1>5. CoreZero
  BY <1>2 DEF BInit, CoreZero, Early, Late
<1> QED  BY <1>3, <1>4, <1>5 DEF BootInv

(* What a step of one core leaves alone of another. *)
LEMMA OtherCore ==
    ASSUME BootTypes, NEW k \in Cores, NEW l \in Cores, k # l, Core(k)
    PROVE  bpc'[l] = bpc[l] /\ mode'[l] = mode[l] /\ masked'[l] = masked[l]
           /\ sp'[l] = sp[l]
BY DEF BootTypes, Core, _start, _exitHyper, _checkCores, _parkCore, end,
       _bsprak, setup_stacks, at_stack, call_uart_init, call_systick_init, enables,
       setup_interrupts, scheduler_start, thread, Goto, bvars

(* The functions of the state keep their domains. *)
LEMMA BootTypesStep ==
    ASSUME BootTypes, NEW k \in Cores, Core(k)
    PROVE  BootTypes'
<1>1. CASE _start(k) \/ _exitHyper(k) \/ _checkCores(k)
  BY <1>1 DEF BootTypes, Labels, Early, Late, Modes, _start, _exitHyper, _checkCores, Goto
<1>2. CASE _parkCore(k) \/ end(k) \/ _bsprak(k) \/ thread(k)
  BY <1>2 DEF BootTypes, Labels, Early, Late, Modes, _parkCore, end, _bsprak, thread, Goto, bvars
<1>3. CASE setup_stacks(k)
  <2>1. PICK j \in 1 .. 6 :
            /\ at_stack(k, j)
            /\ sp' = [sp EXCEPT ![k][StackModes[j]] = StackModes[j]]
    BY <1>3, StackModesAre DEF setup_stacks
  <2>2. StackModes[j] \in Modes
    BY StackModesAre
  <2> QED  BY <2>1, <2>2 DEF BootTypes, Labels, Early, Late, at_stack, Goto
<1>4. CASE call_uart_init(k) \/ call_systick_init(k) \/ setup_interrupts(k)
           \/ scheduler_start(k)
  BY <1>4 DEF BootTypes, Labels, Early, Late, Modes, call_uart_init, call_systick_init, enables,
              setup_interrupts, scheduler_start, Goto
<1> QED  BY <1>1, <1>2, <1>3, <1>4 DEF Core

(* _checkCores sends every core but 0 to _parkCore. *)
LEMMA ParkedStep ==
    ASSUME BootTypes, NEW k \in Cores, k # 0, Parked(k), Core(k)
    PROVE  /\ bpc'[k] \in Early \cup {"_parkCore", "end"}
           /\ UNCHANGED <<sp, irqs, vbar>>
<1>1. k % 4 # 0
  BY CoresAssumption
<1>2. CASE _start(k) \/ _exitHyper(k) \/ _checkCores(k)
  BY <1>1, <1>2 DEF BootTypes, Early, _start, _exitHyper, _checkCores, Goto
<1>3. CASE _parkCore(k) \/ end(k)
  BY <1>3 DEF BootTypes, Parked, Early, _parkCore, end, Goto, bvars
<1> QED  BY <1>2, <1>3
         DEF Parked, Early, Core, _bsprak, setup_stacks, at_stack,
             call_uart_init, call_systick_init, enables, setup_interrupts,
             scheduler_start, thread

(* Core 0 writes one stack pointer after the other. *)
LEMMA StackStep ==
    ASSUME BootTypes, CoreZero, 0 \in Cores, setup_stacks(0)
    PROVE  CoreZero'
<1>1. PICK j \in 1 .. 6 :
            /\ at_stack(0, j)
            /\ sp' = [sp EXCEPT ![0][StackModes[j]] = StackModes[j]]
  BY StackModesAre DEF setup_stacks
<1>2. /\ bpc[0] = "stacks"
      /\ mode[0] = IF j = 1 THEN "SVC" ELSE StackModes[j - 1]
      /\ bpc'[0] = IF j = 6 THEN "uart_init" ELSE "stacks"
      /\ mode'[0] = StackModes[j]
      /\ UNCHANGED <<masked, irqs, vbar>>
  BY <1>1, StackModesAre DEF at_stack, Goto, BootTypes
<1>3. j # 1 => Written(j - 1)
  BY <1>2 DEF CoreZero
<1>4. /\ sp'[0][StackModes[j]] = StackModes[j]
      /\ \A m \in Modes : m # StackModes[j] => sp'[0][m] = sp[0][m]
  BY <1>1, StackModesAre DEF BootTypes
<1>5. Written(j)'
  <2> SUFFICES ASSUME NEW i \in 1 .. j
               PROVE  sp'[0][StackModes[i]] = StackModes[i]
    BY DEF Written
  <2>1. CASE i = j
    BY <1>4, <2>1
  <2>2. CASE i # j
    <3>1. i \in 1 .. j - 1 /\ j # 1 /\ StackModes[i] \in Modes
          /\ StackModes[i] # StackModes[j]
      BY <2>2, StackModesAre
    <3> QED  BY <1>3, <1>4, <3>1 DEF Written
  <2> QED  BY <2>1, <2>2
<1>6. CASE j = 6
  BY <1>2, <1>5, <1>6 DEF CoreZero, Early, Late
<1>7. CASE j # 6
  <2>1. ASSUME NEW l \in 1 .. 5, mode'[0] = StackModes[l] PROVE l = j
    <3>1. StackModes[l] = StackModes[j] /\ l \in 1 .. 6
      BY <1>2, <2>1
    <3> QED  BY <3>1, StackModesAre
  <2> QED  BY <1>2, <1>5, <1>7, <2>1 DEF CoreZero, Early, Late
<1> QED  BY <1>6, <1>7

(* The other steps of core 0, from _start to the first thread. *)
LEMMA CoreZeroStep ==
    ASSUME BootTypes, CoreZero, 0 \in Cores, Core(0)
    PROVE  CoreZero'
<1>0. ASSUME UNCHANGED sp PROVE \A j : Written(j)' <=> Written(j)
  BY <1>0 DEF Written
<1>1. CASE _start(0) \/ _exitHyper(0) \/ _checkCores(0)
  BY <1>1 DEF BootTypes, CoreZero, Early, Late, _start, _exitHyper,
              _checkCores, Goto
<1>2. CASE _bsprak(0)
  <2>1. /\ bpc'[0] = "stacks" /\ masked'[0] = TRUE
        /\ UNCHANGED <<mode, sp, irqs, vbar>> /\ bpc[0] = "_bsprak"
    BY <1>2 DEF BootTypes, _bsprak, Goto
  <2>2. \A j \in 1 .. 5 : mode'[0] # StackModes[j]
    <3>1. mode'[0] \in {"HYP", "SVC"}
      BY <2>1 DEF CoreZero
    <3>2. \A j \in 1 .. 5 : StackModes[j] # "SVC" /\ StackModes[j] \in Modes
      BY StackModesAre
    <3> QED  BY <3>1, <3>2 DEF Modes
  <2> QED  BY <2>1, <2>2 DEF CoreZero, Early, Late
<1>3. CASE setup_stacks(0)
  BY <1>3, StackStep
<1>4. CASE call_uart_init(0)
  BY <1>0, <1>4 DEF BootTypes, CoreZero, Early, Late, call_uart_init, enables, Goto
<1>5. CASE call_systick_init(0)
  BY <1>0, <1>5 DEF BootTypes, CoreZero, Early, Late, call_systick_init, enables,
                    Goto
<1>6. CASE setup_interrupts(0)
  BY <1>0, <1>6 DEF BootTypes, CoreZero, Early, Late, setup_interrupts, Goto
<1>7. CASE scheduler_start(0)
  BY <1>0, <1>7 DEF BootTypes, CoreZero, Early, Late, scheduler_start, Goto
<1>8. CASE thread(0) \/ end(0)
  BY <1>0, <1>8 DEF CoreZero, Early, Late, thread, end, bvars
<1>9. ~_parkCore(0)
  BY DEF CoreZero, Early, Late, _parkCore
<1> QED  BY <1>1, <1>2, <1>3, <1>4, <1>5, <1>6, <1>7, <1>8, <1>9 DEF Core

(* However the cores are interleaved, each step preserves the invariant. *)
LEMMA NextBoot ==
    BootInv /\ [BNext]_bvars => BootInv'
<1> SUFFICES ASSUME BootInv, [BNext]_bvars PROVE BootInv'
  OBVIOUS
<1>0. 0 \in Cores
  BY CoresAssumption
<1>1. ASSUME NEW k \in Cores, Core(k) PROVE BootInv'
  <2>1. BootTypes'
    BY <1>1, BootTypesStep DEF BootInv
  <2>2. ASSUME NEW l \in Cores \ {0} PROVE Parked(l)'
    <3>1. CASE l = k
      BY <1>1, <3>1, ParkedStep DEF BootInv, Parked
    <3>2. CASE l # k
      <4>1. bpc'[l] = bpc[l] /\ sp'[l] = sp[l] /\ Parked(l)
        BY <1>1, <3>2, OtherCore DEF BootInv
      <4> QED  BY <4>1 DEF Parked
    <3> QED  BY <3>1, <3>2
  <2>3. CoreZero'
    <3>1. CASE k = 0
      BY <1>0, <1>1, <3>1, CoreZeroStep DEF BootInv
    <3>2. CASE k # 0
      <4>1. UNCHANGED <<sp, irqs, vbar>>
        BY <1>1, <3>2, ParkedStep DEF BootInv
      <4>2. bpc'[0] = bpc[0] /\ mode'[0] = mode[0] /\ masked'[0] = masked[0]
        BY <1>0, <1>1, <3>2, OtherCore DEF BootInv
      <4>3. \A j : Written(j)' <=> Written(j)
        BY <4>1 DEF Written
      <4> QED  BY <4>1, <4>2, <4>3 DEF BootInv, CoreZero
    <3> QED  BY <3>1, <3>2
  <2> QED  BY <2>1, <2>2, <2>3 DEF BootInv
<1>2. CASE UNCHANGED bvars
  <2>1. \A j : Written(j)' <=> Written(j)
    BY <1>2 DEF Written, bvars
  <2> QED  BY <1>2, <2>1 DEF bvars, BootInv, BootTypes, Parked, CoreZero
<1> QED  BY <1>1, <1>2 DEF BNext

(* What entry.S and start_kernel keep true on all cores. *)
THEOREM BootInvHolds == BSpec => []BootInv
BY InitBoot, NextBoot, PTL DEF BSpec

(***************************************************************************)
(* entry.S: no two cores get hold of a stack, in whatever mode they start  *)
(* and however fast each of them is.                                       *)
(***************************************************************************)
THEOREM StacksOfOneCore ==
    BSpec => []NoSharedStack
<1>1. BootInv => NoSharedStack
  BY StackModesAre DEF BootInv, Parked, NoSharedStack, HasStack
<1> QED  BY <1>1, BootInvHolds, PTL

(***************************************************************************)
(* start_kernel: an interrupt enabled by uart_init or systick_init is not  *)
(* taken before the vectors and the stacks of all modes are in place.      *)
(***************************************************************************)
THEOREM InterruptsWait ==
    BSpec => []NoInterruptTooEarly
<1>1. ASSUME BootInv, irqs # {}, ~masked[0]
      PROVE  vbar /\ \A m \in Modes : sp[0][m] = m
  <2>1. bpc[0] = "thread"
    BY <1>1 DEF BootInv, CoreZero, Early, Late
  <2>2. vbar /\ Written(6)
    BY <1>1, <2>1 DEF BootInv, CoreZero, Late
  <2>3. ASSUME NEW m \in Modes PROVE sp[0][m] = m
    <3>1. PICK i \in 1 .. 6 : m = StackModes[i]
      BY StackModesAre
    <3> QED  BY <2>2, <3>1 DEF Written
  <2> QED  BY <2>2, <2>3
<1>2. BootInv => NoInterruptTooEarly
  BY <1>1, StackModesAre DEF NoInterruptTooEarly
<1> QED  BY <1>2, BootInvHolds, PTL

-----------------------------------------------------------------------------
(***************************************************************************)
(* The way of an interrupt.  Once the two lines are enabled, a CPU         *)
(* interrupt means that the UART has received or the systick's channel has *)
(* matched, and only the handler takes that back: GPU and devices do not   *)
(* touch these two bits.                                                   *)
(***************************************************************************)
InHandler == {"uart", "systick", "return"}

IrqInv ==
    /\ cpc \in {"enable_uart", "unmask_uart", "enable_timer", "user"} \cup InHandler
    /\ cs \subseteq 0 .. 3
    /\ ris \subseteq uart_irq_bits
    /\ enable_irqs = CASE cpc = "enable_uart" -> <<{}, {}>>
                       [] cpc \in {"unmask_uart", "enable_timer"} -> <<{}, {25}>>
                       [] OTHER -> <<{1}, {25}>>
    /\ imsc = IF cpc \in {"enable_uart", "unmask_uart"} THEN {} ELSE {4}
    /\ cpc = "uart" => 4 \in ris \/ 1 \in cs
    /\ cpc = "systick" => caused \/ 1 \in cs
    /\ cpc = "return" => caused

(* What the lines say to the CPU and to interrupt_controller_check_pending. *)
LEMMA PendingIs ==
    ASSUME IrqInv, cpc \in {"user"} \cup InHandler
    PROVE  /\ CpuInterrupt <=> 1 \in cs \/ 4 \in ris
           /\ interrupt_controller_check_pending(1) <=> 1 \in cs
<1>1. enable_irqs = <<{1}, {25}>> /\ imsc = {4} /\ cs \subseteq 0 .. 3
  BY DEF IrqInv, InHandler
<1>2. enable_irqs[1] = {1} /\ enable_irqs[2] = {25}
  BY <1>1
<1>3. 1 \in Lines <=> 1 \in cs
  BY DEF Lines, UART_IRQ
<1>4. 57 \in Lines <=> 4 \in ris
  BY <1>1 DEF Lines, UART_IRQ
<1>5. irq_pending(1) = {b \in {1} : b + 32 * (1 - 1) \in Lines}
  BY <1>2 DEF irq_pending
<1>6. irq_pending(2) = {b \in {25} : b + 32 * (2 - 1) \in Lines}
  BY <1>2 DEF irq_pending
<1>7. irq_pending(1) = IF 1 \in cs THEN {1} ELSE {}
  BY <1>3, <1>5
<1>8. irq_pending(2) = IF 4 \in ris THEN {25} ELSE {}
  BY <1>4, <1>6
<1> QED  BY <1>7, <1>8 DEF CpuInterrupt, interrupt_controller_check_pending

(* handle_irq and everything that happens around it. *)
LEMMA NextIrq == IrqInv /\ [CNext]_cvars => IrqInv'
<1> SUFFICES ASSUME IrqInv, [CNext]_cvars PROVE IrqInv'
  OBVIOUS
<1> USE DEF UART_IRQ, SYSTICK_TIMER_CHANNEL, SYSTICK_TIMER_IRQ_ID, UART_RX
<1>1. CASE uart_init
  <2>1. CASE cpc = "enable_uart"
    BY <1>1, <2>1 DEF uart_init, interrupt_controller_enable_irq, IrqInv,
                      InHandler
  <2>2. CASE cpc = "unmask_uart"
    BY <1>1, <2>2 DEF uart_init, uart_enable_irq, IrqInv, InHandler
  <2> QED  BY <1>1, <2>1, <2>2 DEF uart_init
<1>2. CASE systick_init
  BY <1>2 DEF systick_init, interrupt_controller_enable_irq, IrqInv, InHandler
<1>3. CASE handle_irq
  <2>1. 4 \in ris \/ 1 \in cs
    BY <1>3, PendingIs DEF handle_irq
  <2> QED  BY <1>3, <2>1 DEF handle_irq, IrqInv, InHandler
<1>4. CASE uart_handle_irq
  <2>1. imsc = {4}
    BY <1>4 DEF uart_handle_irq, IrqInv
  <2> QED  BY <1>4, <2>1 DEF uart_handle_irq, uart_check_irq, uart_clear_irq,
                             IrqInv, InHandler
<1>5. CASE systick_handle_irq
  <2>1. interrupt_controller_check_pending(1) <=> 1 \in cs
    BY <1>5, PendingIs DEF systick_handle_irq, InHandler
  <2> QED  BY <1>5, <2>1
           DEF systick_handle_irq, system_timer_check_compare,
               system_timer_clear_interrupt, IrqInv, InHandler
<1>6. CASE irq_returns
  BY <1>6 DEF irq_returns, IrqInv, InHandler
<1>7. CASE Environment
  BY <1>7 DEF Environment, DeviceEvent, GpuServes, GpuChannels,
              timer_channel, IrqInv
<1>8. CASE UNCHANGED cvars
  BY <1>8 DEF cvars, IrqInv
<1> QED  BY <1>1, <1>2, <1>3, <1>4, <1>5, <1>6, <1>7, <1>8 DEF CNext, ArmCode

(***************************************************************************)
(* handle_irq never returns from an interrupt it has found no cause of.    *)
(***************************************************************************)
THEOREM InterruptsAreServed == CSpec => []EveryInterruptHasACause
<1>1. CInit => IrqInv
  BY DEF CInit, timer_channel, IrqInv
<1>2. IrqInv => EveryInterruptHasACause
  BY DEF IrqInv, EveryInterruptHasACause
<1> QED  BY <1>1, <1>2, NextIrq, PTL DEF CSpec

-----------------------------------------------------------------------------
(***************************************************************************)
(* The report of a fault.  While an exception is handled the registers of  *)
(* its kind hold what the processor wrote for it.                          *)
(***************************************************************************)
Aborts == {"data_abort", "prefetch_abort"}

FaultInv ==
    /\ cause.fsr \subseteq FsrBits
    /\ kind = "data_abort" => dfsr = cause.fsr /\ dfar = cause.far
    /\ kind = "prefetch_abort" => ifsr = cause.fsr /\ ifar = cause.far
    /\ fpc = "decide" /\ kind \in Aborts =>
         report = [fsr |-> cause.fsr, far |-> cause.far,
                   text |-> get_fsr_description(cause.fsr)]

(* Taking, reporting and answering exceptions preserve it. *)
LEMMA NextFault == FaultInv /\ [FNext]_fvars => FaultInv'
<1> SUFFICES ASSUME FaultInv, [FNext]_fvars PROVE FaultInv'
  OBVIOUS
<1>1. CASE TakeException
  BY <1>1 DEF TakeException, NoCause, status, FaultInv, Aborts
<1>2. CASE print_exception_infos
  <2>1. CASE kind = "data_abort"
    BY <1>2, <2>1 DEF print_exception_infos, flags, status, FaultInv, Aborts
  <2>2. CASE kind = "prefetch_abort"
    BY <1>2, <2>2 DEF print_exception_infos, flags, status, FaultInv, Aborts
  <2>3. CASE kind \notin Aborts
    BY <1>2, <2>3 DEF print_exception_infos, status, FaultInv, Aborts
  <2> QED  BY <2>1, <2>2, <2>3 DEF Aborts
<1>3. CASE terminate_or_stop
  BY <1>3 DEF terminate_or_stop, status, FaultInv
<1>4. CASE stopped \/ UNCHANGED fvars
  BY <1>4 DEF stopped, fvars, status, FaultInv
<1> QED  BY <1>1, <1>2, <1>3, <1>4 DEF FNext

(* What the handlers of handlers.c rely on when they print. *)
THEOREM FaultInvHolds == FSpec => []FaultInv
<1>1. FInit => FaultInv
  BY DEF FInit, NoCause, FaultInv, Aborts
<1> QED  BY <1>1, NextFault, PTL DEF FSpec

(***************************************************************************)
(* The report of an abort is about that abort, whatever aborts of either   *)
(* kind there have been before it.                                         *)
(***************************************************************************)
THEOREM FaultsNotMixedUp == FSpec => []ReportsThisFault
<1>1. FaultInv => ReportsThisFault
  BY DEF FaultInv, Aborts, ReportsThisFault, Reported
<1> QED  BY <1>1, FaultInvHolds, PTL

(***************************************************************************)
(* get_fsr_description names every status below 16 by its own entry of the *)
(* table or as invalid, and returns a text for every register value the    *)
(* processor may write: bit 9, which it takes for status bit 4, is 0, so   *)
(* that the index 31, which the test of the bound lets pass, is not used.  *)
(***************************************************************************)
THEOREM StatusesNamed ==
    FSpec => []StatusNamed
<1>1. ASSUME NEW f \in SUBSET FsrBits
      PROVE  /\ get_fsr_description(f) \in fsr_sources \cup {Invalid}
             /\ 10 \notin f => get_fsr_description(f) = Text(Status(f))
  <2>1. fsr_status(f) \in 0 .. 15
    BY FsrAssumption DEF fsr_status, Low, Bit
  <2>2. 10 \notin f => fsr_status(f) = Status(f)
    BY FsrAssumption DEF fsr_status, Status, Low, Bit
  <2>3. get_fsr_description(f) = Text(fsr_status(f))
    BY <2>1 DEF get_fsr_description, Text, Entry, TableSize, NULL, Invalid,
                Outside, fsr_sources
  <2> QED  BY <2>2, <2>3 DEF Text
<1>2. FaultInv => StatusNamed
  BY <1>1 DEF FaultInv, Aborts, StatusNamed, Reported
<1> QED  BY <1>2, FaultInvHolds, PTL

-----------------------------------------------------------------------------
(***************************************************************************)
(* The memory functions.  The loop invariant: the part of the destination  *)
(* that has been filled, from below or, by the second loop of memmove,     *)
(* from above, holds what it should and the rest of the memory is as       *)
(* before.  So what is still to be read of the source is too.              *)
(***************************************************************************)
Down == call.fn = "memmove" /\ call.s1 >= call.s2

Filled == IF Down THEN call.s1 + n .. call.s1 + call.n - 1
          ELSE call.s1 .. call.s1 + (call.n - n) - 1

MemTypes ==
    /\ call \in Calls /\ Legal(call)
    /\ old \in [Cells -> Bytes] /\ mem \in [Cells -> Bytes]
    /\ n \in 0 .. call.n
    /\ mpc \in {"loop", "done"}
    /\ str1 = IF Down THEN call.s1 ELSE call.s1 + (call.n - n)
    /\ str2 = IF Down THEN call.s2 ELSE call.s2 + (call.n - n)

CopyInv ==
    call.fn # "memcmp" =>
        /\ \A a \in Cells : mem[a] = IF a \in Filled THEN Expected(a) ELSE old[a]
        /\ mpc = "done" => n = 0

(* memcmp has found the bytes before the last one it looked at to be equal. *)
CompareInv ==
    call.fn = "memcmp" =>
        /\ mem = old
        /\ res \in Int
        /\ \A k \in 0 .. call.n - n - 1 :
             res = 0 \/ k # call.n - n - 1 => old[call.s1 + k] = old[call.s2 + k]
        /\ res # 0 => /\ n < call.n
                      /\ res = old[call.s1 + (call.n - n - 1)]
                                 - old[call.s2 + (call.n - n - 1)]
        /\ mpc = "done" => n = 0 \/ res # 0

MemInv == MemTypes /\ CopyInv /\ CompareInv

(* An interval with one more element at an end. *)
LEMMA IntervalGrows ==
    ASSUME NEW a \in Int, NEW b \in Int, a <= b
    PROVE  /\ a .. b = (a .. b - 1) \cup {b}
           /\ a .. b = (a + 1 .. b) \cup {a}
OBVIOUS

(* What a legal call is made of. *)
LEMMA CallIs ==
    ASSUME call \in Calls, Legal(call)
    PROVE  /\ call.s1 \in Nat /\ call.s2 \in Nat /\ call.n \in Nat /\ call.c \in Int
           /\ call.s1 + call.n <= MemSize /\ call.s2 + call.n <= MemSize
           /\ MemSize \in Nat
           /\ call.fn \in {"memcmp", "memcpy", "memmove", "memset", "thread_init"}
<1>1. MemSize \in Nat /\ Fills \subseteq Int
  BY MemoryAssumption
<1>2. /\ call.s1 \in 0 .. MemSize /\ call.s2 \in 0 .. MemSize
      /\ call.n \in 0 .. MemSize /\ call.c \in Fills
      /\ call.fn \in {"memcmp", "memcpy", "memmove", "memset", "thread_init"}
  BY DEF Calls
<1>3. Fits(call.s1, call.n) /\ Fits(call.s2, call.n)
  BY DEF Legal
<1>4. call.s1 + call.n <= MemSize /\ call.s2 + call.n <= MemSize
  BY <1>3 DEF Fits
<1>5. call.c \in Int
  BY <1>1, <1>2, Zenon
<1>6. \A x \in 0 .. MemSize : x \in Nat
  BY <1>1
<1>7. call.s1 \in Nat /\ call.s2 \in Nat /\ call.n \in Nat
  BY <1>2, <1>6, Zenon
<1> QED  BY <1>1, <1>2, <1>4, <1>5, <1>7, Zenon

(* The callers' arguments and the memory as it is. *)
LEMMA InitMem == MInit => MemInv
<1> SUFFICES ASSUME MInit PROVE MemInv
  OBVIOUS
<1>1. /\ call \in Calls /\ Legal(call)
      /\ old \in [Cells -> Bytes] /\ mem = old
      /\ str1 = call.s1 /\ str2 = call.s2 /\ n = call.n /\ res = 0 /\ mpc = "loop"
  BY MemoryAssumption DEF MInit, Cells, Bytes
<1>2. /\ call.s1 \in Nat /\ call.s2 \in Nat /\ call.n \in Nat
  BY <1>1, CallIs
<1>3. Filled = {}
  BY <1>1, <1>2 DEF Filled
<1>4. MemTypes
  BY <1>1, <1>2 DEF MemTypes
<1>5. CopyInv
  BY <1>1, <1>3 DEF CopyInv
<1>6. CompareInv
  BY <1>1, <1>2 DEF CompareInv
<1> QED  BY <1>4, <1>5, <1>6 DEF MemInv

(* One more cell w of the destination is filled. *)
LEMMA FillOne ==
    ASSUME MemTypes, CopyInv, call.fn # "memcmp", NEW w \in Cells,
           mem' = [mem EXCEPT ![w] = Expected(w)], Filled' = Filled \cup {w},
           UNCHANGED <<call, old>>, mpc' # "done"
    PROVE  CopyInv'
<1> SUFFICES ASSUME NEW a \in Cells
             PROVE  mem'[a] = IF a \in Filled' THEN Expected(a)' ELSE old'[a]
  BY DEF CopyInv, Cells
<1>1. Expected(a)' = Expected(a)
  BY DEF Expected, Block
<1>2. mem'[a] = IF a = w THEN Expected(w) ELSE mem[a]
  BY DEF MemTypes
<1>3. mem[a] = IF a \in Filled THEN Expected(a) ELSE old[a]
  BY DEF CopyInv
<1> QED  BY <1>1, <1>2, <1>3

(***************************************************************************)
(* The loops that go up.  The byte to be read has not been overwritten:    *)
(* the blocks of memcpy do not overlap, and memmove goes up only if the    *)
(* source is above the destination.                                        *)
(***************************************************************************)
LEMMA UpStep ==
    ASSUME MemInv, mpc = "loop", n > 0, up,
           \/ /\ call.fn = "memset"
              /\ mem' = [mem EXCEPT ![str1] = call.c % 256]
           \/ /\ \/ call.fn \in {"memcpy", "thread_init"}
                 \/ call.fn = "memmove" /\ call.s1 < call.s2
              /\ mem' = [mem EXCEPT ![str1] = mem[str2]]
    PROVE  MemInv'
<1> USE DEF MemInv
<1>1. /\ call.s1 \in Nat /\ call.s2 \in Nat /\ call.n \in Nat /\ call.c \in Int
      /\ call.s1 + call.n <= MemSize /\ call.s2 + call.n <= MemSize
      /\ MemSize \in Nat
  BY CallIs DEF MemTypes
<1>2. /\ str1' = str1 + 1 /\ str2' = str2 + 1 /\ n' = n - 1
      /\ UNCHANGED <<call, old, mpc>>
  BY DEF up
<1>3. ~Down /\ ~Down' /\ call.fn # "memcmp"
  BY <1>1, <1>2 DEF Down
<1>4. /\ str1 = call.s1 + (call.n - n) /\ str2 = call.s2 + (call.n - n)
      /\ n \in 1 .. call.n
  BY <1>3 DEF MemTypes
<1>5. str1 \in Cells /\ str2 \in Cells
  BY <1>1, <1>4 DEF Cells
<1>6. Filled = call.s1 .. str1 - 1 /\ Filled' = call.s1 .. str1
  <2>1. /\ Filled = call.s1 .. call.s1 + (call.n - n) - 1
        /\ Filled' = call.s1 .. call.s1 + (call.n - n') - 1
    BY <1>2, <1>3 DEF Filled
  <2>2. /\ call.s1 + (call.n - n) - 1 = str1 - 1
        /\ call.s1 + (call.n - n') - 1 = str1
    BY <1>1, <1>2, <1>4
  <2> QED  BY <2>1, <2>2
<1>7. Filled' = Filled \cup {str1}
  <2>1. str1 \in Int /\ call.s1 <= str1
    BY <1>1, <1>4
  <2> QED  BY <1>1, <1>6, <2>1, IntervalGrows
<1>8. str1 \in Block(call.s1, call.n)
  BY <1>1, <1>4 DEF Block
<1>9. mem' = [mem EXCEPT ![str1] = Expected(str1)]
  <2>1. CASE call.fn = "memset"
    BY <1>8, <2>1 DEF Expected
  <2>2. CASE call.fn # "memset"
    <3>1. str2 \notin Filled
      <4>1. CASE call.fn = "memmove"
        BY <1>1, <1>4, <1>6, <2>2, <4>1
      <4>2. CASE call.fn \in {"memcpy", "thread_init"}
        <5>1. Block(call.s1, call.n) \cap Block(call.s2, call.n) = {}
          BY <4>2 DEF MemTypes, Legal
        <5>2. str2 \in Block(call.s2, call.n)
          BY <1>1, <1>4 DEF Block
        <5>3. Filled \subseteq Block(call.s1, call.n)
          BY <1>1, <1>4, <1>6 DEF Block
        <5> QED  BY <5>1, <5>2, <5>3
      <4> QED  BY <2>2, <4>1, <4>2
    <3>2. mem[str2] = old[str2]
      BY <1>3, <1>5, <3>1 DEF CopyInv
    <3>3. call.s2 + (str1 - call.s1) = str2
      BY <1>1, <1>4
    <3>4. Expected(str1) = old[str2]
      BY <1>3, <1>8, <2>2, <3>3 DEF Expected
    <3> QED  BY <2>2, <3>2, <3>4
  <2> QED  BY <2>1, <2>2
<1>10. CopyInv'
  BY <1>2, <1>3, <1>5, <1>7, <1>9, FillOne
<1>11. mem' \in [Cells -> Bytes]
  <2>1. call.c % 256 \in Bytes
    <3>1. \A x \in Int : x % 256 \in 0 .. 255
      OBVIOUS
    <3> QED  BY <1>1, <3>1 DEF Bytes
  <2>2. mem \in [Cells -> Bytes]
    BY DEF MemTypes
  <2> QED  BY <1>5, <2>1, <2>2
<1>12. MemTypes'
  BY <1>1, <1>2, <1>3, <1>4, <1>11 DEF MemTypes
<1> QED  BY <1>2, <1>3, <1>10, <1>12 DEF CompareInv

(* The loop of memmove that goes down, from a source below the destination. *)
LEMMA DownStep ==
    ASSUME MemInv, mpc = "loop", n > 0, Down,
           n' = n - 1, mem' = [mem EXCEPT ![str1 + n - 1] = mem[str2 + n - 1]],
           UNCHANGED <<call, old, str1, str2, res, mpc>>
    PROVE  MemInv'
<1> USE DEF MemInv
<1> DEFINE w == str1 + n - 1
           r == str2 + n - 1
<1>1. /\ call.s1 \in Nat /\ call.s2 \in Nat /\ call.n \in Nat
      /\ call.s1 + call.n <= MemSize /\ call.s2 + call.n <= MemSize
      /\ MemSize \in Nat /\ call.s2 <= call.s1
  BY CallIs DEF MemTypes, Down
<1>2. /\ Down' /\ call.fn = "memmove"
      /\ str1 = call.s1 /\ str2 = call.s2 /\ n \in 1 .. call.n
  BY DEF Down, MemTypes
<1>3. w \in Cells /\ r \in Cells /\ w \in Block(call.s1, call.n)
  BY <1>1, <1>2 DEF Cells, Block
<1> DEFINE last == call.s1 + call.n - 1
<1>4. Filled = w + 1 .. last /\ Filled' = w .. last
  BY <1>1, <1>2 DEF Filled
<1>5. Filled' = Filled \cup {w} /\ r \notin Filled
  <2>1. w \in Int /\ last \in Int /\ w <= last /\ r \in Int /\ r <= w
    BY <1>1, <1>2
  <2> HIDE DEF w, r, last
  <2> QED  BY <1>4, <2>1, IntervalGrows
<1>6. call.s2 + (w - call.s1) = r
  BY <1>1, <1>2
<1>7. mem' = [mem EXCEPT ![w] = mem[r]]
  OBVIOUS
<1> HIDE DEF w, r
<1>8. mem[r] = Expected(w)
  BY <1>2, <1>3, <1>5, <1>6 DEF CopyInv, Expected
<1>9. CopyInv'
  BY <1>2, <1>3, <1>5, <1>7, <1>8, FillOne
<1>10. mem' \in [Cells -> Bytes]
  BY <1>3, <1>7 DEF MemTypes
<1>11. MemTypes'
  BY <1>1, <1>2, <1>10 DEF MemTypes
<1> QED  BY <1>2, <1>9, <1>11 DEF CompareInv

(* A round of memcmp. *)
LEMMA CompareStep ==
    ASSUME MemInv, mpc = "loop", call.fn = "memcmp", n > 0,
           res = 0, res' = mem[str1] - mem[str2], up, UNCHANGED mem
    PROVE  MemInv'
<1> USE DEF MemInv
<1>1. /\ call.s1 \in Nat /\ call.s2 \in Nat /\ call.n \in Nat
      /\ call.s1 + call.n <= MemSize /\ call.s2 + call.n <= MemSize
      /\ MemSize \in Nat
  BY CallIs DEF MemTypes
<1>2. /\ str1' = str1 + 1 /\ str2' = str2 + 1 /\ n' = n - 1
      /\ UNCHANGED <<call, old, mpc>> /\ ~Down /\ ~Down'
  BY DEF up, Down
<1> DEFINE k0 == call.n - n
<1>3. /\ str1 = call.s1 + k0 /\ str2 = call.s2 + k0 /\ n \in 1 .. call.n
      /\ call.n - n' - 1 = k0
  BY <1>1, <1>2 DEF MemTypes
<1>4. str1 \in Cells /\ str2 \in Cells
  BY <1>1, <1>3 DEF Cells
<1>5. mem[str1] \in Int /\ mem[str2] \in Int /\ mem = old
  BY <1>4 DEF MemTypes, Bytes, CompareInv
<1>6. /\ res' \in Int
      /\ res' = old[call.s1 + k0] - old[call.s2 + k0]
      /\ res' = 0 => old[call.s1 + k0] = old[call.s2 + k0]
  BY <1>3, <1>5
<1>7. \A k \in 0 .. k0 - 1 : old[call.s1 + k] = old[call.s2 + k]
  BY DEF CompareInv
<1>8. CompareInv'
  <2>1. \A k \in 0 .. k0 : k = k0 \/ k \in 0 .. k0 - 1
    BY <1>1, <1>3
  <2> HIDE DEF k0
  <2> QED  BY <1>1, <1>2, <1>3, <1>5, <1>6, <1>7, <2>1 DEF CompareInv
<1>9. MemTypes'
  BY <1>1, <1>2, <1>3 DEF MemTypes
<1> QED  BY <1>2, <1>8, <1>9 DEF CopyInv

(* Every round of every function preserves the loop invariant. *)
LEMMA NextMem ==
    MemInv /\ [MNext]_mvars => MemInv'
<1> SUFFICES ASSUME MemInv, [MNext]_mvars PROVE MemInv'
  OBVIOUS
<1>1. CASE UNCHANGED mvars
  BY <1>1 DEF mvars, MemInv, MemTypes, Down, CopyInv, Filled, CompareInv, Expected
<1>2. ASSUME Return, mpc = "loop",
             call.fn # "memcmp" => n = 0,
             call.fn = "memcmp" => n = 0 \/ res # 0
      PROVE  MemInv'
  BY <1>2 DEF Return, MemInv, MemTypes, Down, CopyInv, Filled, CompareInv, Expected
<1>3. CASE mpc = "loop" /\ call.fn = "memcmp" /\ memcmp
  BY <1>2, <1>3, CompareStep DEF memcmp
<1>4. CASE mpc = "loop" /\ call.fn \in {"memcpy", "thread_init"} /\ memcpy
  BY <1>2, <1>4, UpStep DEF memcpy
<1>5. CASE mpc = "loop" /\ call.fn = "memmove" /\ memmove
  <2>1. CASE call.s1 < call.s2 /\ memcpy
    BY <1>2, <1>5, <2>1, UpStep DEF memcpy
  <2>2. CASE call.s1 >= call.s2 /\ ~(call.s1 < call.s2 /\ memcpy)
    BY <1>2, <1>5, <2>2, DownStep DEF memmove, Down
  <2> QED  BY <1>5, <2>1, <2>2 DEF memmove
<1>6. CASE mpc = "loop" /\ call.fn = "memset" /\ memset
  BY <1>2, <1>6, UpStep DEF memset
<1> QED  BY <1>1, <1>3, <1>4, <1>5, <1>6 DEF MNext

(* The loop invariant of mem.c holds throughout every call. *)
THEOREM MemInvHolds == MSpec => []MemInv
BY InitMem, NextMem, PTL DEF MSpec

(* The least element of a set of numbers. *)
LEMMA MinIs ==
    ASSUME NEW S \in SUBSET Int, NEW x \in S, \A y \in S : x <= y
    PROVE  Min(S) = x
<1>1. \A z \in S : (\A y \in S : z <= y) => z = x
  OBVIOUS
<1>2. Min(S) \in S /\ \A y \in S : Min(S) <= y
  BY DEF Min
<1> QED  BY <1>1, <1>2

(***************************************************************************)
(* mem.c is correct for memories of every size and contents, every length, *)
(* and every overlap of the blocks of memmove.                             *)
(***************************************************************************)
THEOREM MemFunctionsAreCorrect ==
    MSpec => []MemFunctionsCorrect
<1>1. MemInv => CopiesExactly
  <2> SUFFICES ASSUME MemInv, mpc = "done", NEW a \in Cells
               PROVE  mem[a] = Expected(a)
    BY DEF CopiesExactly
  <2>1. CASE call.fn = "memcmp"
    BY <2>1 DEF MemInv, CompareInv, Expected
  <2>2. CASE call.fn # "memcmp"
    <3>1. n = 0 /\ mem[a] = IF a \in Filled THEN Expected(a) ELSE old[a]
      BY <2>2 DEF MemInv, CopyInv
    <3>2. call.s1 \in Nat /\ call.n \in Nat
      BY CallIs DEF MemInv, MemTypes
    <3>3. Filled = Block(call.s1, call.n)
      BY <3>1, <3>2 DEF Filled, Block
    <3> QED  BY <2>2, <3>1, <3>3 DEF Expected
  <2> QED  BY <2>1, <2>2
<1>2. MemInv => ComparesFirstDifference
  <2> SUFFICES ASSUME MemInv, mpc = "done", call.fn = "memcmp"
               PROVE  ComparesFirstDifference
    BY DEF ComparesFirstDifference
  <2> DEFINE Differing == {k \in 0 .. call.n - 1 :
                             old[call.s1 + k] # old[call.s2 + k]}
             x == call.n - n - 1
  <2>1. /\ call.s1 \in Nat /\ call.s2 \in Nat /\ call.n \in Nat
        /\ call.s1 + call.n <= MemSize /\ call.s2 + call.n <= MemSize
        /\ MemSize \in Nat /\ n \in 0 .. call.n /\ old \in [Cells -> Bytes]
    BY CallIs DEF MemInv, MemTypes
  <2>2. /\ res \in Int
        /\ \A k \in 0 .. x : res = 0 \/ k # x => old[call.s1 + k] = old[call.s2 + k]
        /\ res # 0 => n < call.n /\ res = old[call.s1 + x] - old[call.s2 + x]
        /\ n = 0 \/ res # 0
    BY DEF MemInv, CompareInv
  <2>3. \A k \in 0 .. call.n - 1 :
            old[call.s1 + k] \in Int /\ old[call.s2 + k] \in Int
    <3> SUFFICES ASSUME NEW k \in 0 .. call.n - 1
                 PROVE  old[call.s1 + k] \in Int /\ old[call.s2 + k] \in Int
      OBVIOUS
    <3>1. call.s1 + k \in Cells /\ call.s2 + k \in Cells
      BY <2>1 DEF Cells
    <3> QED  BY <2>1, <3>1 DEF Bytes
  <2>4. CASE res = 0
    <3>1. Differing = {}
      BY <2>1, <2>2, <2>4
    <3> QED  BY <2>4, <3>1 DEF ComparesFirstDifference
  <2>5. CASE res # 0
    <3>1. x \in 0 .. call.n - 1
      BY <2>1, <2>2, <2>5
    <3> HIDE DEF x
    <3>2. x \in Differing
      BY <2>2, <2>3, <2>5, <3>1
    <3>3. \A y \in Differing : x <= y
      BY <2>1, <2>2, <3>1
    <3>4. Min(Differing) = x
      BY <3>2, <3>3, MinIs
    <3>5. res < 0 <=> old[call.s1 + x] < old[call.s2 + x]
      BY <2>2, <2>3, <2>5, <3>1
    <3> QED  BY <2>5, <3>2, <3>4, <3>5 DEF ComparesFirstDifference
  <2> QED  BY <2>2, <2>4, <2>5
<1> QED  BY <1>1, <1>2, MemInvHolds, PTL DEF MemFunctionsCorrect

(* Rounding down gives a multiple. *)
LEMMA RoundedDown ==
    ASSUME NEW m \in Nat \ {0}, NEW x \in Int
    PROVE  /\ x - (x % m) \in Int /\ x - (x % m) <= x
           /\ (x - (x % m)) % m = 0
<1> DEFINE q == x \div m
           r == x % m
<1>1. x = m * q + r /\ q \in Int /\ r \in 0 .. m - 1
  BY RemainderLemma
<1> HIDE DEF q, r
<1>2. (0 + q * m) % m = 0 % m
  BY <1>1, SameRemainder
<1>3. (x - r) % m = 0
  <2>1. 0 + q * m = x - r
    BY <1>1
  <2> QED  BY <1>2, <2>1
<1>4. x - r \in Int /\ x - r <= x
  BY <1>1
<1> QED  BY <1>3, <1>4 DEF r

(* Rounding a number down to a multiple stays above smaller multiples. *)
LEMMA RoundDown ==
    ASSUME NEW m \in Nat \ {0}, NEW x \in Int, NEW lo \in Int, lo % m = 0, lo <= x
    PROVE  x - (x % m) \in lo .. x
<1> DEFINE q == x \div m
           r == x % m
           p == lo \div m
<1>1. x = m * q + r /\ q \in Int /\ r \in 0 .. m - 1
  BY RemainderLemma
<1>2. lo = m * p /\ p \in Int
  BY RemainderLemma
<1> HIDE DEF q, r, p
<1>3. p <= q
  <2> SUFFICES ASSUME q <= p - 1 PROVE FALSE
    BY <1>1, <1>2
  <2>1. m * (p - 1 - q) >= 0 /\ p - 1 - q \in Int
    BY <1>1, <1>2
  <2>2. m * p = m * (p - 1 - q) + m + m * q
    BY <1>1, <1>2
  <2> QED  BY <1>1, <1>2, <2>1, <2>2
<1>4. m * q = m * (q - p) + m * p /\ m * (q - p) >= 0
  BY <1>1, <1>2, <1>3
<1>5. x - r = m * q /\ x - r \in lo .. x
  BY <1>1, <1>2, <1>4
<1> QED  BY <1>5 DEF r

(***************************************************************************)
(* thread_init gives a thread an aligned stack pointer to its own copy of  *)
(* the argument and writes nothing above its stack, for every size of the  *)
(* argument.  It stays above the thread's list node, which is below the    *)
(* stack, exactly if the argument is no larger than the stack.             *)
(***************************************************************************)
THEOREM ArgumentsOnOwnStacks ==
    MSpec => []ArgumentOnOwnStack
<1>1. MemInv /\ CopiesExactly => ArgumentOnOwnStack
  <2> SUFFICES ASSUME MemInv, CopiesExactly, mpc = "done", call.fn = "thread_init"
               PROVE  ArgumentOnOwnStack
    BY DEF ArgumentOnOwnStack
  <2>1. /\ call.s1 \in Nat /\ call.s2 \in Nat /\ call.n \in Nat
        /\ call.s1 + call.n <= MemSize /\ MemSize \in Nat
        /\ stack \in Nat /\ THREAD_STACK_SIZE \in Nat /\ Align \in Nat \ {0}
        /\ stack % Align = 0
    BY CallIs, MemoryAssumption DEF MemInv, MemTypes
  <2> DEFINE x == stack + THREAD_STACK_SIZE - call.n
  <2>2. call.s1 = x - (x % Align)
    BY DEF MemInv, MemTypes, Legal, initial_sp
  <2>3. /\ x \in Int /\ x + call.n = stack + THREAD_STACK_SIZE
        /\ stack <= x <=> call.n <= THREAD_STACK_SIZE
    BY <2>1
  <2> HIDE DEF x
  <2>4. call.s1 <= x /\ call.s1 % Align = 0
    BY <2>1, <2>2, <2>3, RoundedDown
  <2>5. call.s1 >= stack <=> call.n <= THREAD_STACK_SIZE
    <3>1. CASE call.n <= THREAD_STACK_SIZE
      <4>1. call.s1 \in stack .. x
        BY <2>1, <2>2, <2>3, <3>1, RoundDown
      <4> QED  BY <2>1, <3>1, <4>1
    <3>2. CASE ~(call.n <= THREAD_STACK_SIZE)
      BY <2>1, <2>3, <2>4, <3>2
    <3> QED  BY <3>1, <3>2
  <2>6. ASSUME NEW k \in 0 .. call.n - 1
        PROVE  mem[call.s1 + k] = old[call.s2 + k]
    <3> DEFINE a == call.s1 + k
    <3>1. a \in Cells /\ a \in Block(call.s1, call.n)
          /\ call.s2 + (a - call.s1) = call.s2 + k
      BY <2>1 DEF Cells, Block
    <3> HIDE DEF a
    <3>2. mem[a] = old[call.s2 + k]
      BY <3>1 DEF CopiesExactly, Expected
    <3> QED  BY <3>2 DEF a
  <2>7. ASSUME NEW a \in Cells, a >= stack + THREAD_STACK_SIZE
        PROVE  mem[a] = old[a]
    <3>1. a \notin Block(call.s1, call.n)
      BY <2>1, <2>3, <2>4, <2>7 DEF Block, Cells
    <3> QED  BY <3>1 DEF CopiesExactly, Expected
  <2>8. ASSUME call.n <= THREAD_STACK_SIZE, NEW a \in Cells, a < stack
        PROVE  mem[a] = old[a]
    <3>1. a \notin Block(call.s1, call.n)
      BY <2>1, <2>5, <2>8 DEF Block, Cells
    <3> QED  BY <3>1 DEF CopiesExactly, Expected
  <2> QED  BY <2>4, <2>5, <2>6, <2>7, <2>8 DEF ArgumentOnOwnStack
<1> QED  BY <1>1, MemInvHolds, MemFunctionsAreCorrect, PTL DEF MemFunctionsCorrect

-----------------------------------------------------------------------------
(* Both bases of kprintf leave natural numbers. *)
LEMMA QuotientNat ==
    ASSUME NEW base \in {10, 16}, NEW x \in Nat
    PROVE  x \div base \in Nat /\ x % base \in 0 .. base - 1
           /\ x = base * (x \div base) + (x % base)
<1>1. base \in Nat \ {0} /\ x \in Int
  OBVIOUS
<1>2. /\ x % base \in 0 .. base - 1
      /\ x \div base \in Int
      /\ x = base * (x \div base) + (x % base)
  BY <1>1, RemainderLemma
<1>3. x \div base \in Nat
  <2> DEFINE y == x \div base
             z == x % base
  <2>1. y \in Int /\ z \in 0 .. base - 1 /\ x = base * y + z
    BY <1>2
  <2> HIDE DEF y, z
  <2>2. y >= 0
    <3>1. CASE base = 10
      BY <3>1, <2>1
    <3>2. CASE base = 16
      BY <3>2, <2>1
    <3> QED  BY <3>1, <3>2
  <2> QED  BY <2>1, <2>2 DEF y
<1> QED  BY <1>2, <1>3

(* The values of the loop of convert_to_base_string. *)
LEMMA LeftIs ==
    ASSUME NEW value \in Nat, NEW base \in {10, 16}
    PROVE  /\ left(value, base) \in [0 .. MaxRounds -> Nat]
           /\ left(value, base)[0] = value
           /\ \A k \in 1 .. MaxRounds :
                left(value, base)[k] = left(value, base)[k - 1] \div base
<1> DEFINE h == [k \in Nat |-> [x \in Nat |-> x \div base]]
           f == left(value, base)
<1>1. h \in [Nat -> [Nat -> Nat]]
  BY QuotientNat
<1>2. PICK g \in [0 .. 32 -> Nat] : History(g, 32, value, h)
  <2> HIDE DEF h
  <2>1. \A len \in Nat : \E g \in [0 .. len -> Nat] : History(g, len, value, h)
    BY <1>1, HistoryExists, Zenon
  <2> QED  BY <2>1
<1>3. g = [k \in 0 .. 32 |-> IF k = 0 THEN value ELSE g[k - 1] \div base]
  <2>1. \A k \in 0 .. 32 : k # 0 => h[k][g[k - 1]] = g[k - 1] \div base
    OBVIOUS
  <2> HIDE DEF h
  <2> QED  BY <1>2, <2>1 DEF History
<1>4. f = [k \in 0 .. 32 |-> IF k = 0 THEN value ELSE f[k - 1] \div base]
  <2> DEFINE c == CHOOSE v : v = [k \in 0 .. 32 |-> IF k = 0 THEN value ELSE v[k - 1] \div base]
  <2>1. \E v : v = [k \in 0 .. 32 |-> IF k = 0 THEN value ELSE v[k - 1] \div base]
    BY <1>3
  <2>2. c = [k \in 0 .. 32 |-> IF k = 0 THEN value ELSE c[k - 1] \div base]
    <3> HIDE DEF c
    <3> QED  BY <2>1 DEF c
  <2> QED  BY <2>2 DEF left, MaxRounds
<1> HIDE DEF f
<1>5. DOMAIN f = 0 .. 32 /\ f[0] = value
      /\ \A k \in 1 .. 32 : f[k] = f[k - 1] \div base
  <2>1. DOMAIN f = 0 .. 32
    BY <1>4
  <2>2. \A j \in 0 .. 32 : f[j] = IF j = 0 THEN value ELSE f[j - 1] \div base
    <3> TAKE j \in 0 .. 32
    <3>1. f[j] = [k \in 0 .. 32 |-> IF k = 0 THEN value ELSE f[k - 1] \div base][j]
      BY <1>4
    <3> QED  BY <3>1
  <2> QED  BY <2>1, <2>2
<1> DEFINE T == {len \in Nat : len <= 32 => f[len] \in Nat}
<1>6. 0 \in T
  BY <1>5
<1>7. ASSUME NEW len \in Nat, len \in T
      PROVE  len + 1 \in T
  <2>1. CASE len + 1 <= 32
    <3>1. f[len] \in Nat /\ f[len + 1] = f[(len + 1) - 1] \div base
      BY <1>5, <1>7, <2>1
    <3>2. f[len + 1] = f[len] \div base
      BY <3>1
    <3> QED  BY <3>1, <3>2, QuotientNat
  <2> QED  BY <2>1
<1>8. \A len \in Nat : len \in T
  <2> HIDE DEF T
  <2> QED  BY <1>6, <1>7, SetInduction
<1>9. f \in [0 .. 32 -> Nat]
  <2>1. f = [k \in 0 .. 32 |-> IF k = 0 THEN value ELSE f[k - 1] \div base]
    BY <1>4
  <2>2. \A k \in 0 .. 32 : f[k] \in Nat
    BY <1>8
  <2>3. f = [k \in 0 .. 32 |-> f[k]]
    BY <2>1
  <2> QED  BY <2>2, <2>3
<1> QED  BY <1>5, <1>9 DEF f, MaxRounds

(* Quotients by the two bases, from above. *)
LEMMA QuotientBound ==
    ASSUME NEW base \in {10, 16}, NEW x \in Nat, NEW c \in Nat,
           x <= base * c + (base - 1)
    PROVE  x \div base <= c
<1> DEFINE y == x \div base
           z == x % base
<1>1. y \in Nat /\ z \in 0 .. base - 1 /\ x = base * y + z
  BY QuotientNat
<1> HIDE DEF y, z
<1>2. CASE base = 10
  <2>1. z \in Int /\ z >= 0 /\ x = 10 * y + z /\ x <= 10 * c + 9
    BY <1>1, <1>2
  <2> QED  BY <1>1, <2>1 DEF y
<1>3. CASE base = 16
  <2>1. z \in Int /\ z >= 0 /\ x = 16 * y + z /\ x <= 16 * c + 15
    BY <1>1, <1>3
  <2> QED  BY <1>1, <2>1 DEF y
<1> QED  BY <1>2, <1>3

(* The greatest word of 32 bits. *)
LEMMA WordBound ==
    ASSUME NEW x \in Nat, x \div 65536 <= 65535
    PROVE  x <= 4294967295
<1> DEFINE y == x \div 65536
           z == x % 65536
<1>1. PICK m \in Nat \ {0} : m = 65536
  BY SMT
<1>2. y \in Int /\ z \in 0 .. m - 1 /\ x = m * y + z
  <2>1. x \in Int
    OBVIOUS
  <2>2. x % m \in 0 .. m - 1 /\ x \div m \in Int /\ x = m * (x \div m) + (x % m)
    BY <2>1, RemainderLemma
  <2>3. y = x \div m /\ z = x % m
    BY <1>1
  <2> HIDE DEF y, z
  <2> QED  BY <2>2, <2>3
<1>y. y <= 65535
  OBVIOUS
<1> HIDE DEF y, z
<1>3. y <= 65535 /\ z <= 65535 /\ z \in Int /\ x = 65536 * y + z
  <2>1. m - 1 = 65535 /\ m * y = 65536 * y
    BY <1>1
  <2> QED  BY <1>2, <1>y, <2>1
<1> QED  BY <1>2, <1>3, SMT

(* A word of 32 bits has at most ten decimal digits. *)
LEMMA TenDigits ==
    ASSUME NEW x \in [0 .. 32 -> Nat], x[0] \div 65536 <= 65535,
           \A k \in 1 .. 32 : x[k] = x[k - 1] \div 10
    PROVE  x[10] = 0
<1>0. \A k \in 0 .. 32 : x[k] \in Nat
  OBVIOUS
<1>1. \A k \in 1 .. 32, c \in Nat : x[k - 1] <= 10 * c + 9 => x[k] <= c
  BY <1>0, QuotientBound
<1>2. x[0] <= 4294967295
  BY <1>0, WordBound, SMT
<1>3. x[1] <= 429496729
  BY <1>1, <1>2, SMT
<1>4. x[2] <= 42949672
  BY <1>1, <1>3, SMT
<1>5. x[3] <= 4294967
  BY <1>1, <1>4, SMT
<1>6. x[4] <= 429496
  BY <1>1, <1>5, SMT
<1>7. x[5] <= 42949
  BY <1>1, <1>6, SMT
<1>8. x[6] <= 4294
  BY <1>1, <1>7, SMT
<1>9. x[7] <= 429
  BY <1>1, <1>8, SMT
<1>10. x[8] <= 42
  BY <1>1, <1>9, SMT
<1>11. x[9] <= 4
  BY <1>1, <1>10, SMT
<1>12. x[10] <= 0
  BY <1>1, <1>11, SMT
<1> QED  BY <1>0, <1>12

(* And at most eight hexadecimal ones. *)
LEMMA EightDigits ==
    ASSUME NEW x \in [0 .. 32 -> Nat], x[0] \div 65536 <= 65535,
           \A k \in 1 .. 32 : x[k] = x[k - 1] \div 16
    PROVE  x[8] = 0
<1>0. \A k \in 0 .. 32 : x[k] \in Nat
  OBVIOUS
<1>1. \A k \in 1 .. 32, c \in Nat : x[k - 1] <= 16 * c + 15 => x[k] <= c
  BY <1>0, QuotientBound
<1>2. x[0] <= 4294967295
  BY <1>0, WordBound, SMT
<1>3. x[1] <= 268435455
  BY <1>1, <1>2, SMT
<1>4. x[2] <= 16777215
  BY <1>1, <1>3, SMT
<1>5. x[3] <= 1048575
  BY <1>1, <1>4, SMT
<1>6. x[4] <= 65535
  BY <1>1, <1>5, SMT
<1>7. x[5] <= 4095
  BY <1>1, <1>6, SMT
<1>8. x[6] <= 255
  BY <1>1, <1>7, SMT
<1>9. x[7] <= 15
  BY <1>1, <1>8, SMT
<1>10. x[8] <= 0
  BY <1>1, <1>9, SMT
<1> QED  BY <1>0, <1>10

(* How many digits convert_to_base_string writes at most. *)
MostDigits(base) == IF base = 10 THEN 10 ELSE 8

(***************************************************************************)
(* convert_to_base_string stops, after at most as many rounds as a word    *)
(* has digits, at the first round that leaves nothing.                     *)
(***************************************************************************)
LEMMA RoundsIs ==
    ASSUME NEW value \in 0 .. Word - 1, NEW base \in {10, 16}
    PROVE  /\ rounds(value, base) \in 1 .. MostDigits(base)
           /\ left(value, base)[rounds(value, base)] = 0
           /\ \A j \in 1 .. rounds(value, base) - 1 : left(value, base)[j] # 0
<1> DEFINE f == left(value, base)
           T == {k \in Nat : k \in 1 .. 32 /\ f[k] = 0}
           Ends(k) == f[k] = 0 /\ \A j \in 1 .. k - 1 : f[j] # 0
<1>1. value \in Nat /\ value \div 65536 <= 65535
  BY KprintfAssumption, SMT
<1>2. f \in [0 .. 32 -> Nat] /\ f[0] = value /\ \A k \in 1 .. 32 : f[k] = f[k - 1] \div base
  <2>1. value \in Nat
    BY <1>1
  <2>2. /\ f \in [0 .. MaxRounds -> Nat]
        /\ f[0] = value
        /\ \A k \in 1 .. MaxRounds : f[k] = f[k - 1] \div base
    BY <2>1, LeftIs, Zenon
  <2> QED  BY <2>2 DEF MaxRounds
<1> HIDE DEF f
<1>3. MostDigits(base) \in 1 .. 32 /\ f[MostDigits(base)] = 0
  <2>1. CASE base = 10
    BY <2>1, <1>1, <1>2, TenDigits DEF MostDigits
  <2>2. CASE base = 16
    BY <2>2, <1>1, <1>2, EightDigits DEF MostDigits
  <2> QED  BY <2>1, <2>2
<1>4. MostDigits(base) \in T
  BY <1>3
<1>5. PICK k \in T : \A j \in T : k <= j
  BY <1>4, LeastNat
<1>6. k \in 1 .. 32 /\ Ends(k)
  <2>1. k \in 1 .. 32 /\ f[k] = 0
    OBVIOUS
  <2>2. ASSUME NEW j \in 1 .. k - 1 PROVE f[j] # 0
    <3>1. j \in 1 .. 32 /\ ~(k <= j)
      BY <2>1
    <3> QED  BY <3>1, <1>5
  <2> QED  BY <2>1, <2>2
<1> DEFINE r == CHOOSE i \in 1 .. 32 : Ends(i)
<1>7. r \in 1 .. 32 /\ Ends(r)
  <2> HIDE DEF Ends, r
  <2> QED  BY <1>6 DEF r
<1>8. r = rounds(value, base)
  BY DEF rounds, f, MaxRounds
<1> HIDE DEF r
<1>9. r <= MostDigits(base)
  <2>1. MostDigits(base) \in 1 .. r - 1 => f[MostDigits(base)] # 0
    BY <1>7
  <2> QED  BY <2>1, <1>3, <1>7
<1> QED  BY <1>3, <1>7, <1>8, <1>9 DEF f

(* The value of a character. *)
LEMMA ValueOfDigit ==
    ASSUME NEW j \in 1 .. 16
    PROVE  ValueOf(DigitChars[j]) = j - 1
<1>1. ASSUME NEW i \in 1 .. 16, DigitChars[i] = DigitChars[j] PROVE i = j
  BY <1>1 DEF DigitChars
<1> DEFINE d == DigitChars[j]
           c == CHOOSE k \in 1 .. 16 : DigitChars[k] = d
<1>2. c \in 1 .. 16 /\ DigitChars[c] = d
  <2>1. \E k \in 1 .. 16 : DigitChars[k] = d
    OBVIOUS
  <2> HIDE DEF c, d
  <2> QED  BY <2>1 DEF c
<1>3. c = j
  <2> HIDE DEF c
  <2> QED  BY <1>2, <1>1 DEF d
<1>4. ValueOf(d) = c - 1
  BY DEF ValueOf
<1> QED  BY <1>3, <1>4 DEF d

(* The characters of numerals. *)
Numerals == {DigitChars[j] : j \in 1 .. 16}

(* The value of a character is a number. *)
LEMMA ValueOfNat ==
    ASSUME NEW d \in Numerals
    PROVE  ValueOf(d) \in Nat
<1>1. PICK j \in 1 .. 16 : d = DigitChars[j]
  BY DEF Numerals
<1> QED  BY <1>1, ValueOfDigit

(* The decimal digits are among them, and 0 is the first. *)
LEMMA DigitsAreNumerals == Digits \subseteq Numerals /\ "0" = DigitChars[1]
BY DEF Digits, Numerals, DigitChars

(* The values of the prefixes of a numeral. *)
ReadSoFar(s, base, u) ==
    /\ u \in [0 .. Len(s) -> Nat]
    /\ u[0] = 0
    /\ \A k \in 1 .. Len(s) : u[k] = base * u[k - 1] + ValueOf(s[k])

(* A numeral is read from the left. *)
LEMMA NumeralIs ==
    ASSUME NEW s \in Seq(Numerals), NEW base \in {10, 16}
    PROVE  \E u : ReadSoFar(s, base, u) /\ Numeral(s, base) = u[Len(s)]
<1> DEFINE len == Len(s)
           h == [k \in Nat |-> [x \in Nat |->
                    IF k \in 1 .. len THEN base * x + ValueOf(s[k]) ELSE 0]]
<1>1. len \in Nat /\ \A k \in 1 .. len : ValueOf(s[k]) \in Nat
  BY LenProperties, ElementOfSeq, ValueOfNat
<1> HIDE DEF len
<1>2. h \in [Nat -> [Nat -> Nat]]
  <2>1. \A k \in Nat, x \in Nat :
          (IF k \in 1 .. len THEN base * x + ValueOf(s[k]) ELSE 0) \in Nat
    <3>1. CASE base = 10
      BY <1>1, <3>1
    <3>2. CASE base = 16
      BY <1>1, <3>2
    <3> QED  BY <3>1, <3>2
  <2> QED  BY <2>1
<1>3. PICK g \in [0 .. len -> Nat] : History(g, len, 0, h)
  <2> HIDE DEF h
  <2>1. 0 \in Nat
    OBVIOUS
  <2>2. \A m \in Nat : \E g \in [0 .. m -> Nat] : History(g, m, 0, h)
    BY <1>2, <2>1, HistoryExists, Zenon
  <2> QED  BY <1>1, <2>2
<1>4. g = [k \in 0 .. len |-> IF k = 0 THEN 0 ELSE base * g[k - 1] + ValueOf(s[k])]
  <2>1. \A k \in 0 .. len : k # 0 => h[k][g[k - 1]] = base * g[k - 1] + ValueOf(s[k])
    BY <1>1
  <2> HIDE DEF h
  <2> QED  BY <1>3, <2>1 DEF History
<1> HIDE DEF h
<1> DEFINE Is(v) == v = [k \in 0 .. len |-> IF k = 0 THEN 0 ELSE base * v[k - 1] + ValueOf(s[k])]
           c == CHOOSE v : Is(v)
<1>5. Is(c)
  <2>1. Is(g)
    BY <1>4
  <2> HIDE DEF Is
  <2> QED  BY <2>1
<1>6. Numeral(s, base) = c[len]
  BY DEF Numeral, len
<1> HIDE DEF c
<1>7. DOMAIN c = 0 .. len /\ \A k \in 0 .. len : c[k] = IF k = 0 THEN 0 ELSE base * c[k - 1] + ValueOf(s[k])
  <2>1. DOMAIN c = 0 .. len
    BY <1>5
  <2>2. ASSUME NEW j \in 0 .. len
        PROVE  c[j] = IF j = 0 THEN 0 ELSE base * c[j - 1] + ValueOf(s[j])
    <3>1. c[j] = [k \in 0 .. len |-> IF k = 0 THEN 0 ELSE base * c[k - 1] + ValueOf(s[k])][j]
      BY <1>5
    <3> QED  BY <3>1
  <2> QED  BY <2>1, <2>2
<1> DEFINE T == {k \in Nat : k <= len => c[k] \in Nat}
<1>8. \A k \in Nat : k \in T
  <2>1. 0 \in T
    BY <1>1, <1>7
  <2>2. ASSUME NEW k \in Nat, k \in T
        PROVE  k + 1 \in T
    <3> SUFFICES ASSUME k + 1 <= len PROVE c[k + 1] \in Nat
      OBVIOUS
    <3>1. k + 1 \in 0 .. len /\ k + 1 # 0 /\ (k + 1) - 1 = k /\ c[k] \in Nat /\ k + 1 \in 1 .. len
      BY <1>1, <2>2
    <3>2. c[k + 1] = base * c[k] + ValueOf(s[k + 1])
      BY <3>1, <1>7
    <3> DEFINE y == c[k]
               z == ValueOf(s[k + 1])
    <3>3. y \in Nat /\ z \in Nat /\ c[k + 1] = base * y + z
      BY <3>1, <3>2, <1>1
    <3> HIDE DEF y, z
    <3>4. CASE base = 10
      BY <3>3, <3>4
    <3>5. CASE base = 16
      BY <3>3, <3>5
    <3> QED  BY <1>1, <3>4, <3>5
  <2> HIDE DEF T
  <2> QED  BY <2>1, <2>2, SetInduction
<1>9. c \in [0 .. len -> Nat]
  <2>1. \A k \in 0 .. len : c[k] \in Nat
    BY <1>8, <1>1
  <2>2. c = [k \in 0 .. len |-> c[k]]
    BY <1>5
  <2> QED  BY <2>1, <2>2
<1>10. \A k \in 1 .. len : c[k] = base * c[k - 1] + ValueOf(s[k])
  BY <1>1, <1>7
<1>11. ReadSoFar(s, base, c)
  BY <1>1, <1>7, <1>9, <1>10 DEF ReadSoFar, len
<1> QED  BY <1>6, <1>11 DEF len

(* Numerals of the same digits in the same places have the same values. *)
LEMMA NumeralEmpty ==
    ASSUME NEW base \in {10, 16}
    PROVE  Numeral(<<>>, base) = 0
<1>1. <<>> \in Seq(Numerals) /\ Len(<<>>) = 0
  BY EmptySeq
<1>2. PICK u : ReadSoFar(<<>>, base, u) /\ Numeral(<<>>, base) = u[Len(<<>>)]
  BY <1>1, NumeralIs
<1> QED  BY <1>1, <1>2 DEF ReadSoFar

(* A zero in front does not count. *)
LEMMA LeadingZero ==
    ASSUME NEW s \in Seq(Numerals), NEW t \in Seq(Numerals), s # <<>>, s[1] = "0",
           Len(t) = Len(s) - 1, \A i \in 1 .. Len(t) : t[i] = s[i + 1]
    PROVE  Numeral(s, 10) = Numeral(t, 10)
<1>1. Len(s) \in Nat \ {0} /\ Len(t) \in Nat
  BY EmptySeq, LenProperties
<1>2. PICK u : ReadSoFar(s, 10, u) /\ Numeral(s, 10) = u[Len(s)]
  BY NumeralIs
<1>3. PICK v : ReadSoFar(t, 10, v) /\ Numeral(t, 10) = v[Len(t)]
  BY NumeralIs
<1> DEFINE T == {k \in Nat : k <= Len(t) => u[k + 1] = v[k]}
<1>4. 0 \in T
  <2>1. ValueOf(s[1]) = 0
    BY DigitsAreNumerals, ValueOfDigit
  <2>2. u[0] = 0 /\ u[1] = 10 * u[1 - 1] + ValueOf(s[1]) /\ v[0] = 0
    BY <1>1, <1>2, <1>3 DEF ReadSoFar
  <2> QED  BY <2>1, <2>2
<1>5. ASSUME NEW k \in Nat, k \in T
      PROVE  k + 1 \in T
  <2> SUFFICES ASSUME k + 1 <= Len(t) PROVE u[(k + 1) + 1] = v[k + 1]
    OBVIOUS
  <2>1. u[k + 1] = v[k] /\ k + 1 \in 1 .. Len(t) /\ (k + 1) + 1 \in 1 .. Len(s)
    BY <1>1, <1>5
  <2>2. u[(k + 1) + 1] = 10 * u[((k + 1) + 1) - 1] + ValueOf(s[(k + 1) + 1])
    BY <1>2, <2>1 DEF ReadSoFar
  <2>3. v[k + 1] = 10 * v[(k + 1) - 1] + ValueOf(t[k + 1])
    BY <1>3, <2>1 DEF ReadSoFar
  <2>4. t[k + 1] = s[(k + 1) + 1] /\ ((k + 1) + 1) - 1 = k + 1 /\ (k + 1) - 1 = k
    BY <2>1
  <2> QED  BY <2>1, <2>2, <2>3, <2>4
<1>6. \A k \in Nat : k \in T
  <2> HIDE DEF T
  <2> QED  BY <1>4, <1>5, SetInduction
<1>7. u[Len(t) + 1] = v[Len(t)]
  BY <1>1, <1>6
<1>8. Len(t) + 1 = Len(s)
  BY <1>1
<1> QED  BY <1>2, <1>3, <1>7, <1>8

(* The characters of a field. *)
FieldChars == Numerals \cup {"-", "space", "0", "x"}

(* What is put out from the end of the buffer. *)
LEMMA ReverseIs ==
    ASSUME NEW S, NEW s \in Seq(S)
    PROVE  /\ Reverse(s) \in Seq(S)
           /\ Len(Reverse(s)) = Len(s)
           /\ \A i \in 1 .. Len(s) : Reverse(s)[i] = s[(Len(s) - i) + 1]
<1>1. Len(s) \in Nat /\ \A i \in 1 .. Len(s) : s[i] \in S
  BY LenProperties, ElementOfSeq
<1>2. \A i \in 1 .. Len(s) : (Len(s) - i) + 1 \in 1 .. Len(s)
  BY <1>1
<1>3. Reverse(s) \in [1 .. Len(s) -> S]
  BY <1>1, <1>2 DEF Reverse
<1>4. Reverse(s) \in Seq(S) /\ Len(Reverse(s)) = Len(s)
  BY <1>1, <1>3
<1> QED  BY <1>4 DEF Reverse

(* A text of two parts read from its end. *)
LEMMA ReverseConcat ==
    ASSUME NEW S, NEW a \in Seq(S), NEW b \in Seq(S)
    PROVE  Reverse(a \o b) = Reverse(b) \o Reverse(a)
<1> DEFINE c == a \o b
           l == Reverse(c)
           r == Reverse(b) \o Reverse(a)
<1>1. /\ c \in Seq(S) /\ Len(c) = Len(a) + Len(b)
      /\ \A i \in 1 .. Len(a) + Len(b) : c[i] = IF i <= Len(a) THEN a[i] ELSE b[i - Len(a)]
  BY ConcatProperties
<1>2. Len(a) \in Nat /\ Len(b) \in Nat
  BY LenProperties
<1>3. /\ l \in Seq(S) /\ Len(l) = Len(c)
      /\ \A i \in 1 .. Len(c) : l[i] = c[(Len(c) - i) + 1]
  <2> HIDE DEF c
  <2> QED  BY <1>1, ReverseIs
<1>4. /\ Reverse(b) \in Seq(S) /\ Len(Reverse(b)) = Len(b)
      /\ \A i \in 1 .. Len(b) : Reverse(b)[i] = b[(Len(b) - i) + 1]
  BY ReverseIs
<1>5. /\ Reverse(a) \in Seq(S) /\ Len(Reverse(a)) = Len(a)
      /\ \A i \in 1 .. Len(a) : Reverse(a)[i] = a[(Len(a) - i) + 1]
  BY ReverseIs
<1>6. /\ r \in Seq(S) /\ Len(r) = Len(b) + Len(a)
      /\ \A i \in 1 .. Len(b) + Len(a) :
            r[i] = IF i <= Len(b) THEN Reverse(b)[i] ELSE Reverse(a)[i - Len(b)]
  <2> DEFINE x == Reverse(a)
             y == Reverse(b)
  <2>1. x \in Seq(S) /\ y \in Seq(S) /\ Len(x) = Len(a) /\ Len(y) = Len(b)
    BY <1>4, <1>5
  <2> HIDE DEF x, y
  <2>2. /\ y \o x \in Seq(S) /\ Len(y \o x) = Len(y) + Len(x)
        /\ \A i \in 1 .. Len(y) + Len(x) : (y \o x)[i] = IF i <= Len(y) THEN y[i] ELSE x[i - Len(y)]
    BY <2>1, ConcatProperties
  <2> QED  BY <2>1, <2>2 DEF x, y
<1> HIDE DEF c, l, r
<1>7. Len(l) = Len(r)
  BY <1>1, <1>2, <1>3, <1>6
<1>8. ASSUME NEW i \in 1 .. Len(l) PROVE l[i] = r[i]
  <2>0. i \in 1 .. Len(a) + Len(b) /\ Len(c) = Len(a) + Len(b)
    BY <1>1, <1>3
  <2> DEFINE j == (Len(c) - i) + 1
  <2>1. j \in 1 .. Len(a) + Len(b) /\ l[i] = c[j]
    BY <2>0, <1>2, <1>3
  <2>2. CASE i <= Len(b)
    <3>1. ~(j <= Len(a)) /\ j - Len(a) = (Len(b) - i) + 1 /\ i \in 1 .. Len(b)
      BY <2>0, <2>2, <1>2
    <3>2. r[i] = b[(Len(b) - i) + 1]
      <4>1. r[i] = Reverse(b)[i]
        BY <2>2, <2>0, <1>2, <1>6
      <4> QED  BY <4>1, <3>1, <1>4
    <3>3. l[i] = b[j - Len(a)]
      BY <3>1, <2>1, <1>1
    <3> QED  BY <3>1, <3>2, <3>3
  <2>3. CASE ~(i <= Len(b))
    <3>1. j <= Len(a) /\ i - Len(b) \in 1 .. Len(a) /\ (Len(a) - (i - Len(b))) + 1 = j
      BY <2>0, <2>3, <1>2
    <3>2. r[i] = Reverse(a)[i - Len(b)]
      BY <2>3, <2>0, <1>2, <1>6
    <3>3. Reverse(a)[i - Len(b)] = a[(Len(a) - (i - Len(b))) + 1]
      BY <3>1, <1>5
    <3>4. l[i] = a[j]
      BY <3>1, <2>1, <1>1
    <3> QED  BY <3>1, <3>2, <3>3, <3>4
  <2> QED  BY <2>2, <2>3
<1>9. l = r
  BY <1>3, <1>6, <1>7, <1>8, SeqEqual
<1> QED  BY <1>9 DEF l, r, c

(* Padding. *)
LEMMA RepeatIs ==
    ASSUME NEW S, NEW ch \in S, NEW k \in Nat
    PROVE  /\ Repeat(ch, k) \in Seq(S)
           /\ Len(Repeat(ch, k)) = k
           /\ \A i \in 1 .. k : Repeat(ch, k)[i] = ch
           /\ Reverse(Repeat(ch, k)) = Repeat(ch, k)
<1> DEFINE r == Repeat(ch, k)
<1>1. r \in [1 .. k -> S] /\ \A i \in 1 .. k : r[i] = ch
  BY DEF Repeat
<1>2. r \in Seq(S) /\ Len(r) = k
  BY <1>1
<1> HIDE DEF r
<1>3. /\ Reverse(r) \in Seq(S) /\ Len(Reverse(r)) = k
      /\ \A i \in 1 .. k : Reverse(r)[i] = r[(k - i) + 1]
  BY <1>2, ReverseIs
<1>4. \A i \in 1 .. k : Reverse(r)[i] = r[i]
  BY <1>1, <1>3
<1>5. Reverse(r) = r
  <2> DEFINE l == Reverse(r)
  <2>1. l \in Seq(S) /\ Len(l) = k /\ \A i \in 1 .. k : l[i] = r[i]
    BY <1>3, <1>4
  <2> HIDE DEF l
  <2>2. l = r
    BY <1>2, <2>1, SeqEqual
  <2> QED  BY <2>2 DEF l
<1> QED  BY <1>1, <1>2, <1>5 DEF r

(* The rest of a concatenation behind its first part. *)
LEMMA SecondPart ==
    ASSUME NEW S, NEW a \in Seq(S), NEW b \in Seq(S)
    PROVE  SubSeq(a \o b, Len(a) + 1, Len(a \o b)) = b
<1> DEFINE c == a \o b
           t == SubSeq(c, Len(a) + 1, Len(c))
<1>1. /\ c \in Seq(S) /\ Len(c) = Len(a) + Len(b)
      /\ \A i \in 1 .. Len(a) + Len(b) : c[i] = IF i <= Len(a) THEN a[i] ELSE b[i - Len(a)]
  BY ConcatProperties
<1>2. Len(a) \in Nat /\ Len(b) \in Nat
  BY LenProperties
<1> HIDE DEF c
<1>3. \A i \in Len(a) + 1 .. Len(c) : c[i] \in S
  <2>1. \A i \in 1 .. Len(c) : c[i] \in S
    BY <1>1, ElementOfSeq
  <2> QED  BY <2>1, <1>1, <1>2
<1>4. /\ t \in Seq(S)
      /\ Len(t) = IF Len(a) + 1 <= Len(c) THEN Len(c) - (Len(a) + 1) + 1 ELSE 0
      /\ \A i \in 1 .. Len(c) - (Len(a) + 1) + 1 : t[i] = c[Len(a) + 1 + i - 1]
  <2>1. Len(a) + 1 \in Int /\ Len(c) \in Int
    BY <1>1, <1>2
  <2> QED  BY <1>3, <2>1, SubSeqProperties
<1> HIDE DEF t
<1>5. Len(t) = Len(b)
  BY <1>1, <1>2, <1>4
<1>6. ASSUME NEW i \in 1 .. Len(t) PROVE t[i] = b[i]
  <2>1. i \in 1 .. Len(b) /\ i \in 1 .. Len(c) - (Len(a) + 1) + 1
    BY <1>1, <1>2, <1>5
  <2>2. t[i] = c[Len(a) + 1 + i - 1] /\ Len(a) + 1 + i - 1 = Len(a) + i
    BY <2>1, <1>2, <1>4
  <2>3. c[Len(a) + i] = b[i]
    <3>1. Len(a) + i \in 1 .. Len(a) + Len(b) /\ ~(Len(a) + i <= Len(a)) /\ (Len(a) + i) - Len(a) = i
      BY <2>1, <1>2
    <3> QED  BY <3>1, <1>1
  <2> QED  BY <2>2, <2>3
<1>7. t = b
  BY <1>4, <1>5, <1>6, SeqEqual
<1> QED  BY <1>7 DEF t, c

(* A difference, or zero where it is negative. *)
LEMMA MaxWithZero ==
    ASSUME NEW x \in Int
    PROVE  Max({0, x}) = IF x > 0 THEN x ELSE 0
<1> DEFINE m == IF x > 0 THEN x ELSE 0
           IsMax(y) == y \in {0, x} /\ \A z \in {0, x} : y >= z
<1>1. IsMax(m)
  OBVIOUS
<1>2. \A y : IsMax(y) => y = m
  OBVIOUS
<1>3. Max({0, x}) = CHOOSE y : IsMax(y)
  BY DEF Max
<1> HIDE DEF IsMax, m
<1>4. Max({0, x}) = m
  BY <1>1, <1>2, <1>3
<1> QED  BY <1>4 DEF m

(***************************************************************************)
(* The digits of convert_to_base_string, read from the end of the buffer,  *)
(* are the numeral of the value.                                           *)
(***************************************************************************)
LEMMA DigitsReadBack ==
    ASSUME NEW value \in 0 .. Word - 1, NEW base \in {10, 16},
           NEW d, d = convert_to_base_string(value, base)
    PROVE  /\ d \in Seq(Numerals)
           /\ Len(d) \in 1 .. MostDigits(base)
           /\ IsNumeral(Reverse(d), value, base)
<1> DEFINE f == left(value, base)
           len == rounds(value, base)
           s == Reverse(d)
<1>0. value \in Nat /\ MostDigits(base) \in 1 .. 10
  BY KprintfAssumption, SMT DEF MostDigits
<1>1. /\ f \in [0 .. 32 -> Nat] /\ f[0] = value
      /\ \A k \in 1 .. 32 : f[k] = f[k - 1] \div base
  <2>1. /\ f \in [0 .. MaxRounds -> Nat]
        /\ f[0] = value
        /\ \A k \in 1 .. MaxRounds : f[k] = f[k - 1] \div base
    BY <1>0, LeftIs, Zenon
  <2> QED  BY <2>1 DEF MaxRounds
<1>2. len \in 1 .. MostDigits(base) /\ f[len] = 0 /\ \A j \in 1 .. len - 1 : f[j] # 0
  BY RoundsIs, Zenon
<1>3. d = [i \in 1 .. len |-> DigitChars[(f[i - 1] % base) + 1]]
  BY DEF convert_to_base_string
<1> HIDE DEF f, len
<1>4. len \in 1 .. 10 /\ len \in Nat /\ len \in 1 .. 32
  BY <1>0, <1>2
<1>5. ASSUME NEW i \in 1 .. len
      PROVE  /\ f[i - 1] \in Nat
             /\ f[i - 1] % base \in 0 .. base - 1
             /\ f[i - 1] = base * f[i] + (f[i - 1] % base)
             /\ d[i] = DigitChars[(f[i - 1] % base) + 1]
             /\ (f[i - 1] % base) + 1 \in 1 .. 16
             /\ d[i] \in Numerals
             /\ ValueOf(d[i]) = f[i - 1] % base
  <2>1. i - 1 \in 0 .. 32 /\ i \in 1 .. 32
    BY <1>4
  <2>2. f[i - 1] \in Nat /\ f[i] = f[i - 1] \div base
    BY <1>1, <2>1
  <2>3. /\ f[i - 1] % base \in 0 .. base - 1
        /\ f[i - 1] = base * (f[i - 1] \div base) + (f[i - 1] % base)
    BY <2>2, QuotientNat
  <2>4. d[i] = DigitChars[(f[i - 1] % base) + 1]
    BY <1>3
  <2>5. (f[i - 1] % base) + 1 \in 1 .. 16
    BY <2>3
  <2>6. d[i] \in Numerals /\ ValueOf(d[i]) = ((f[i - 1] % base) + 1) - 1
    BY <2>4, <2>5, ValueOfDigit DEF Numerals
  <2>7. ((f[i - 1] % base) + 1) - 1 = f[i - 1] % base
    BY <2>3
  <2> QED  BY <2>2, <2>3, <2>4, <2>5, <2>6, <2>7
<1>6. d \in Seq(Numerals) /\ Len(d) = len
  <2>1. d \in [1 .. len -> Numerals]
    BY <1>3, <1>5
  <2> QED  BY <2>1, <1>4
<1>7. /\ s \in Seq(Numerals) /\ Len(s) = len
      /\ \A k \in 1 .. len : s[k] = d[(len - k) + 1]
  BY <1>6, ReverseIs
<1> HIDE DEF s
<1>8. PICK u : ReadSoFar(s, base, u) /\ Numeral(s, base) = u[Len(s)]
  BY <1>7, NumeralIs
<1>9. u[len] = value
  <2> DEFINE T == {k \in Nat : k <= len => u[k] = f[len - k]}
  <2>1. 0 \in T
    <3>1. u[0] = 0 /\ len - 0 = len
      BY <1>4, <1>8 DEF ReadSoFar
    <3> QED  BY <3>1, <1>2
  <2>2. ASSUME NEW k \in Nat, k \in T
        PROVE  k + 1 \in T
    <3> SUFFICES ASSUME k + 1 <= len PROVE u[k + 1] = f[len - (k + 1)]
      OBVIOUS
    <3> DEFINE i == len - k
    <3>1. /\ i \in 1 .. len /\ k + 1 \in 1 .. len /\ (len - (k + 1)) + 1 = i
          /\ (k + 1) - 1 = k /\ len - (k + 1) = i - 1 /\ k <= len
      BY <1>4
    <3>2. u[k] = f[i]
      BY <2>2, <3>1
    <3>3. u[k + 1] = base * u[k] + ValueOf(s[k + 1])
      BY <3>1, <1>7, <1>8 DEF ReadSoFar
    <3>4. s[k + 1] = d[i]
      BY <3>1, <1>7
    <3>5. ValueOf(d[i]) = f[i - 1] % base /\ f[i - 1] = base * f[i] + (f[i - 1] % base)
      BY <3>1, <1>5
    <3> HIDE DEF i
    <3>6. u[k + 1] = f[i - 1]
      BY <3>2, <3>3, <3>4, <3>5
    <3> QED  BY <3>1, <3>6
  <2>3. \A k \in Nat : k \in T
    <3> HIDE DEF T
    <3> QED  BY <2>1, <2>2, SetInduction
  <2>4. u[len] = f[len - len] /\ len - len = 0
    BY <2>3, <1>4
  <2> QED  BY <2>4, <1>1
<1>10. \A k \in DOMAIN s : s[k] \in Range(SubSeq(DigitChars, 1, base))
  <2>1. DOMAIN s = 1 .. len
    BY <1>7, LenProperties
  <2>2. \A j \in 1 .. base : DigitChars[j] \in Range(SubSeq(DigitChars, 1, base))
    <3> DEFINE t == SubSeq(DigitChars, 1, base)
    <3>1. \A j \in 1 .. base : DigitChars[j] \in Numerals
      BY DEF Numerals
    <3>2. /\ t \in Seq(Numerals)
          /\ Len(t) = IF 1 <= base THEN base - 1 + 1 ELSE 0
          /\ \A j \in 1 .. base - 1 + 1 : t[j] = DigitChars[1 + j - 1]
      BY <3>1, SubSeqProperties
    <3> HIDE DEF t
    <3>3. DOMAIN t = 1 .. base /\ \A j \in 1 .. base : t[j] = DigitChars[j]
      <4>1. Len(t) = base /\ base - 1 + 1 = base
        BY <3>2
      <4>2. DOMAIN t = 1 .. base
        BY <3>2, <4>1, LenProperties
      <4>3. \A j \in 1 .. base : 1 + j - 1 = j
        OBVIOUS
      <4> QED  BY <3>2, <4>1, <4>2, <4>3
    <3>4. \A j \in 1 .. base : DigitChars[j] \in Range(t)
      BY <3>3 DEF Range
    <3> QED  BY <3>4 DEF t
  <2>3. ASSUME NEW k \in 1 .. len
        PROVE  s[k] \in Range(SubSeq(DigitChars, 1, base))
    <3> DEFINE i == (len - k) + 1
    <3>1. i \in 1 .. len /\ s[k] = d[i]
      BY <1>4, <1>7
    <3> HIDE DEF i
    <3>2. (f[i - 1] % base) + 1 \in 1 .. base /\ d[i] = DigitChars[(f[i - 1] % base) + 1]
      BY <3>1, <1>5
    <3> QED  BY <3>1, <3>2, <2>2
  <2> QED  BY <2>1, <2>3
<1>11. Len(s) > 1 => Head(s) # "0"
  <2> SUFFICES ASSUME len > 1 PROVE s[1] # "0"
    BY <1>7, <1>4
  <2>1. len \in 1 .. len /\ (len - 1) + 1 = len /\ s[1] = d[len] /\ len - 1 \in 1 .. len - 1
    BY <1>4, <1>7
  <2>2. f[len - 1] # 0 /\ f[len - 1] = base * f[len] + (f[len - 1] % base) /\ f[len] = 0
    BY <2>1, <1>2, <1>5
  <2>3. ValueOf(d[len]) = f[len - 1] % base /\ f[len - 1] % base \in 0 .. base - 1
    BY <2>1, <1>5
  <2>4. ValueOf(d[len]) # 0
    <3> DEFINE y == f[len - 1]
               z == f[len - 1] % base
    <3>1. base * f[len] = 0
      BY <2>2
    <3>2. y # 0 /\ y = 0 + z /\ z \in 0 .. base - 1 /\ ValueOf(d[len]) = z
      BY <3>1, <2>2, <2>3
    <3> HIDE DEF y, z
    <3> QED  BY <3>2
  <2>5. ValueOf("0") = 0
    BY DigitsAreNumerals, ValueOfDigit
  <2> QED  BY <2>1, <2>4, <2>5
<1>12. s # <<>>
  BY <1>7, <1>4, EmptySeq
<1>13. IsNumeral(s, value, base)
  BY <1>7, <1>8, <1>9, <1>10, <1>11, <1>12 DEF IsNumeral
<1> QED  BY <1>2, <1>6, <1>13 DEF s

(* Which characters a field is made of. *)
LEMMA FieldCharsHold == Numerals \subseteq FieldChars /\ {"-", "space", "0", "x"} \subseteq FieldChars
BY DEF FieldChars

(* What stands in front of the digits of v in a field with k paddings. *)
Sign(v) == IF v < 0 THEN <<"-">> ELSE <<>>

InFront(v, p, k) == IF p = "0" THEN Sign(v) \o Repeat("0", k)
                             ELSE Repeat("space", k) \o Sign(v)

(* The sign has one character or none, and reads the same from its end. *)
LEMMA SignIs ==
    ASSUME NEW v \in Int
    PROVE  /\ Sign(v) \in Seq(FieldChars)
           /\ Len(Sign(v)) = IF v < 0 THEN 1 ELSE 0
           /\ Sign(v) = Repeat("-", IF v < 0 THEN 1 ELSE 0)
           /\ Reverse(Sign(v)) = Sign(v)
<1>1. CASE v < 0
  <2>1. Repeat("-", 1) = <<"-">>
    BY DEF Repeat
  <2>2. "-" \in FieldChars /\ 1 \in Nat
    BY FieldCharsHold
  <2> QED  BY <1>1, <2>1, <2>2, RepeatIs DEF Sign
<1>2. CASE ~(v < 0)
  <2>1. Repeat("-", 0) = <<>>
    BY DEF Repeat
  <2>2. "-" \in FieldChars /\ 0 \in Nat
    BY FieldCharsHold
  <2> QED  BY <1>2, <2>1, <2>2, RepeatIs DEF Sign
<1> QED  BY <1>1, <1>2

(* The length of what stands in front of the digits. *)
LEMMA FrontIs ==
    ASSUME NEW v \in Int, NEW p \in {"0", "space"}, NEW k \in Nat
    PROVE  /\ InFront(v, p, k) \in Seq(FieldChars)
           /\ Len(InFront(v, p, k)) = Len(Sign(v)) + k
<1>1. Sign(v) \in Seq(FieldChars) /\ Len(Sign(v)) \in Nat
  BY SignIs, LenProperties
<1>2. \A c \in {"0", "space"} : Repeat(c, k) \in Seq(FieldChars) /\ Len(Repeat(c, k)) = k
  BY RepeatIs, FieldCharsHold
<1>3. CASE p = "0"
  <2>1. InFront(v, p, k) = Sign(v) \o Repeat("0", k)
    BY <1>3 DEF InFront
  <2> DEFINE x == Sign(v)
             y == Repeat("0", k)
  <2>2. x \in Seq(FieldChars) /\ y \in Seq(FieldChars) /\ Len(y) = k
    BY <1>1, <1>2
  <2> HIDE DEF x, y
  <2>3. x \o y \in Seq(FieldChars) /\ Len(x \o y) = Len(x) + k
    BY <2>2, ConcatProperties
  <2> QED  BY <2>1, <2>3 DEF x, y
<1>4. CASE p = "space"
  <2>1. InFront(v, p, k) = Repeat("space", k) \o Sign(v)
    BY <1>4 DEF InFront
  <2> DEFINE x == Sign(v)
             y == Repeat("space", k)
  <2>2. x \in Seq(FieldChars) /\ y \in Seq(FieldChars) /\ Len(y) = k /\ Len(x) \in Nat
    BY <1>1, <1>2
  <2> HIDE DEF x, y
  <2>3. y \o x \in Seq(FieldChars) /\ Len(y \o x) = Len(y) + Len(x)
    BY <2>2, ConcatProperties
  <2>4. Len(y \o x) = Len(x) + k
    BY <2>2, <2>3
  <2> QED  BY <2>1, <2>3, <2>4 DEF x, y
<1> QED  BY <1>3, <1>4

(* A field is what is in front and the digits. *)
LEMMA FieldIs ==
    ASSUME NEW v \in Int, NEW base \in {10, 16}, NEW w \in Nat, NEW p \in {"0", "space"},
           NEW k \in Nat, NEW d,
           NEW mag \in 0 .. Word - 1, mag = IF v < 0 THEN -v ELSE v,
           d = convert_to_base_string(mag, base),
           k = IF w - Len(Sign(v)) - Len(d) > 0 THEN w - Len(Sign(v)) - Len(d) ELSE 0
    PROVE  IsField(InFront(v, p, k) \o Reverse(d), v, base, w, p)
<1> DEFINE r == Reverse(d)
           a == InFront(v, p, k)
           text == a \o r
<1>1. d \in Seq(Numerals) /\ IsNumeral(r, mag, base)
  BY DigitsReadBack
<1>2. r \in Seq(Numerals) /\ Len(r) = Len(d) /\ Len(d) \in Nat
  BY <1>1, ReverseIs, LenProperties
<1>3. r \in Seq(FieldChars)
  BY <1>2, FieldCharsHold
<1>4. a \in Seq(FieldChars) /\ Len(a) = Len(Sign(v)) + k
  BY FrontIs
<1>5. Len(Sign(v)) \in Nat
  BY SignIs
<1> HIDE DEF r, a
<1>6. Len(text) = Len(a) + Len(r) /\ SubSeq(text, Len(a) + 1, Len(text)) = r
  BY <1>3, <1>4, ConcatProperties, SecondPart
<1>7. k \in 0 .. Len(text)
  <2> HIDE DEF text
  <2>1. Len(text) = (Len(Sign(v)) + k) + Len(d)
    BY <1>2, <1>4, <1>6
  <2>2. Len(d) \in Nat
    BY <1>2
  <2>3. \A x, y \in Nat : k \in 0 .. (x + k) + y
    OBVIOUS
  <2> QED  BY <2>1, <2>2, <2>3, <1>5
<1>8. SubSeq(text, Len(Sign(v)) + k + 1, Len(text)) = r
  BY <1>4, <1>6
<1>9. k = Max({0, w - Len(Sign(v)) - Len(r)})
  <2>1. w - Len(Sign(v)) - Len(r) \in Int
    BY <1>2, <1>5
  <2> QED  BY <2>1, <1>2, MaxWithZero
<1>10. text = IF p = "0" THEN Sign(v) \o Repeat("0", k) \o r
                         ELSE Repeat("space", k) \o Sign(v) \o r
  BY DEF a, InFront
<1> HIDE DEF text
<1>11. IsField(text, v, base, w, p)
  <2> DEFINE Body(j, sign, digits) ==
               /\ IsNumeral(digits, mag, base)
               /\ text = IF p = "0" THEN sign \o Repeat("0", j) \o digits
                         ELSE Repeat("space", j) \o sign \o digits
               /\ j = Max({0, w - Len(sign) - Len(digits)})
  <2>1. Body(k, Sign(v), SubSeq(text, Len(Sign(v)) + k + 1, Len(text)))
    BY <1>1, <1>8, <1>9, <1>10 DEF r
  <2>2. IsField(text, v, base, w, p) <=>
          \E j \in 0 .. Len(text) :
            Body(j, Sign(v), SubSeq(text, Len(Sign(v)) + j + 1, Len(text)))
    BY DEF IsField, Sign
  <2> HIDE DEF Body
  <2> QED  BY <1>7, <2>1, <2>2
<1> QED  BY <1>11 DEF text, a, r

(* print_in_base_signed puts out a field and keeps to its buffer. *)
LEMMA SignedField ==
    ASSUME NEW v \in Ints, NEW w \in Nat, w <= BufferSize, NEW p \in {"0", "space"}
    PROVE  /\ IsField(<<>> \o Reverse(buffer_signed(v, w, p)), v, 10, w, p)
           /\ Len(buffer_signed(v, w, p)) <= BufferSize
           /\ buffer_signed(v, w, p) \in Seq(FieldChars)
<1> DEFINE neg == IF v < 0 THEN 1 ELSE 0
           mag == IF v < 0 THEN (Word - (v % Word)) % Word ELSE v
           d == convert_to_base_string(mag, 10)
           k == IF Len(d) >= w THEN 0 ELSE w - Len(d) - neg
           b == buffer_signed(v, w, p)
<1>1. v \in Int /\ mag \in 0 .. Word - 1 /\ mag = IF v < 0 THEN -v ELSE v
  <2>0. Word \in Nat \ {0} /\ v \in -(Word \div 2) .. (Word \div 2) - 1
    BY KprintfAssumption, SMT
  <2>1. Word \div 2 \in Int /\ 2 * (Word \div 2) <= Word /\ Word < 2 * (Word \div 2) + 2
    <3> DEFINE h == Word \div 2
               m == Word % 2
    <3>1. h \in Int /\ m \in 0 .. 1 /\ Word = 2 * h + m
      <4>1. PICK t \in Nat \ {0} : t = 2
        OBVIOUS
      <4>2. Word \in Int
        BY <2>0
      <4>3. Word % t \in 0 .. t - 1 /\ Word \div t \in Int /\ Word = t * (Word \div t) + (Word % t)
        BY <4>2, RemainderLemma
      <4> QED  BY <4>1, <4>3
    <3> HIDE DEF h, m
    <3>2. 2 * h <= Word /\ Word < 2 * h + 2
      BY <2>0, <3>1
    <3> QED  BY <3>1, <3>2 DEF h
  <2> DEFINE h == Word \div 2
  <2>2. h \in Int /\ 2 * h <= Word /\ Word < 2 * h + 2 /\ v \in Int /\ -h <= v /\ v <= h - 1
    BY <2>0, <2>1
  <2> HIDE DEF h
  <2>3. CASE v < 0
    <3>1. v + Word \in 0 .. 2 * Word - 1 /\ v + Word < Word
      BY <2>0, <2>2, <2>3
    <3>2. (v + Word) % Word = v + Word
      BY <2>0, <3>1, WrapOnce
    <3>3. v % Word = v + Word
      BY <2>0, <2>2, <3>2, OneTurn
    <3>4. Word - (v + Word) = -v /\ -v \in 0 .. 2 * Word - 1 /\ -v < Word
      BY <2>0, <2>2, <2>3
    <3>5. (-v) % Word = -v
      BY <2>0, <3>4, WrapOnce
    <3>6. mag = -v
      BY <2>3, <3>3, <3>4, <3>5
    <3> HIDE DEF mag
    <3> QED  BY <2>0, <2>2, <2>3, <3>4, <3>6
  <2>4. CASE ~(v < 0)
    BY <2>0, <2>2, <2>4
  <2> QED  BY <2>3, <2>4
<1> HIDE DEF mag
<1>2. d \in Seq(Numerals) /\ Len(d) \in 1 .. MostDigits(10)
  BY <1>1, DigitsReadBack
<1>d. Len(d) \in Nat /\ Len(d) <= 10
  <2>1. \A x \in 1 .. MostDigits(10) : x \in Nat /\ x <= 10
    BY DEF MostDigits
  <2> QED  BY <1>2, <2>1
<1>3. d \in Seq(FieldChars)
  BY <1>2, FieldCharsHold
<1> DEFINE s == Sign(v)
<1>4. /\ s \in Seq(FieldChars) /\ Len(s) = neg /\ s = Repeat("-", neg) /\ Reverse(s) = s
  BY <1>1, SignIs
<1>5. b = d \o (IF p = "space" THEN s \o Repeat(p, k) ELSE Repeat(p, k) \o s)
  BY <1>4 DEF buffer_signed, mag
<1> HIDE DEF d, s, b
<1>6. /\ k \in Nat /\ Len(d) \in Nat /\ neg \in Nat
      /\ k = IF w - neg - Len(d) > 0 THEN w - neg - Len(d) ELSE 0
  BY <1>d
<1> HIDE DEF k
<1> DEFINE z == Repeat(p, k)
<1>7. z \in Seq(FieldChars) /\ Len(z) = k /\ Reverse(z) = z
  <2>1. p \in FieldChars
    BY FieldCharsHold
  <2>2. k \in Nat
    BY <1>6
  <2> QED  BY <2>1, <2>2, RepeatIs, Zenon
<1> HIDE DEF z
<1> DEFINE e == IF p = "space" THEN s \o z ELSE z \o s
<1>8. /\ e \in Seq(FieldChars) /\ Len(e) = neg + k
      /\ Reverse(e) = InFront(v, p, k)
  <2>1. /\ s \o z \in Seq(FieldChars) /\ Len(s \o z) = Len(s) + Len(z)
        /\ z \o s \in Seq(FieldChars) /\ Len(z \o s) = Len(z) + Len(s)
    BY <1>4, <1>7, ConcatProperties
  <2>2. Reverse(s \o z) = z \o s /\ Reverse(z \o s) = s \o z
    BY <1>4, <1>7, ReverseConcat
  <2>3. CASE p = "space"
    BY <1>4, <1>6, <1>7, <2>1, <2>2, <2>3 DEF InFront, s, z
  <2>4. CASE p = "0"
    <3>1. e = z \o s /\ InFront(v, p, k) = s \o z
      BY <2>4 DEF InFront, s, z
    <3>2. e \in Seq(FieldChars) /\ Reverse(e) = InFront(v, p, k) /\ Len(e) = Len(z) + Len(s)
      BY <2>1, <2>2, <3>1
    <3>3. Len(z) + Len(s) = neg + k
      <4>1. Len(s) = neg /\ Len(z) = k /\ k \in Nat /\ neg \in Nat
        BY <1>4, <1>6, <1>7
      <4> HIDE DEF neg
      <4> QED  BY <4>1
    <3> QED  BY <3>2, <3>3
  <2> QED  BY <2>3, <2>4
<1>9. b = d \o e
  BY <1>5 DEF z
<1> HIDE DEF e
<1>10. /\ b \in Seq(FieldChars) /\ Len(b) = Len(d) + (neg + k)
       /\ Reverse(b) = InFront(v, p, k) \o Reverse(d)
  BY <1>3, <1>8, <1>9, ConcatProperties, ReverseConcat
<1>11. Len(b) <= 16
  <2>1. w <= 16 /\ Len(d) <= 10 /\ neg <= 1
    BY <1>d DEF BufferSize
  <2> HIDE DEF neg
  <2> QED  BY <1>6, <1>10, <2>1
<1>12. IsField(Reverse(b), v, 10, w, p)
  <2>1. Len(s) = neg
    BY <1>4
  <2>2. IsField(InFront(v, p, k) \o Reverse(d), v, 10, w, p)
    <3>1. k = IF w - Len(Sign(v)) - Len(d) > 0 THEN w - Len(Sign(v)) - Len(d) ELSE 0
      BY <1>6, <2>1 DEF s
    <3>2. /\ v \in Int /\ w \in Nat /\ p \in {"0", "space"} /\ k \in Nat
          /\ mag \in 0 .. Word - 1 /\ mag = IF v < 0 THEN -v ELSE v
          /\ d = convert_to_base_string(mag, 10) /\ 10 \in {10, 16}
      BY <1>1, <1>6 DEF mag, d
    <3> HIDE DEF mag, s
    <3> QED  BY <3>1, <3>2, FieldIs
  <2> QED  BY <2>2, <1>10
<1>13. <<>> \o Reverse(b) = Reverse(b)
  <2>1. Reverse(b) \in Seq(FieldChars)
    BY <1>10, ReverseIs
  <2> QED  BY <2>1, ConcatEmptySeq
<1> QED  BY <1>10, <1>11, <1>12, <1>13 DEF b, BufferSize

(* So does print_in_base_unsigned. *)
LEMMA UnsignedField ==
    ASSUME NEW v \in Unsigneds, NEW base \in {10, 16},
           NEW w \in Nat, w <= BufferSize, NEW p \in {"0", "space"}
    PROVE  /\ IsField(Reverse(buffer_unsigned(v, base, w, p)), v, base, w, p)
           /\ Len(buffer_unsigned(v, base, w, p)) <= BufferSize
           /\ buffer_unsigned(v, base, w, p) \in Seq(FieldChars)
<1> DEFINE d == convert_to_base_string(v, base)
           k == IF Len(d) >= w THEN 0 ELSE w - Len(d)
           b == buffer_unsigned(v, base, w, p)
<1>1. v \in Int /\ v \in 0 .. Word - 1 /\ ~(v < 0)
  BY KprintfAssumption, SMT
<1>2. d \in Seq(Numerals) /\ Len(d) \in 1 .. MostDigits(base)
  BY <1>1, DigitsReadBack
<1>d. Len(d) \in Nat /\ Len(d) <= 10
  <2>1. \A x \in 1 .. MostDigits(base) : x \in Nat /\ x <= 10
    BY DEF MostDigits
  <2> QED  BY <1>2, <2>1
<1>3. d \in Seq(FieldChars)
  BY <1>2, FieldCharsHold
<1>5. b = d \o Repeat(p, k)
  BY DEF buffer_unsigned
<1> HIDE DEF d, b
<1>6. /\ k \in Nat /\ Len(d) \in Nat
      /\ k = IF w - 0 - Len(d) > 0 THEN w - 0 - Len(d) ELSE 0
  BY <1>d
<1> HIDE DEF k
<1> DEFINE z == Repeat(p, k)
<1>7. z \in Seq(FieldChars) /\ Len(z) = k /\ Reverse(z) = z
  <2>1. p \in FieldChars
    BY FieldCharsHold
  <2>2. k \in Nat
    BY <1>6
  <2> QED  BY <2>1, <2>2, RepeatIs, Zenon
<1>8. z = InFront(v, p, k) /\ Len(Sign(v)) = 0
  <2>1. Sign(v) = <<>>
    BY <1>1 DEF Sign
  <2>2. z \o <<>> = z /\ <<>> \o z = z /\ Len(<<>>) = 0
    BY <1>7, ConcatEmptySeq, EmptySeq
  <2>3. CASE p = "space"
    BY <2>1, <2>2, <2>3 DEF InFront
  <2>4. CASE p = "0"
    BY <2>1, <2>2, <2>4 DEF InFront
  <2> QED  BY <2>1, <2>2, <2>3, <2>4
<1> HIDE DEF z
<1>10. /\ b \in Seq(FieldChars) /\ Len(b) = Len(d) + k
       /\ Reverse(b) = z \o Reverse(d)
  BY <1>3, <1>5, <1>7, ConcatProperties, ReverseConcat DEF z
<1>11. Len(b) <= 16
  <2>1. w <= 16 /\ Len(d) <= 10
    BY <1>d DEF BufferSize
  <2> QED  BY <1>6, <1>10, <2>1
<1>12. IsField(Reverse(b), v, base, w, p)
  <2>1. v = IF v < 0 THEN -v ELSE v
    BY <1>1
  <2>2. k = IF w - Len(Sign(v)) - Len(d) > 0 THEN w - Len(Sign(v)) - Len(d) ELSE 0
    BY <1>6, <1>8
  <2>3. IsField(InFront(v, p, k) \o Reverse(d), v, base, w, p)
    BY <1>1, <1>6, <2>1, <2>2, FieldIs DEF d
  <2> QED  BY <2>3, <1>8, <1>10
<1> QED  BY <1>10, <1>11, <1>12 DEF b, BufferSize

(* The character at position p of the format f. *)
CharAt(f, p) == IF p <= Len(f) THEN f[p] ELSE "NUL"

(* The digits that start at position p of f end before q. *)
DigitRun(f, p, q) ==
    /\ q \in p .. Len(f) + 1
    /\ \A k \in p .. q - 1 : f[k] \in Digits
    /\ CharAt(f, q) \notin Digits

(* The end of a format is no digit, no conversion and no %. *)
LEMMA NulIsNoDigit == "NUL" \notin Digits /\ "NUL" \notin Conversions /\ "%" # "NUL"
BY DEF Digits, Conversions

(* The digits that start at a position end somewhere. *)
LEMMA RunExists ==
    ASSUME NEW f, Len(f) \in Nat, NEW p \in 1 .. Len(f) + 1
    PROVE  \E q \in p .. Len(f) + 1 : DigitRun(f, p, q)
<1> DEFINE len == Len(f) + 1
           T == {k \in Nat : k \in p .. len /\ CharAt(f, k) \notin Digits}
<1>1. len \in T
  BY NulIsNoDigit DEF CharAt
<1>2. PICK q \in T : \A k \in T : q <= k
  BY <1>1, LeastNat
<1>3. ASSUME NEW k \in p .. q - 1 PROVE f[k] \in Digits
  <2>1. k \in p .. len /\ k \in Nat /\ ~(q <= k) /\ k <= Len(f)
    OBVIOUS
  <2>2. CharAt(f, k) \in Digits
    BY <1>2, <2>1
  <2> QED  BY <2>1, <2>2 DEF CharAt
<1> QED  BY <1>3 DEF DigitRun

(* EndOfDigits finds the end, if it may look far enough. *)
LEMMA EndIs ==
    ASSUME Len(format) \in Nat, NEW p \in 1 .. Len(format) + 1, NEW most \in Nat,
           NEW q, DigitRun(format, p, q), q <= p + most
    PROVE  EndOfDigits(p, most) = q
<1> DEFINE E == {r \in p .. Len(format) + 1 :
                   /\ \A k \in p .. r - 1 : At(k) \in Digits
                   /\ At(r) \notin Digits \/ r = p + most}
           IsLeast(x) == x \in E /\ \A y \in E : x =< y
<1>1. q \in p .. Len(format) + 1 /\ q \in Int
  BY DEF DigitRun
<1>2. \A k \in p .. q - 1 : At(k) \in Digits
  <2> TAKE k \in p .. q - 1
  <2>1. k <= Len(format) /\ format[k] \in Digits
    BY <1>1 DEF DigitRun
  <2> QED  BY <2>1 DEF At
<1>3. At(q) \notin Digits
  BY DEF DigitRun, CharAt, At
<1>4. q \in E
  BY <1>1, <1>2, <1>3
<1>5. ASSUME NEW r \in E PROVE q =< r
  <2>1. r \in Int /\ r >= p /\ (At(r) \notin Digits \/ r = p + most)
    OBVIOUS
  <2>2. ~(r < q)
    <3> SUFFICES ASSUME r < q PROVE FALSE
      OBVIOUS
    <3>1. r \in p .. q - 1
      BY <1>1, <2>1
    <3>2. At(r) \in Digits
      BY <1>2, <3>1
    <3> QED  BY <1>1, <2>1, <3>2
  <2> QED  BY <1>1, <2>1, <2>2
<1>6. IsLeast(q)
  BY <1>4, <1>5
<1>7. ASSUME NEW x, IsLeast(x) PROVE x = q
  <2>1. x \in E /\ x =< q /\ q =< x
    BY <1>4, <1>5, <1>7
  <2>2. x \in Int
    BY <2>1
  <2> QED  BY <1>1, <2>1, <2>2
<1>8. EndOfDigits(p, most) = CHOOSE x : IsLeast(x)
  BY DEF EndOfDigits, Min
<1> HIDE DEF IsLeast
<1> QED  BY <1>6, <1>7, <1>8

(* Digits cut out of a format. *)
LEMMA DigitsCutOut ==
    ASSUME NEW f, NEW a \in Int, NEW b \in Int,
           \A k \in a .. b : f[k] \in Numerals
    PROVE  /\ SubSeq(f, a, b) \in Seq(Numerals)
           /\ Len(SubSeq(f, a, b)) = IF a <= b THEN b - a + 1 ELSE 0
           /\ \A i \in 1 .. b - a + 1 : SubSeq(f, a, b)[i] = f[a + i - 1]
BY SubSeqProperties

(***************************************************************************)
(* What Supported says about the conversion at p: its width is read        *)
(* completely by parse_width and fits the buffer.                          *)
(***************************************************************************)
LEMMA WidthRead ==
    ASSUME format \in Seq(Alphabet), Supported(format), NEW p \in 1 .. Len(format),
           format[p] = "%", NEW q, DigitRun(format, p + 1, q),
           NEW w, w = IF CharAt(format, p + 1) = "0" THEN p + 2 ELSE p + 1
    PROVE  /\ EndOfDigits(p + 1, Len(format)) = q
           /\ EndOfDigits(w, 2) = q
           /\ parse_width(w) = Numeral(SubSeq(format, p + 1, q - 1), 10)
           /\ parse_width(w) \in Nat /\ parse_width(w) <= BufferSize
<1> DEFINE s == SubSeq(format, p + 1, q - 1)
           t == SubSeq(format, w, q - 1)
<1>1. Len(format) \in Nat /\ p \in Nat /\ p + 1 \in 1 .. Len(format) + 1
  BY LenProperties
<1>2. q \in p + 1 .. Len(format) + 1 /\ q \in Int /\ \A k \in p + 1 .. q - 1 : format[k] \in Digits
  BY <1>1 DEF DigitRun
<1>3. EndOfDigits(p + 1, Len(format)) = q
  <2>1. q <= (p + 1) + Len(format)
    BY <1>1, <1>2
  <2> QED  BY <1>1, <2>1, EndIs
<1>4. CASE q = p + 1
  <2>1. w = p + 1
    <3>1. CharAt(format, p + 1) \notin Digits /\ "0" \in Digits
      BY <1>4 DEF DigitRun, Digits
    <3> QED  BY <3>1
  <2>2. EndOfDigits(w, 2) = q
    <3>1. DigitRun(format, w, q) /\ q <= w + 2 /\ w \in 1 .. Len(format) + 1
      BY <1>1, <1>4, <2>1
    <3> QED  BY <1>1, <3>1, EndIs
  <2>3. SubSeq(format, p + 1, q - 1) = <<>>
    BY <1>1, <1>2, <1>4, SubSeqEmpty
  <2>4. parse_width(w) = Numeral(<<>>, 10)
    BY <2>1, <2>2, <2>3 DEF parse_width
  <2>5. Numeral(<<>>, 10) = 0
    BY NumeralEmpty
  <2>6. 0 \in Nat /\ 0 <= BufferSize
    BY DEF BufferSize
  <2>7. parse_width(w) \in Nat /\ parse_width(w) <= BufferSize
    BY <2>4, <2>5, <2>6
  <2> QED  BY <1>3, <2>2, <2>3, <2>4, <2>7
<1>5. CASE q # p + 1
  <2>1. /\ q - 1 \in 1 .. Len(format) /\ p < q - 1
        /\ \A k \in p + 1 .. q - 1 : format[k] \in Digits
    BY <1>1, <1>2, <1>5
  <2>2. /\ (q - 1) - p <= IF format[p + 1] = "0" THEN 3 ELSE 2
        /\ Numeral(s, 10) <= BufferSize
    <3>1. \A a \in 1 .. Len(format), b \in 1 .. Len(format) :
            a < b /\ format[a] = "%" /\ (\A k \in a + 1 .. b : format[k] \in Digits) =>
                /\ b - a <= IF format[a + 1] = "0" THEN 3 ELSE 2
                /\ Numeral(SubSeq(format, a + 1, b), 10) <= BufferSize
      BY DEF Supported
    <3> QED  BY <2>1, <3>1
  <2>3. CharAt(format, p + 1) = format[p + 1]
    BY <1>1, <1>2, <1>5 DEF CharAt
  <2>4. /\ s \in Seq(Numerals)
        /\ Len(s) = (q - 1) - p
        /\ \A i \in 1 .. (q - 1) - p : s[i] = format[p + i]
    <3>1. \A k \in p + 1 .. q - 1 : format[k] \in Numerals
      BY <1>2, DigitsAreNumerals
    <3>2. p + 1 \in Int /\ q - 1 \in Int
      BY <1>1, <1>2
    <3>3. /\ s \in Seq(Numerals)
          /\ Len(s) = IF p + 1 <= q - 1 THEN (q - 1) - (p + 1) + 1 ELSE 0
          /\ \A i \in 1 .. (q - 1) - (p + 1) + 1 : s[i] = format[(p + 1) + i - 1]
      BY <3>1, <3>2, SubSeqProperties
    <3> HIDE DEF s
    <3>4. Len(s) = (q - 1) - p /\ (q - 1) - (p + 1) + 1 = (q - 1) - p
      BY <1>1, <1>2, <2>1, <3>3
    <3>5. \A i \in 1 .. (q - 1) - p : (p + 1) + i - 1 = p + i
      BY <1>1
    <3> QED  BY <3>3, <3>4, <3>5
  <2>5. Numeral(s, 10) \in Nat
    <3>1. PICK u : ReadSoFar(s, 10, u) /\ Numeral(s, 10) = u[Len(s)]
      BY <2>4, NumeralIs
    <3>2. Len(s) \in 0 .. Len(s)
      BY <2>4, LenProperties
    <3> QED  BY <3>1, <3>2 DEF ReadSoFar
  <2>6. CASE format[p + 1] # "0"
    <3>1. w = p + 1
      BY <2>3, <2>6
    <3>2. EndOfDigits(w, 2) = q
      <4>1. q <= w + 2
        BY <1>1, <1>2, <2>2, <2>6, <3>1
      <4> QED  BY <1>1, <3>1, <4>1, EndIs
    <3>3. parse_width(w) = Numeral(s, 10)
      BY <3>1, <3>2 DEF parse_width
    <3> QED  BY <1>3, <2>2, <2>5, <3>2, <3>3
  <2>7. CASE format[p + 1] = "0"
    <3>1. w = p + 2
      BY <2>3, <2>7
    <3>2. EndOfDigits(w, 2) = q
      <4>1. q <= w + 2
        BY <1>1, <1>2, <2>2, <2>7, <3>1
      <4>2. w \in 1 .. Len(format) + 1
        BY <1>1, <2>1, <3>1
      <4>3. DigitRun(format, w, q)
        BY <1>1, <1>2, <1>5, <3>1 DEF DigitRun
      <4> QED  BY <1>1, <4>1, <4>2, <4>3, EndIs
    <3>3. /\ t \in Seq(Numerals)
          /\ Len(t) = Len(s) - 1
          /\ \A i \in 1 .. Len(t) : t[i] = s[i + 1]
      <4>1. \A k \in w .. q - 1 : format[k] \in Numerals
        BY <1>1, <1>2, <3>1, DigitsAreNumerals
      <4>2. w \in Int /\ q - 1 \in Int
        BY <1>1, <1>2, <3>1
      <4>3. /\ t \in Seq(Numerals)
            /\ Len(t) = IF w <= q - 1 THEN (q - 1) - w + 1 ELSE 0
            /\ \A i \in 1 .. (q - 1) - w + 1 : t[i] = format[w + i - 1]
        BY <4>1, <4>2, DigitsCutOut
      <4> HIDE DEF t, s
      <4>4. Len(t) = (q - 1) - w + 1 /\ Len(t) = Len(s) - 1
        BY <1>1, <1>2, <2>1, <2>4, <3>1, <4>3
      <4>5. ASSUME NEW i \in 1 .. Len(t)
            PROVE  t[i] = s[i + 1]
        <5>1. i + 1 \in 1 .. (q - 1) - p /\ w + i - 1 = p + (i + 1) /\ i \in 1 .. (q - 1) - w + 1
          <6>1. w = p + 2 /\ p \in Int /\ q \in Int /\ i \in 1 .. (q - 1) - w + 1
            BY <1>1, <1>2, <3>1, <4>4
          <6> QED  BY <6>1
        <5> QED  BY <5>1, <2>4, <4>3
      <4> QED  BY <4>3, <4>4, <4>5
    <3>4. s # <<>> /\ s[1] = "0"
      <4>1. 1 \in 1 .. (q - 1) - p /\ p + 1 = p + 1
        BY <1>1, <1>2, <2>1
      <4>2. Len(s) # 0
        BY <1>1, <1>2, <2>1, <2>4
      <4> QED  BY <4>1, <4>2, <2>4, <2>7, EmptySeq
    <3>5. Numeral(s, 10) = Numeral(t, 10)
      <4> HIDE DEF s, t
      <4> QED  BY <2>4, <3>3, <3>4, LeadingZero
    <3>6. parse_width(w) = Numeral(t, 10)
      BY <3>2 DEF parse_width
    <3> QED  BY <1>3, <2>2, <2>5, <3>2, <3>5, <3>6
  <2> QED  BY <2>6, <2>7
<1> QED  BY <1>4, <1>5

(***************************************************************************)
(* What check_for_unknown_format finds at position p of f: the end, an     *)
(* ordinary character, a % at the end, or a conversion it knows; and it    *)
(* goes on in V.                                                           *)
(***************************************************************************)
Fine(f, V, p) ==
    \/ CharAt(f, p) = "NUL"
    \/ CharAt(f, p) \notin {"NUL", "%"} /\ p + 1 \in V
    \/ CharAt(f, p) = "%" /\ CharAt(f, p + 1) = "NUL"
    \/ /\ CharAt(f, p) = "%"
       /\ \E q \in p + 1 .. Len(f) :
            DigitRun(f, p + 1, q) /\ f[q] \in Conversions /\ q + 1 \in V

(* V holds the positions it has visited, of which only `here' is open. *)
Visited(f, V, here) ==
    /\ V \subseteq 1 .. Len(f) + 1
    /\ 1 \in V
    /\ \A p \in V : p = here \/ Fine(f, V, p)

(***************************************************************************)
(* The conversion kprintf is at, as it is spelled in the format.           *)
(***************************************************************************)
Parsed(f, from, q, p, w) ==
    /\ from \in 1 .. Len(f) /\ f[from] = "%"
    /\ q \in 1 .. Len(f) /\ DigitRun(f, from + 1, q)
    /\ w = Numeral(SubSeq(f, from + 1, q - 1), 10)
    /\ w \in Nat /\ w <= BufferSize
    /\ p = IF CharAt(f, from + 1) = "0" THEN "0" ELSE "space"

PassInv(f, c, at) ==
    /\ c = "check" => \E V : Visited(f, V, at) /\ at \in V
    /\ c = "print" => \E V : Visited(f, V, 0) /\ at \in V
    /\ c = "convert" => f[at] \in Conversions /\ \E V : Visited(f, V, 0) /\ at + 1 \in V

KTypes ==
    /\ format \in Seq(Alphabet)
    /\ Supported(format)
    /\ ppc \in {"check", "print", "convert", "done"}
    /\ pos \in 1 .. Len(format) + 1
    /\ printed \in Nat

KprintfInv ==
    /\ KTypes
    /\ PassInv(format, ppc, pos)
    /\ ppc = "convert" => Parsed(format, start, pos, pad, width)
    /\ ppc = "check" => printed = 0 /\ ~unknown
    /\ ppc \in {"print", "convert"} => ~unknown
    /\ AllOrNothing
    /\ BufferHolds
    /\ NumbersReadBack

(* More visited positions leave the fine ones fine. *)
LEMMA FineGrows ==
    ASSUME NEW f, NEW V, NEW W, V \subseteq W, NEW p, Fine(f, V, p)
    PROVE  Fine(f, W, p)
BY DEF Fine

(* A step of the check from `here', which is fine, to `there'. *)
LEMMA VisitNext ==
    ASSUME NEW f, NEW V, NEW here, NEW there \in 1 .. Len(f) + 1,
           Visited(f, V, here), Fine(f, V \cup {there}, here)
    PROVE  Visited(f, V \cup {there}, there)
<1> DEFINE W == V \cup {there}
<1>1. W \subseteq 1 .. Len(f) + 1 /\ 1 \in W
  BY DEF Visited
<1>2. ASSUME NEW p \in W PROVE p = there \/ Fine(f, W, p)
  <2>1. CASE p \in V
    <3>1. p = here \/ Fine(f, V, p)
      BY <2>1 DEF Visited
    <3>2. V \subseteq W
      OBVIOUS
    <3> HIDE DEF W
    <3>3. Fine(f, V, p) => Fine(f, W, p)
      BY <3>2, FineGrows
    <3> QED  BY <3>1, <3>3 DEF W
  <2>2. CASE p = there
    BY <2>2
  <2> QED  BY <2>1, <2>2
<1> HIDE DEF W
<1>3. Visited(f, W, there)
  BY <1>1, <1>2 DEF Visited
<1> QED  BY <1>3 DEF W

(* The check is over where it was. *)
LEMMA VisitEnds ==
    ASSUME NEW f, NEW V, NEW here, Visited(f, V, here), Fine(f, V, here)
    PROVE  Visited(f, V, 0)
BY DEF Visited

(* What a step that leaves the field and the format alone keeps. *)
LEMMA FieldKept ==
    ASSUME UNCHANGED <<format, field, used>>, BufferHolds, NumbersReadBack
    PROVE  BufferHolds' /\ NumbersReadBack'
<1>1. BufferHolds'
  BY DEF BufferHolds
<1>2. NumbersReadBack' = NumbersReadBack
  BY DEF NumbersReadBack, SpelledWidth, SpelledPad, Spelled, EndOfDigits, At
<1> QED  BY <1>1, <1>2

(* A call starts in the invariant. *)
LEMMA KprintfInit == PInit => KprintfInv
<1> SUFFICES ASSUME PInit PROVE KprintfInv
  OBVIOUS
<1>1. format \in Seq(Alphabet) /\ Supported(format)
  <2>1. Supported(format) /\ format \in Formats
    BY DEF PInit
  <2>2. PICK k \in 0 .. MaxLen : format \in [1 .. k -> Alphabet]
    BY <2>1 DEF Formats
  <2>3. k \in Nat
    BY KprintfAssumption, SMT
  <2> QED  BY <2>1, <2>2, <2>3
<1>2. Len(format) \in Nat
  BY <1>1, LenProperties
<1>3. KTypes
  BY <1>1, <1>2 DEF KTypes, PInit
<1>4. Visited(format, {1}, 1) /\ 1 \in {1}
  BY <1>2 DEF Visited
<1>5. PassInv(format, ppc, pos)
  BY <1>4 DEF PassInv, PInit
<1>6. NumbersReadBack
  BY DEF PInit, NumbersReadBack, NoField
<1> QED  BY <1>3, <1>5, <1>6 DEF KprintfInv, PInit, AllOrNothing, BufferHolds, BufferSize

(* check_for_unknown_format *)
LEMMA CheckStep == KprintfInv /\ check_for_unknown_format => KprintfInv'
<1> SUFFICES ASSUME KprintfInv, check_for_unknown_format PROVE KprintfInv'
  OBVIOUS
<1> DEFINE f == format
           here == pos
           q == EndOfDigits(pos + 1, Len(format))
<1>1. /\ format \in Seq(Alphabet) /\ Supported(format) /\ Len(format) \in Nat
      /\ pos \in 1 .. Len(format) + 1 /\ printed = 0 /\ ~unknown /\ ppc = "check"
  BY LenProperties DEF KprintfInv, KTypes, check_for_unknown_format
<1>2. PICK V : Visited(format, V, pos) /\ pos \in V
  BY <1>1 DEF KprintfInv, PassInv
<1>3. \A x : At(x) = CharAt(format, x)
  BY DEF At, CharAt
<1>4. BufferHolds /\ NumbersReadBack
  BY DEF KprintfInv
<1>5. ASSUME begin_printing, Fine(format, V, pos)
      PROVE  KprintfInv'
  <2>1. UNCHANGED <<format, field, used, printed, unknown, start, pad, width>> /\ ppc' = "print" /\ pos' = 1
    BY <1>5 DEF begin_printing, output
  <2>2. Visited(format, V, 0) /\ 1 \in V
    BY <1>2, <1>5, VisitEnds DEF Visited
  <2>3. PassInv(format, "print", 1)
    BY <2>2 DEF PassInv
  <2>4. PassInv(format, ppc, pos)'
    BY <2>1, <2>3
  <2>5. KTypes'
    BY <1>1, <2>1 DEF KTypes
  <2>6. BufferHolds' /\ NumbersReadBack'
    BY <1>4, <2>1, FieldKept
  <2> QED  BY <1>1, <2>1, <2>4, <2>5, <2>6 DEF KprintfInv, AllOrNothing
<1>6. ASSUME NEW there \in 1 .. Len(format) + 1, pos' = there, ppc' = "check",
             UNCHANGED <<format, start, pad, width, output>>,
             Fine(format, V \cup {there}, pos)
      PROVE  KprintfInv'
  <2>1. UNCHANGED <<format, field, used, printed, unknown>>
    BY <1>6 DEF output
  <2>2. Visited(format, V \cup {there}, there) /\ there \in V \cup {there}
    BY <1>2, <1>6, VisitNext
  <2>3. PassInv(format, "check", there)
    BY <2>2 DEF PassInv
  <2>4. PassInv(format, ppc, pos)'
    BY <1>6, <2>1, <2>3
  <2>5. KTypes'
    BY <1>1, <1>6, <2>1 DEF KTypes
  <2>6. BufferHolds' /\ NumbersReadBack'
    BY <1>4, <2>1, FieldKept
  <2> QED  BY <1>1, <1>6, <2>1, <2>4, <2>5, <2>6 DEF KprintfInv, AllOrNothing
<1>7. CASE At(pos) = "NUL" /\ begin_printing
  BY <1>3, <1>5, <1>7 DEF Fine
<1>8. CASE /\ At(pos) \notin {"NUL", "%"}
           /\ pos' = pos + 1
           /\ UNCHANGED <<format, ppc, start, pad, width, output>>
  <2>1. pos + 1 \in 1 .. Len(format) + 1
    BY <1>1, <1>8 DEF At
  <2>2. Fine(format, V \cup {pos + 1}, pos)
    BY <1>3, <1>8 DEF Fine
  <2> QED  BY <1>1, <1>6, <1>8, <2>1, <2>2
<1>9. CASE At(pos) = "%" /\ At(pos + 1) = "NUL" /\ begin_printing
  BY <1>3, <1>5, <1>9 DEF Fine
<1>10. CASE /\ At(pos) = "%" /\ At(pos + 1) # "NUL" /\ At(q) \in Conversions
            /\ pos' = q + 1
            /\ UNCHANGED <<format, ppc, start, pad, width, output>>
  <2>1. pos \in 1 .. Len(format) /\ format[pos] = "%" /\ pos + 1 \in 1 .. Len(format) + 1
    BY <1>1, <1>10, NulIsNoDigit DEF At
  <2>2. PICK r \in pos + 1 .. Len(format) + 1 : DigitRun(format, pos + 1, r)
    BY <1>1, <2>1, RunExists
  <2>3. q = r
    <3>1. r <= (pos + 1) + Len(format)
      BY <1>1, <2>2
    <3> QED  BY <1>1, <2>1, <2>2, <3>1, EndIs
  <2> HIDE DEF q
  <2>4. r \in pos + 1 .. Len(format) /\ format[r] \in Conversions
    BY <1>1, <1>10, <2>2, <2>3, NulIsNoDigit DEF At
  <2>5. r + 1 \in 1 .. Len(format) + 1
    BY <1>1, <2>1, <2>4
  <2>6. Fine(format, V \cup {r + 1}, pos)
    BY <1>3, <1>10, <2>2, <2>4 DEF Fine
  <2> QED  BY <1>1, <1>6, <1>10, <2>3, <2>5, <2>6
<1>11. CASE At(pos) = "%" /\ At(pos + 1) # "NUL" /\ At(q) \notin Conversions
            /\ print_unknown
  <2>1. UNCHANGED <<format, pos, field, used, printed>> /\ ppc' = "done"
    BY <1>11 DEF print_unknown
  <2>2. BufferHolds' /\ NumbersReadBack'
    BY <1>4, <2>1, FieldKept
  <2>3. KTypes' /\ PassInv(format, ppc, pos)'
    BY <1>1, <2>1 DEF KTypes, PassInv
  <2> QED  BY <1>1, <2>1, <2>2, <2>3 DEF KprintfInv, AllOrNothing
<1> QED  BY <1>7, <1>8, <1>9, <1>10, <1>11 DEF check_for_unknown_format

(* kprintf up to the switch *)
LEMMA PrintStep == KprintfInv /\ print => KprintfInv'
<1> SUFFICES ASSUME KprintfInv, print PROVE KprintfInv'
  OBVIOUS
<1> DEFINE zero == At(pos + 1) = "0"
           w == IF zero THEN pos + 2 ELSE pos + 1
           q == EndOfDigits(w, 2)
<1>1. /\ format \in Seq(Alphabet) /\ Supported(format) /\ Len(format) \in Nat
      /\ pos \in 1 .. Len(format) + 1 /\ printed \in Nat /\ ~unknown /\ ppc = "print"
  BY LenProperties DEF KprintfInv, KTypes, print
<1>2. PICK V : Visited(format, V, 0) /\ pos \in V
  BY <1>1 DEF KprintfInv, PassInv
<1>3. \A x : At(x) = CharAt(format, x)
  BY DEF At, CharAt
<1>4. BufferHolds /\ NumbersReadBack
  BY DEF KprintfInv
<1>5. Fine(format, V, pos)
  BY <1>1, <1>2 DEF Visited
<1>6. ASSUME return PROVE KprintfInv'
  <2>1. UNCHANGED <<format, pos, field, used, printed, unknown>> /\ ppc' = "done"
    BY <1>6 DEF return, output
  <2>2. BufferHolds' /\ NumbersReadBack'
    BY <1>4, <2>1, FieldKept
  <2>3. KTypes' /\ PassInv(format, ppc, pos)'
    BY <1>1, <2>1 DEF KTypes, PassInv
  <2> QED  BY <1>1, <2>1, <2>2, <2>3 DEF KprintfInv, AllOrNothing
<1>7. CASE /\ At(pos) \notin {"NUL", "%"}
           /\ printed' = printed + 1
           /\ pos' = pos + 1
           /\ UNCHANGED <<format, ppc, start, pad, width, unknown, field, used>>
  <2>1. pos + 1 \in 1 .. Len(format) + 1
    BY <1>1, <1>7 DEF At
  <2>2. pos + 1 \in V
    BY <1>3, <1>5, <1>7 DEF Fine
  <2>3. PassInv(format, "print", pos + 1)
    BY <1>2, <2>2 DEF PassInv
  <2>4. PassInv(format, ppc, pos)'
    BY <1>1, <1>7, <2>3
  <2>5. KTypes'
    BY <1>1, <1>7, <2>1 DEF KTypes
  <2>6. BufferHolds' /\ NumbersReadBack'
    BY <1>4, <1>7, FieldKept
  <2> QED  BY <1>1, <1>7, <2>4, <2>5, <2>6 DEF KprintfInv, AllOrNothing
<1>8. CASE /\ At(pos) = "%"
           /\ "NUL" \notin {At(pos + 1), At(w), At(q)}
           /\ start' = pos
           /\ pad' = IF zero THEN "0" ELSE "space"
           /\ width' = parse_width(w)
           /\ pos' = q
           /\ ppc' = "convert"
           /\ UNCHANGED <<format, output>>
  <2>1. pos \in 1 .. Len(format) /\ format[pos] = "%" /\ pos + 1 \in 1 .. Len(format) + 1
    BY <1>1, <1>8, NulIsNoDigit DEF At
  <2>2. PICK r \in pos + 1 .. Len(format) :
           DigitRun(format, pos + 1, r) /\ format[r] \in Conversions /\ r + 1 \in V
    BY <1>3, <1>5, <1>8, NulIsNoDigit DEF Fine
  <2>3. /\ q = r
        /\ parse_width(w) = Numeral(SubSeq(format, pos + 1, r - 1), 10)
        /\ parse_width(w) \in Nat /\ parse_width(w) <= BufferSize
    <3>1. w = IF CharAt(format, pos + 1) = "0" THEN pos + 2 ELSE pos + 1
      BY <1>3
    <3> HIDE DEF w
    <3> QED  BY <1>1, <2>1, <2>2, <3>1, WidthRead
  <2> HIDE DEF q, w
  <2>4. pad' = IF CharAt(format, pos + 1) = "0" THEN "0" ELSE "space"
    BY <1>3, <1>8
  <2>5. r \in 1 .. Len(format) /\ r \in 1 .. Len(format) + 1
    BY <1>1, <2>1, <2>2
  <2>6. Parsed(format, pos, r, pad', width')
    BY <1>8, <2>1, <2>2, <2>3, <2>4, <2>5 DEF Parsed
  <2>7. Parsed(format, start, pos, pad, width)'
    BY <1>8, <2>3, <2>6
  <2>8. PassInv(format, "convert", r)
    BY <1>2, <2>2 DEF PassInv
  <2>9. PassInv(format, ppc, pos)'
    BY <1>8, <2>3, <2>8
  <2>10. UNCHANGED <<format, field, used, printed, unknown>>
    BY <1>8 DEF output
  <2>11. KTypes'
    BY <1>1, <1>8, <2>3, <2>5, <2>10 DEF KTypes
  <2>12. BufferHolds' /\ NumbersReadBack'
    BY <1>4, <2>10, FieldKept
  <2> QED  BY <1>1, <1>8, <2>7, <2>9, <2>10, <2>11, <2>12 DEF KprintfInv, AllOrNothing
<1> QED  BY <1>6, <1>7, <1>8 DEF print

(* The first part of a concatenation. *)
LEMMA FirstPart ==
    ASSUME NEW S, NEW a \in Seq(S), NEW b \in Seq(S)
    PROVE  SubSeq(a \o b, 1, Len(a)) = a
<1> DEFINE c == a \o b
           t == SubSeq(c, 1, Len(a))
<1>1. /\ c \in Seq(S) /\ Len(c) = Len(a) + Len(b)
      /\ \A i \in 1 .. Len(a) + Len(b) : c[i] = IF i <= Len(a) THEN a[i] ELSE b[i - Len(a)]
  BY ConcatProperties
<1>2. Len(a) \in Nat /\ Len(b) \in Nat
  BY LenProperties
<1> HIDE DEF c
<1>3. \A i \in 1 .. Len(a) : c[i] = a[i] /\ c[i] \in S
  BY <1>1, <1>2, ElementOfSeq
<1>4. /\ t \in Seq(S)
      /\ Len(t) = IF 1 <= Len(a) THEN Len(a) - 1 + 1 ELSE 0
      /\ \A i \in 1 .. Len(a) - 1 + 1 : t[i] = c[1 + i - 1]
  BY <1>2, <1>3, SubSeqProperties
<1> HIDE DEF t
<1>5. Len(t) = Len(a)
  BY <1>2, <1>4
<1>6. ASSUME NEW i \in 1 .. Len(t) PROVE t[i] = a[i]
  <2>1. i \in 1 .. Len(a) /\ i \in 1 .. Len(a) - 1 + 1 /\ 1 + i - 1 = i
    BY <1>2, <1>5
  <2> QED  BY <2>1, <1>3, <1>4
<1>7. t = a
  BY <1>4, <1>5, <1>6, SeqEqual
<1> QED  BY <1>7 DEF t, c

(* How the conversion just made is spelled in the format. *)
LEMMA SpelledIs ==
    ASSUME format \in Seq(Alphabet), Supported(format),
           Parsed(format, start, pos, pad, width),
           format' = format, NEW c, NEW v, NEW t,
           field' = [conversion |-> c, from |-> start, value |-> v, text |-> t]
    PROVE  /\ SpelledWidth' = IF c = "p" THEN 8 ELSE width
           /\ SpelledPad' = IF c = "p" THEN "0" ELSE pad
<1> DEFINE s == SubSeq(format, start + 1, pos - 1)
<1>1. /\ start \in 1 .. Len(format) /\ format[start] = "%"
      /\ pos \in 1 .. Len(format) /\ DigitRun(format, start + 1, pos)
      /\ width = Numeral(s, 10)
      /\ pad = IF CharAt(format, start + 1) = "0" THEN "0" ELSE "space"
  BY DEF Parsed
<1>2. EndOfDigits(start + 1, Len(format)) = pos
  <2>1. PICK w : w = IF CharAt(format, start + 1) = "0" THEN start + 2 ELSE start + 1
    OBVIOUS
  <2> QED  BY <1>1, <2>1, WidthRead
<1>3. field'.from = start /\ field'.conversion = c
  OBVIOUS
<1>4. Spelled' = SubSeq(format, start + 1, EndOfDigits(start + 1, Len(format)) - 1)
  BY <1>3 DEF Spelled, EndOfDigits, At
<1>5. Spelled' = s
  BY <1>2, <1>4
<1>6. SpelledWidth' = IF c = "p" THEN 8 ELSE Numeral(Spelled, 10)'
  BY <1>3 DEF SpelledWidth
<1>7. Numeral(Spelled, 10)' = Numeral(s, 10)
  BY <1>5
<1>8. (s # <<>> /\ Head(s) = "0") <=> CharAt(format, start + 1) = "0"
  <2>0. Len(format) \in Nat /\ start \in Int /\ pos \in Int
    BY <1>1, LenProperties
  <2>1. pos \in start + 1 .. Len(format) /\ \A k \in start + 1 .. pos - 1 : format[k] \in Digits
    BY <1>1, <2>0 DEF DigitRun
  <2>2. CASE pos = start + 1
    <3>1. s = <<>>
      BY <2>0, <2>2, SubSeqEmpty
    <3>2. CharAt(format, start + 1) \notin Digits /\ "0" \in Digits
      BY <1>1, <2>2 DEF DigitRun, Digits
    <3> QED  BY <3>1, <3>2
  <2>3. CASE pos # start + 1
    <3>1. /\ s \in Seq(Digits)
          /\ Len(s) = IF start + 1 <= pos - 1 THEN (pos - 1) - (start + 1) + 1 ELSE 0
          /\ \A i \in 1 .. (pos - 1) - (start + 1) + 1 : s[i] = format[(start + 1) + i - 1]
      BY <2>0, <2>1, SubSeqProperties
    <3> HIDE DEF s
    <3>2. Len(s) # 0 /\ 1 \in 1 .. (pos - 1) - (start + 1) + 1 /\ (start + 1) + 1 - 1 = start + 1
      BY <2>0, <2>1, <2>3, <3>1
    <3>3. s # <<>> /\ s[1] = format[start + 1]
      BY <3>1, <3>2, EmptySeq
    <3>4. Head(s) = s[1]
      BY <3>1, <3>3
    <3>5. CharAt(format, start + 1) = format[start + 1]
      BY <2>0, <2>1 DEF CharAt
    <3> QED  BY <3>3, <3>4, <3>5
  <2> QED  BY <2>2, <2>3
<1>9. SpelledPad' = IF c = "p" \/ (s # <<>> /\ Head(s) = "0") THEN "0" ELSE "space"
  BY <1>3, <1>5 DEF SpelledPad
<1> HIDE DEF s
<1> QED  BY <1>1, <1>6, <1>7, <1>8, <1>9

(* The switch of kprintf *)
LEMMA ConvertStep == KprintfInv /\ convert => KprintfInv'
<1> SUFFICES ASSUME KprintfInv, convert PROVE KprintfInv'
  OBVIOUS
<1>1. /\ format \in Seq(Alphabet) /\ Supported(format) /\ Len(format) \in Nat
      /\ pos \in 1 .. Len(format) + 1 /\ printed \in Nat /\ ~unknown /\ ppc = "convert"
      /\ Parsed(format, start, pos, pad, width) /\ BufferHolds /\ NumbersReadBack
  BY LenProperties DEF KprintfInv, KTypes, convert
<1>2. PICK V : Visited(format, V, 0) /\ pos + 1 \in V
  BY <1>1 DEF KprintfInv, PassInv
<1>3. pos \in 1 .. Len(format) /\ At(pos) = format[pos] /\ format[pos] \in Conversions
  BY <1>1 DEF KprintfInv, PassInv, Parsed, At
<1>4. UNCHANGED <<format, start, pad, width>> /\ pos' = pos + 1 /\ ppc' = "print"
  BY DEF convert
<1>5. pos + 1 \in 1 .. Len(format) + 1 /\ pos \in Nat
  BY <1>1, <1>3
<1>6. PassInv(format, ppc, pos)'
  <2>1. PassInv(format, "print", pos + 1)
    BY <1>2 DEF PassInv
  <2> QED  BY <1>4, <2>1
<1>7. ASSUME NEW v, NEW t, NEW len, Len(t) \in Nat, puts(v, t, len), len <= BufferSize, NumbersReadBack'
      PROVE  KprintfInv'
  <2>1. printed' = printed + Len(t) /\ used' = len /\ unknown' = unknown
    BY <1>7 DEF puts
  <2>2. KTypes'
    BY <1>1, <1>4, <1>5, <1>7, <2>1 DEF KTypes
  <2> QED  BY <1>1, <1>4, <1>6, <1>7, <2>1, <2>2 DEF KprintfInv, AllOrNothing, BufferHolds
<1>8. width \in Nat /\ width <= BufferSize /\ pad \in {"0", "space"}
  BY <1>1 DEF Parsed
<1>9. ASSUME NEW v, NEW t, NEW len, puts(v, t, len)
      PROVE  /\ field'.conversion = At(pos) /\ field'.value = v /\ field'.text = t
             /\ SpelledWidth' = IF At(pos) = "p" THEN 8 ELSE width
             /\ SpelledPad' = IF At(pos) = "p" THEN "0" ELSE pad
  <2>1. field' = [conversion |-> At(pos), from |-> start, value |-> v, text |-> t]
    BY <1>9 DEF puts
  <2>2. field'.conversion = At(pos) /\ field'.value = v /\ field'.text = t
    BY <2>1
  <2> QED  BY <1>1, <1>4, <2>1, <2>2, SpelledIs
<1>10. ASSUME NEW v, NEW t, NEW len, Len(t) \in Nat, puts(v, t, len), len = 0,
              At(pos) \notin {"i", "u", "x", "p"}
       PROVE  KprintfInv'
  <2>1. NumbersReadBack'
    BY <1>9, <1>10 DEF NumbersReadBack
  <2>2. len <= BufferSize
    BY <1>10 DEF BufferSize
  <2> QED  BY <1>7, <1>10, <2>1, <2>2
<1>11. CASE At(pos) = "c" /\ puts(0, <<"t">>, 0)
  BY <1>10, <1>11
<1>12. CASE At(pos) = "%" /\ puts(0, <<"%">>, 0)
  BY <1>10, <1>12
<1>13. ASSUME At(pos) = "s", NEW str \in Strings,
              puts(str, Repeat(pad, IF Len(str) >= width THEN 0
                                    ELSE width - Len(str)) \o str, 0)
       PROVE  KprintfInv'
  <2> DEFINE k == IF Len(str) >= width THEN 0 ELSE width - Len(str)
             z == Repeat(pad, k)
             C == {str[i] : i \in 1 .. Len(str)} \cup {"0", "space"}
  <2>1. str \in Seq(C) /\ Len(str) \in Nat
    <3>1. str \in Seq(STRING)
      BY KprintfAssumption
    <3>2. Len(str) \in Nat /\ str \in [1 .. Len(str) -> STRING]
      BY <3>1, LenProperties
    <3>3. str \in [1 .. Len(str) -> C]
      BY <3>2
    <3> QED  BY <3>2, <3>3
  <2>2. k \in Nat
    BY <1>8, <2>1
  <2> HIDE DEF k
  <2>3. z \in Seq(C)
    <3>1. pad \in C
      BY <1>8
    <3> HIDE DEF C
    <3> QED  BY <2>2, <3>1, RepeatIs, Zenon
  <2> HIDE DEF z, C
  <2>4. Len(z \o str) \in Nat
    BY <2>1, <2>3, ConcatProperties, LenProperties
  <2>5. puts(str, z \o str, 0)
    BY <1>13 DEF z, k
  <2> QED  BY <1>10, <1>13, <2>4, <2>5
<1>14. ASSUME At(pos) = "i", NEW v \in Ints,
              puts_buffer(v, <<>>, buffer_signed(v, width, pad))
       PROVE  KprintfInv'
  <2> DEFINE b == buffer_signed(v, width, pad)
             t == <<>> \o Reverse(b)
  <2>1. /\ IsField(t, v, 10, width, pad) /\ Len(b) <= BufferSize /\ b \in Seq(FieldChars)
    BY <1>8, SignedField
  <2>2. puts(v, t, Len(b))
    BY <1>14 DEF puts_buffer
  <2> HIDE DEF b
  <2>3. Len(t) \in Nat
    BY <2>1, ReverseIs, ConcatProperties, EmptySeq, LenProperties
  <2> HIDE DEF t
  <2>4. NumbersReadBack'
    <3>1. /\ field'.conversion = "i" /\ field'.value = v /\ field'.text = t
          /\ SpelledWidth' = width /\ SpelledPad' = pad
      BY <1>9, <1>14, <2>2
    <3> QED  BY <2>1, <3>1 DEF NumbersReadBack
  <2> QED  BY <1>7, <2>1, <2>2, <2>3, <2>4
<1>15. ASSUME NEW base \in {10, 16}, At(pos) = IF base = 10 THEN "u" ELSE "x",
              NEW v \in Unsigneds,
              puts_buffer(v, <<>>, buffer_unsigned(v, base, width, pad))
       PROVE  KprintfInv'
  <2> DEFINE b == buffer_unsigned(v, base, width, pad)
             t == Reverse(b)
  <2>1. /\ IsField(t, v, base, width, pad) /\ Len(b) <= BufferSize /\ b \in Seq(FieldChars)
    BY <1>8, UnsignedField
  <2>2. t \in Seq(FieldChars) /\ Len(t) \in Nat
    <3> HIDE DEF b
    <3> QED  BY <2>1, ReverseIs, LenProperties
  <2>3. puts(v, t, Len(b))
    <3>1. puts(v, <<>> \o t, Len(b))
      BY <1>15 DEF puts_buffer
    <3>2. <<>> \o t = t
      <4> HIDE DEF t
      <4> QED  BY <2>2, ConcatEmptySeq
    <3> QED  BY <3>1, <3>2
  <2> HIDE DEF b, t
  <2>4. NumbersReadBack'
    <3>1. /\ field'.conversion = At(pos) /\ field'.value = v /\ field'.text = t
          /\ SpelledWidth' = width /\ SpelledPad' = pad
      BY <1>9, <1>15, <2>3
    <3>2. CASE base = 10
      BY <1>15, <2>1, <3>1, <3>2 DEF NumbersReadBack
    <3>3. CASE base = 16
      BY <1>15, <2>1, <3>1, <3>3 DEF NumbersReadBack
    <3> QED  BY <3>2, <3>3
  <2> QED  BY <1>7, <2>1, <2>2, <2>3, <2>4
<1>16. ASSUME At(pos) = "p", NEW v \in Unsigneds,
              puts_buffer(v, <<"0", "x">>, buffer_unsigned(v, 16, 8, "0"))
       PROVE  KprintfInv'
  <2> DEFINE b == buffer_unsigned(v, 16, 8, "0")
             r == Reverse(b)
             a == <<"0", "x">>
             t == a \o r
  <2>1. /\ IsField(r, v, 16, 8, "0") /\ Len(b) <= BufferSize /\ b \in Seq(FieldChars)
    <3>1. 8 \in Nat /\ 8 <= BufferSize
      BY DEF BufferSize
    <3> QED  BY <3>1, UnsignedField
  <2>2. puts(v, t, Len(b))
    BY <1>16 DEF puts_buffer
  <2>3. r \in Seq(FieldChars)
    <3> HIDE DEF b
    <3> QED  BY <2>1, ReverseIs
  <2>4. a \in Seq(FieldChars) /\ Len(a) = 2
    BY FieldCharsHold
  <2> HIDE DEF b, r, a
  <2>5. Len(t) \in Nat /\ SubSeq(t, 1, 2) = a /\ SubSeq(t, 3, Len(t)) = r
    <3>1. t \in Seq(FieldChars)
      BY <2>3, <2>4, ConcatProperties
    <3>2. SubSeq(t, 1, Len(a)) = a /\ SubSeq(t, Len(a) + 1, Len(t)) = r
      BY <2>3, <2>4, FirstPart, SecondPart
    <3> HIDE DEF t
    <3>3. Len(t) \in Nat
      BY <3>1, LenProperties
    <3> QED  BY <2>4, <3>2, <3>3
  <2> HIDE DEF t
  <2>6. NumbersReadBack'
    <3>1. /\ field'.conversion = "p" /\ field'.value = v /\ field'.text = t
          /\ SpelledWidth' = 8 /\ SpelledPad' = "0"
      BY <1>9, <1>16, <2>2
    <3>2. SubSeq(field'.text, 1, 2) = <<"0", "x">> /\ SubSeq(field'.text, 3, Len(field'.text)) = r
      BY <2>5, <3>1 DEF a
    <3>3. IsField(SubSeq(field'.text, 3, Len(field'.text)), field'.value, 16, SpelledWidth', SpelledPad')
      BY <2>1, <3>1, <3>2
    <3> QED  BY <3>1, <3>2, <3>3 DEF NumbersReadBack
  <2> QED  BY <1>7, <2>1, <2>2, <2>5, <2>6
<1> QED
  <2>1. \/ At(pos) = "c" /\ puts(0, <<"t">>, 0)
        \/ At(pos) = "%" /\ puts(0, <<"%">>, 0)
        \/ /\ At(pos) = "s"
           /\ \E str \in Strings :
                puts(str, Repeat(pad, IF Len(str) >= width THEN 0
                                      ELSE width - Len(str)) \o str, 0)
        \/ /\ At(pos) = "i"
           /\ \E v \in Ints : puts_buffer(v, <<>>, buffer_signed(v, width, pad))
        \/ /\ At(pos) = "u"
           /\ \E v \in Unsigneds :
                puts_buffer(v, <<>>, buffer_unsigned(v, 10, width, pad))
        \/ /\ At(pos) = "x"
           /\ \E v \in Unsigneds :
                puts_buffer(v, <<>>, buffer_unsigned(v, 16, width, pad))
        \/ /\ At(pos) = "p"
           /\ \E v \in Unsigneds :
                puts_buffer(v, <<"0", "x">>, buffer_unsigned(v, 16, 8, "0"))
    BY <1>3 DEF convert
  <2>2. ASSUME At(pos) = "u", NEW v \in Unsigneds,
               puts_buffer(v, <<>>, buffer_unsigned(v, 10, width, pad))
        PROVE  KprintfInv'
    BY <1>15, <2>2
  <2>3. ASSUME At(pos) = "x", NEW v \in Unsigneds,
               puts_buffer(v, <<>>, buffer_unsigned(v, 16, width, pad))
        PROVE  KprintfInv'
    BY <1>15, <2>3
  <2> QED  BY <2>1, <2>2, <2>3, <1>11, <1>12, <1>13, <1>14, <1>16

(* A step that changes nothing keeps the invariant. *)
LEMMA KprintfStutter == KprintfInv /\ UNCHANGED pvars => KprintfInv'
<1> SUFFICES ASSUME KprintfInv, UNCHANGED pvars PROVE KprintfInv'
  OBVIOUS
<1>1. UNCHANGED <<format, ppc, pos, start, pad, width, printed, unknown, field, used>>
  BY DEF pvars, output
<1>2. BufferHolds' /\ NumbersReadBack'
  BY <1>1, FieldKept DEF KprintfInv
<1>3. KTypes' /\ PassInv(format, ppc, pos)'
  BY <1>1 DEF KprintfInv, KTypes
<1> QED  BY <1>1, <1>2, <1>3 DEF KprintfInv, AllOrNothing

(***************************************************************************)
(* The inductive invariant of kprintf, for every supported format and      *)
(* every argument.                                                         *)
(***************************************************************************)
THEOREM KprintfInvariant == PSpec => []KprintfInv
<1>1. KprintfInv /\ [PNext]_pvars => KprintfInv'
  BY CheckStep, PrintStep, ConvertStep, KprintfStutter DEF PNext, done
<1> QED  BY <1>1, KprintfInit, PTL DEF PSpec

(***************************************************************************)
(* print_in_base_signed and print_in_base_unsigned never write past        *)
(* buffer[16], for every supported format and every word of at most 32     *)
(* bits.                                                                   *)
(***************************************************************************)
THEOREM KprintfKeepsToItsBuffer == PSpec => []BufferHolds
<1>1. KprintfInv => BufferHolds
  BY DEF KprintfInv
<1> QED  BY <1>1, KprintfInvariant, PTL

(***************************************************************************)
(* check_for_unknown_format and the second pass of kprintf agree on every  *)
(* supported format: an unknown conversion is noticed before anything is   *)
(* printed, or not at all.                                                 *)
(***************************************************************************)
THEOREM KprintfPrintsAllOrNothing == PSpec => []AllOrNothing
<1>1. KprintfInv => AllOrNothing
  BY DEF KprintfInv
<1> QED  BY <1>1, KprintfInvariant, PTL

(***************************************************************************)
(* What %i, %u, %x and %p put out is the numeral of their argument, padded *)
(* to the width the format spells, for every argument.                     *)
(***************************************************************************)
THEOREM KprintfNumbersReadBack == PSpec => []NumbersReadBack
<1>1. KprintfInv => NumbersReadBack
  BY DEF KprintfInv
<1> QED  BY <1>1, KprintfInvariant, PTL
=============================================================================
