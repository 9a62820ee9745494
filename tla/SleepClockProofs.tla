-------------------------- MODULE SleepClockProofs --------------------------
(***************************************************************************)
(* Proofs that sleep lasts exactly as long as asked, for any number of     *)
(* sleepers and any sleep arguments, and that the scheduler implements     *)
(* round robin.                                                            *)
(*                                                                         *)
(* What a sleeper still has to wait for is its sleep_counter; what it has  *)
(* waited for is `elapsed'.  The two add up to what it asked for, except   *)
(* between the start of a tick, which counts as elapsed for everybody, and *)
(* the moment the scan reaches the sleeper.                                *)
(***************************************************************************)
EXTENDS MCScheduler, SchedulerProofs, FiniteSetTheorems

(* The tick under way has not been charged yet at position j of the queue. *)
Uncharged(j) == cur # 0 /\ j >= cur

Ledger ==
    \A j \in 1 .. Len(sleep_queue) :
        elapsed[sleep_queue[j]] + sleep_counter[sleep_queue[j]]
            = asked[sleep_queue[j]] + (IF Uncharged(j) THEN 1 ELSE 0)

SInv ==
    /\ IInv
    /\ asked \in [Threads -> Nat]
    /\ elapsed \in [Threads -> Nat]
    /\ Ledger

-----------------------------------------------------------------------------
(* A step of the clocked scheduler is a step of the scheduler. *)
LEMMA ClockStepIsSchedulerStep == SNext => Next
BY DEF SNext, AsksToSleep, TickBegins, AnyOtherStep, Next

(* The sleepers are the threads on the sleep queue, each at one position. *)
LEMMA SleeperPositions ==
    ASSUME IInv
    PROVE  /\ Len(sleep_queue) \in Nat
           /\ sleep_counter \in [AllThreads -> Nat]
           /\ \A j \in 1 .. Len(sleep_queue) :
                /\ sleep_queue[j] \in Threads
                /\ sleep_queue[j] \in AllThreads
                /\ status[sleep_queue[j]] = "SLEEPING"
           /\ \A i, j \in 1 .. Len(sleep_queue) :
                sleep_queue[i] = sleep_queue[j] => i = j
           /\ \A t \in Threads : status[t] = "SLEEPING"
                => \E j \in 1 .. Len(sleep_queue) : t = sleep_queue[j]
<1>1. /\ sleep_queue \in Seq(Threads)
      /\ IsInjective(sleep_queue)
      /\ \A t \in Threads : t \in Range(sleep_queue) <=> status[t] = "SLEEPING"
  BY DEF IInv, Placed
<1>2. DOMAIN sleep_queue = 1 .. Len(sleep_queue) /\ Len(sleep_queue) \in Nat
  BY <1>1, LenProperties
<1>3. \A j \in 1 .. Len(sleep_queue) : sleep_queue[j] \in Threads
  BY <1>1, ElementOfSeq
<1> QED  BY <1>1, <1>2, <1>3 DEF IInv, Data, AllThreads, Range, IsInjective

(* Static storage: nobody sleeps. *)
LEMMA InitSInv == SInit => SInv
BY InitIInv DEF SInit, SInv, Init, Ledger

(* Falling asleep: the new sleeper is last and owes all it asked for. *)
LEMMA AsksPreserves ==
    ASSUME NEW cycles \in SleepArgs, SInv, AsksToSleep(cycles)
    PROVE  SInv'
<1> USE DEF AsksToSleep, SleepCall, scheduler_sleep_running_from_irq
<1>1. running_thread \in Threads /\ IInv /\ cur = 0 /\ cur' = 0
  BY UserThreadIsThread DEF SInv, InUserThread
<1>2. IInv'
  BY <1>1, SleepPreserves
<1>3. /\ asked' \in [Threads -> Nat]
      /\ elapsed' \in [Threads -> Nat]
  BY <1>1, InputAssumption DEF SInv
<1>4. /\ Len(sleep_queue') = Len(sleep_queue) + 1
      /\ \A j \in 1 .. Len(sleep_queue) : sleep_queue'[j] = sleep_queue[j]
      /\ sleep_queue'[Len(sleep_queue) + 1] = running_thread
  BY <1>1, AppendProperties DEF IInv, Placed
<1>5. status[running_thread] = "RUNNING"
  BY <1>1 DEF IInv, Placed, AllThreads
<1>6. ASSUME NEW j \in 1 .. Len(sleep_queue')
      PROVE  elapsed'[sleep_queue'[j]] + sleep_counter'[sleep_queue'[j]]
                = asked'[sleep_queue'[j]]
  <2>1. CASE j = Len(sleep_queue) + 1
    BY <1>1, <1>4, <2>1, InputAssumption DEF SInv, IInv, Data, AllThreads
  <2>2. CASE j \in 1 .. Len(sleep_queue)
    <3>1. sleep_queue[j] \in Threads /\ sleep_queue[j] \in AllThreads /\ sleep_queue[j] # running_thread
      BY <1>1, <1>5, <2>2, SleeperPositions
    <3>2. elapsed[sleep_queue[j]] + sleep_counter[sleep_queue[j]]
                = asked[sleep_queue[j]]
      BY <1>1, <2>2, <3>1 DEF SInv, Ledger, Uncharged
    <3> QED  BY <1>1, <1>4, <2>2, <3>1, <3>2 DEF SInv, IInv, Data
  <2> QED  BY <1>1, <1>4, <2>1, <2>2, SleeperPositions
<1>7. Ledger'
  <2>1. ASSUME NEW j \in 1 .. Len(sleep_queue')
        PROVE  ~Uncharged(j)' /\ asked'[sleep_queue'[j]] \in Nat
    BY <1>1, <1>2, <1>3, ElementOfSeq DEF Uncharged, IInv, Placed
  <2> QED  BY <1>6, <2>1 DEF Ledger
<1> QED  BY <1>2, <1>3, <1>7 DEF SInv

(* The tick begins: one more tick has elapsed for every sleeper. *)
LEMMA TickBeginsPreserves == SInv /\ TickBegins => SInv'
<1> SUFFICES ASSUME SInv, TickBegins PROVE SInv'
  OBVIOUS
<1> USE DEF TickBegins, scheduler_tick_from_irq
<1>1. IInv /\ IInv'
  BY TickPreserves DEF SInv
<1>2. /\ asked' \in [Threads -> Nat]
      /\ elapsed' \in [Threads -> Nat]
  BY DEF SInv
<1>3. ASSUME NEW j \in 1 .. Len(sleep_queue)
      PROVE  elapsed'[sleep_queue[j]] + sleep_counter[sleep_queue[j]]
                = asked[sleep_queue[j]] + 1
  <2>1. /\ sleep_queue[j] \in Threads
        /\ sleep_queue[j] \in AllThreads
        /\ status[sleep_queue[j]] = "SLEEPING"
        /\ sleep_counter[sleep_queue[j]] \in Nat
    BY <1>1, SleeperPositions
  <2>2. elapsed[sleep_queue[j]] + sleep_counter[sleep_queue[j]]
            = asked[sleep_queue[j]]
    BY <2>1 DEF SInv, Ledger, Uncharged
  <2> QED  BY <2>1, <2>2 DEF SInv
<1>4. Ledger'
  <2>1. \A j \in 1 .. Len(sleep_queue') : Uncharged(j)'
    BY <1>1, SleeperPositions DEF Uncharged
  <2> QED  BY <1>3, <2>1 DEF Ledger
<1> QED  BY <1>1, <1>2, <1>4 DEF SInv

(***************************************************************************)
(* One round of the scan.  A sleeper that stays pays for the tick out of   *)
(* its counter and the position moves past it; one that leaves lets the    *)
(* others, unpaid ones, move up to the position.                           *)
(***************************************************************************)
LEMMA ScanKeepsLedger ==
    ASSUME SInv, scheduler_update_sleepers, UNCHANGED <<asked, elapsed>>
    PROVE  Ledger'
<1> DEFINE n == Len(sleep_queue)
<1>1. IInv
  BY DEF SInv
<1>2. cur \in 1 .. n /\ n \in Nat
  BY <1>1, SleeperPositions DEF scheduler_update_sleepers
<1>3. CASE /\ sleep_queue' = RemoveAt(sleep_queue, cur)
           /\ UNCHANGED <<sleep_counter, cur>>
  <2>1. /\ Len(sleep_queue') = n - 1
        /\ \A j \in 1 .. n - 1 :
             sleep_queue'[j] = IF j < cur THEN sleep_queue[j] ELSE sleep_queue[j + 1]
    BY <1>1, <1>2, <1>3, UnlinkPositions, SMTT(30) DEF IInv, Placed
  <2>2. ASSUME NEW j \in 1 .. n - 1
        PROVE  elapsed'[sleep_queue'[j]] + sleep_counter'[sleep_queue'[j]]
                = asked'[sleep_queue'[j]] + (IF Uncharged(j)' THEN 1 ELSE 0)
    <3>1. CASE j < cur
      <4>1. sleep_queue'[j] = sleep_queue[j] /\ j \in 1 .. n
            /\ ~Uncharged(j) /\ ~Uncharged(j)'
        BY <1>2, <1>3, <2>1, <3>1 DEF Uncharged
      <4> QED  BY <1>3, <4>1 DEF SInv, Ledger
    <3>2. CASE j >= cur
      <4>1. sleep_queue'[j] = sleep_queue[j + 1] /\ j + 1 \in 1 .. n
            /\ Uncharged(j + 1) /\ Uncharged(j)'
        BY <1>2, <1>3, <2>1, <3>2 DEF Uncharged
      <4> QED  BY <1>3, <4>1 DEF SInv, Ledger
    <3> QED  BY <1>2, <3>1, <3>2
  <2> QED  BY <2>1, <2>2 DEF Ledger
<1>4. CASE /\ sleep_counter[sleep_queue[cur]] # 0
           /\ sleep_counter' = [sleep_counter EXCEPT ![sleep_queue[cur]] = @ - 1]
           /\ cur' = cur + 1
           /\ UNCHANGED sleep_queue
  <2>1. ASSUME NEW j \in 1 .. n
        PROVE  elapsed[sleep_queue[j]] + sleep_counter'[sleep_queue[j]]
                = asked[sleep_queue[j]] + (IF Uncharged(j)' THEN 1 ELSE 0)
    <3>1. /\ sleep_queue[j] \in Threads
          /\ sleep_queue[j] \in AllThreads
          /\ sleep_counter \in [AllThreads -> Nat]
          /\ elapsed[sleep_queue[j]] \in Nat
          /\ asked[sleep_queue[j]] \in Nat
          /\ elapsed[sleep_queue[j]] + sleep_counter[sleep_queue[j]]
                = asked[sleep_queue[j]] + (IF Uncharged(j) THEN 1 ELSE 0)
      BY <1>1, SleeperPositions DEF SInv, Ledger
    <3>2. CASE j = cur
      <4>1. Uncharged(j) /\ ~Uncharged(j)'
        BY <1>2, <1>4, <3>2 DEF Uncharged
      <4> QED  BY <1>4, <3>1, <3>2, <4>1, SMTT(30)
    <3>3. CASE j # cur
      <4>1. sleep_queue[j] # sleep_queue[cur]
        BY <1>1, <1>2, <3>3, SleeperPositions
      <4>2. Uncharged(j)' <=> Uncharged(j)
        BY <1>2, <1>4, <3>3 DEF Uncharged
      <4> QED  BY <1>4, <3>1, <4>1, <4>2
    <3> QED  BY <3>2, <3>3
  <2> QED  BY <1>4, <2>1 DEF Ledger
<1> QED  BY <1>3, <1>4 DEF scheduler_update_sleepers

(* When the scan is over, everybody has been charged. *)
LEMMA SwitchKeepsLedger ==
    ASSUME SInv, scheduler_switch_from_tick, UNCHANGED <<asked, elapsed>>
    PROVE  Ledger'
<1>1. IInv /\ Len(sleep_queue) \in Nat
  BY SleeperPositions DEF SInv
<1>2. \A j \in 1 .. Len(sleep_queue) : ~Uncharged(j) /\ ~Uncharged(j)'
  BY <1>1 DEF Uncharged, scheduler_switch_from_tick
<1> QED  BY <1>2 DEF SInv, Ledger, scheduler_switch_from_tick

(* No other function of scheduler.c touches the sleepers. *)
LEMMA OthersKeepLedger ==
    ASSUME SInv, AnyOtherStep
    PROVE  Ledger'
<1>1. CASE TickWork
  BY <1>1, ScanKeepsLedger, SwitchKeepsLedger DEF TickWork, AnyOtherStep
<1>2. CASE BootCreate \/ BootStart \/ SvcOrFault \/ Notify
  <2>1. UNCHANGED <<sleep_queue, sleep_counter, cur>>
    BY <1>2 DEF BootCreate, BootStart, SvcOrFault, Notify,
         scheduler_thread_create, scheduler_start,
         scheduler_thread_terminate_running_from_irq,
         scheduler_wait_running_from_irq, scheduler_prepare_svc_return,
         scheduler_notify_one_from_irq
  <2> QED  BY <2>1 DEF AnyOtherStep, SInv, Ledger, Uncharged
<1> QED  BY <1>1, <1>2 DEF AnyOtherStep

(* Every step preserves the ledger. *)
LEMMA ClockNextPreserves == SInv /\ [SNext]_svars => SInv'
<1> SUFFICES ASSUME SInv, [SNext]_svars PROVE SInv'
  OBVIOUS
<1>1. ASSUME NEW cycles \in SleepArgs, AsksToSleep(cycles) PROVE SInv'
  BY <1>1, AsksPreserves
<1>2. CASE TickBegins
  BY <1>2, TickBeginsPreserves
<1>3. CASE AnyOtherStep
  <2>1. IInv'
    BY <1>3, ClockStepIsSchedulerStep, NextPreserves DEF SNext, SInv
  <2> QED  BY <1>3, <2>1, OthersKeepLedger DEF AnyOtherStep, SInv
<1>4. CASE UNCHANGED svars
  <2>1. IInv'
    BY <1>4, NextPreserves DEF svars, SInv
  <2> QED  BY <1>4, <2>1 DEF svars, vars, SInv, Ledger, Uncharged
<1> QED  BY <1>1, <1>2, <1>3, <1>4 DEF SNext

(***************************************************************************)
(* For every sleeper the ticks it has slept and the ticks it still has to  *)
(* sleep add up to what it asked scheduler_sleep_running_from_irq for.     *)
(***************************************************************************)
THEOREM LedgerHolds == SSpec => []SInv
BY InitSInv, ClockNextPreserves, PTL DEF SSpec

(***************************************************************************)
(* No thread is asleep past the tick its sleep ends with, however many     *)
(* sleepers scheduler_update_sleepers unlinks in the same scan.            *)
(***************************************************************************)
THEOREM NobodyOversleeps == SSpec => []NeverOverslept
<1>1. SInv => NeverOverslept
  <2> SUFFICES ASSUME SInv, NEW t \in Threads, status[t] = "SLEEPING", cur = 0
               PROVE  elapsed[t] <= asked[t]
    BY DEF NeverOverslept
  <2>1. PICK j \in 1 .. Len(sleep_queue) : t = sleep_queue[j]
    BY SleeperPositions DEF SInv
  <2>2. elapsed[t] + sleep_counter[t] = asked[t] + 0
    BY <2>1 DEF SInv, Ledger, Uncharged
  <2>3. elapsed[t] \in Nat /\ asked[t] \in Nat /\ sleep_counter[t] \in Nat
    BY SleeperPositions DEF SInv, AllThreads
  <2> QED  BY <2>2, <2>3
<1> QED  BY <1>1, LedgerHolds, PTL

-----------------------------------------------------------------------------
(***************************************************************************)
(* A thread that stops being SLEEPING has left the sleep queue, and only a *)
(* round of the scan that finds its counter at zero takes it off.          *)
(***************************************************************************)
LEMMA OnlyTheScanWakes ==
    ASSUME SInv, [SNext]_svars, NEW t \in Threads,
           status[t] = "SLEEPING", status'[t] # "SLEEPING"
    PROVE  /\ cur \in 1 .. Len(sleep_queue)
           /\ t = sleep_queue[cur]
           /\ sleep_counter[t] = 0
<1>1. IInv /\ IInv'
  BY ClockNextPreserves DEF SInv
<1>2. t \in Range(sleep_queue) /\ t \notin Range(sleep_queue')
  BY <1>1 DEF IInv, Placed
<1>3. scheduler_update_sleepers
  <2>1. ASSUME NEW cycles \in SleepArgs, AsksToSleep(cycles)
        PROVE  FALSE
    <3>1. running_thread \in Threads /\ sleep_queue \in Seq(Threads)
      BY <1>1, <2>1, UserThreadIsThread DEF AsksToSleep, SleepCall, IInv, Placed
    <3>2. Range(sleep_queue') = Range(sleep_queue) \cup {running_thread}
      BY <2>1, <3>1, EnqueueLemma
      DEF AsksToSleep, SleepCall, scheduler_sleep_running_from_irq
    <3> QED  BY <1>2, <3>2
  <2>2. sleep_queue' # sleep_queue
    BY <1>2
  <2>3. ~TickBegins /\ ~UNCHANGED svars /\ ~scheduler_switch_from_tick
    BY <2>2 DEF TickBegins, scheduler_tick_from_irq, svars, vars,
                scheduler_switch_from_tick
  <2>4. ~(BootCreate \/ BootStart \/ SvcOrFault \/ Notify)
    BY <2>2 DEF BootCreate, BootStart, SvcOrFault, Notify,
         scheduler_thread_create, scheduler_start,
         scheduler_thread_terminate_running_from_irq,
         scheduler_wait_running_from_irq, scheduler_prepare_svc_return,
         scheduler_notify_one_from_irq
  <2> QED  BY <2>1, <2>3, <2>4 DEF SNext, AnyOtherStep, TickWork
<1>4. cur \in 1 .. Len(sleep_queue) /\ sleep_queue \in Seq(Threads)
  BY <1>1, <1>3 DEF scheduler_update_sleepers, IInv, Placed
<1>5. sleep_counter[sleep_queue[cur]] = 0
      /\ sleep_queue' = RemoveAt(sleep_queue, cur)
  BY <1>2, <1>3 DEF scheduler_update_sleepers
<1>6. Range(sleep_queue') = Range(sleep_queue) \ {sleep_queue[cur]}
  <2>1. IsInjective(sleep_queue)
    BY <1>1 DEF IInv, Placed
  <2>2. Range(RemoveAt(sleep_queue, cur)) = Range(sleep_queue) \ {sleep_queue[cur]}
    BY <1>4, <2>1, UnlinkLemma
  <2> QED  BY <1>5, <2>2
<1> QED  BY <1>2, <1>4, <1>5, <1>6

(***************************************************************************)
(* No thread leaves the sleep queue before the tick after the last one it  *)
(* asked to sleep for.                                                     *)
(***************************************************************************)
THEOREM NobodyWokenEarly == SSpec => NeverWokenEarly
<1>1. ASSUME SInv, [SNext]_svars
      PROVE  [\A t \in Threads :
                status[t] = "SLEEPING" /\ status'[t] # "SLEEPING"
                    => elapsed[t] = asked[t] + 1]_svars
  <2>1. ASSUME NEW t \in Threads,
               status[t] = "SLEEPING", status'[t] # "SLEEPING"
        PROVE  elapsed[t] = asked[t] + 1
    <3>1. /\ cur \in 1 .. Len(sleep_queue)
          /\ t = sleep_queue[cur]
          /\ sleep_counter[t] = 0
      BY <1>1, <2>1, OnlyTheScanWakes
    <3>2. Uncharged(cur)
      BY <3>1 DEF Uncharged
    <3>3. elapsed[t] + 0 = asked[t] + 1 /\ elapsed[t] \in Nat
      BY <1>1, <3>1, <3>2 DEF SInv, Ledger
    <3> QED  BY <3>3
  <2> QED  BY <2>1
<1> QED  BY <1>1, LedgerHolds, PTL DEF SSpec, NeverWokenEarly

-----------------------------------------------------------------------------
(***************************************************************************)
(* The scheduler implements RoundRobin.  The mapping counts a scan as done *)
(* when it begins, so it depends on whom the rest of a scan will wake.     *)
(* That is computed from the end of the sleep queue, because a round of    *)
(* the scan changes only what lies in front of its rest.                   *)
(***************************************************************************)

(* A thread that is woken is one thread, else none. *)
LEMMA WokenAtIs ==
    ASSUME NEW q \in Seq(Threads), NEW c, NEW i \in 1 .. Len(q)
    PROVE  WokenAt(q, c, i) \in Seq(Threads)
<1>1. q[i] \in Threads
  BY ElementOfSeq
<1> QED  BY <1>1 DEF WokenAt

(* The threads of a queue that a scan wakes, from the end of the queue. *)
LEMMA WokenOfLastIs ==
    ASSUME NEW q \in Seq(Threads), NEW c
    PROVE  /\ WokenOfLast(q, c)[0] = <<>>
           /\ \A k \in 1 .. Len(q) :
                WokenOfLast(q, c)[k]
                    = WokenAt(q, c, Len(q) - k + 1) \o WokenOfLast(q, c)[k - 1]
           /\ \A k \in 0 .. Len(q) : WokenOfLast(q, c)[k] \in Seq(Threads)
<1> DEFINE V == Seq(Threads)
           m == Len(q)
           at(k) == WokenAt(q, c, m - k + 1)
           h == [k \in Nat |-> [s \in V |-> IF k \in 1 .. m THEN at(k) \o s ELSE s]]
           f == WokenOfLast(q, c)
<1>0. m \in Nat
  BY LenProperties
<1>1. \A k \in 1 .. m : at(k) \in V
  <2> TAKE k \in 1 .. m
  <2>1. m - k + 1 \in 1 .. m
    BY <1>0
  <2> QED  BY <2>1, WokenAtIs
<1> HIDE DEF m
<1>2. h \in [Nat -> [V -> V]]
  <2> HIDE DEF at
  <2>1. \A k \in 1 .. m : \A s \in V : at(k) \o s \in V
    BY <1>1, ConcatProperties
  <2> HIDE DEF V
  <2> QED  BY <2>1
<1>3. PICK g \in [0 .. m -> V] : History(g, m, <<>>, h)
  <2>1. <<>> \in V
    OBVIOUS
  <2> HIDE DEF h, V
  <2>2. \A n \in Nat : \E g \in [0 .. n -> V] : History(g, n, <<>>, h)
    BY <1>2, <2>1, HistoryExists, Zenon
  <2> QED  BY <1>0, <2>2
<1>4. g = [k \in 0 .. m |-> IF k = 0 THEN <<>> ELSE at(k) \o g[k - 1]]
  <2> HIDE DEF at, V
  <2>1. \A k \in 0 .. m : k # 0 => h[k][g[k - 1]] = at(k) \o g[k - 1]
    BY <1>0
  <2> HIDE DEF h
  <2> QED  BY <1>3, <2>1 DEF History
<1>5. f = [k \in 0 .. m |-> IF k = 0 THEN <<>> ELSE at(k) \o f[k - 1]]
  <2> DEFINE w == CHOOSE v : v = [k \in 0 .. m |-> IF k = 0 THEN <<>> ELSE at(k) \o v[k - 1]]
  <2>1. \E v : v = [k \in 0 .. m |-> IF k = 0 THEN <<>> ELSE at(k) \o v[k - 1]]
    BY <1>4
  <2>2. w = [k \in 0 .. m |-> IF k = 0 THEN <<>> ELSE at(k) \o w[k - 1]]
    <3> HIDE DEF w, at
    <3> QED  BY <2>1 DEF w
  <2> QED  BY <2>2 DEF WokenOfLast, m
<1> HIDE DEF f
<1>6. \A j \in 0 .. m : f[j] = IF j = 0 THEN <<>> ELSE at(j) \o f[j - 1]
  <2> TAKE j \in 0 .. m
  <2>1. f[j] = [k \in 0 .. m |-> IF k = 0 THEN <<>> ELSE at(k) \o f[k - 1]][j]
    BY <1>5
  <2> QED  BY <2>1
<1> HIDE DEF at
<1>7. f[0] = <<>> /\ \A k \in 1 .. m : f[k] = at(k) \o f[k - 1]
  <2>1. 0 \in 0 .. m /\ \A k \in 1 .. m : k \in 0 .. m /\ k # 0
    BY <1>0
  <2> QED  BY <1>6, <2>1
<1> DEFINE T == {k \in Nat : k <= m => f[k] \in V}
<1>8. 0 \in T
  <2>1. <<>> \in V
    OBVIOUS
  <2> HIDE DEF V
  <2> QED  BY <1>7, <2>1
<1>9. ASSUME NEW k \in Nat, k \in T
      PROVE  k + 1 \in T
  <2>1. CASE k + 1 <= m
    <3>0. k + 1 \in 1 .. m /\ (k + 1) - 1 = k /\ k <= m
      BY <1>0, <2>1
    <3>1. f[k] \in V /\ f[k + 1] = at(k + 1) \o f[k]
      <4> HIDE DEF V
      <4> QED  BY <1>7, <1>9, <3>0
    <3>2. f[k + 1] \in V
      BY <1>1, <3>0, <3>1, ConcatProperties
    <3> QED  BY <3>2
  <2>2. CASE ~(k + 1 <= m)
    BY <2>2
  <2> QED  BY <2>1, <2>2
<1>10. \A k \in Nat : k \in T
  <2> HIDE DEF T
  <2> QED  BY <1>8, <1>9, SetInduction
<1>11. \A k \in 0 .. m : f[k] \in V
  <2> TAKE k \in 0 .. m
  <2>1. k \in Nat /\ k <= m /\ k \in T
    BY <1>0, <1>10
  <2> QED  BY <2>1
<1> QED  BY <1>7, <1>11 DEF f, at, m

(* Two queues that a scan treats alike at their ends. *)
LEMMA SameEnds ==
    ASSUME NEW q \in Seq(Threads), NEW c, NEW r \in Seq(Threads), NEW e,
           NEW m \in Nat, m <= Len(q), m <= Len(r),
           \A k \in 1 .. m : WokenAt(q, c, Len(q) - k + 1) = WokenAt(r, e, Len(r) - k + 1)
    PROVE  WokenOfLast(q, c)[m] = WokenOfLast(r, e)[m]
<1> DEFINE f == WokenOfLast(q, c)
           g == WokenOfLast(r, e)
           a(k) == WokenAt(q, c, Len(q) - k + 1)
           b(k) == WokenAt(r, e, Len(r) - k + 1)
           T == {k \in Nat : k <= m => f[k] = g[k]}
<1>0. Len(q) \in Nat /\ Len(r) \in Nat
  BY LenProperties
<1>1. /\ f[0] = <<>> /\ g[0] = <<>>
      /\ \A k \in 1 .. Len(q) : f[k] = a(k) \o f[k - 1]
      /\ \A k \in 1 .. Len(r) : g[k] = b(k) \o g[k - 1]
  BY WokenOfLastIs
<1>2. \A k \in 1 .. m : a(k) = b(k)
  OBVIOUS
<1> HIDE DEF f, g, a, b
<1>3. 0 \in T
  BY <1>1
<1>4. ASSUME NEW k \in Nat, k \in T
      PROVE  k + 1 \in T
  <2>1. CASE k + 1 <= m
    <3>1. k + 1 \in 1 .. m /\ k + 1 \in 1 .. Len(q) /\ k + 1 \in 1 .. Len(r)
          /\ (k + 1) - 1 = k /\ f[k] = g[k]
      BY <1>0, <1>4, <2>1
    <3>2. f[k + 1] = g[k + 1]
      BY <1>1, <1>2, <3>1
    <3> QED  BY <3>2
  <2>2. CASE ~(k + 1 <= m)
    BY <2>2
  <2> QED  BY <2>1, <2>2
<1>5. \A k \in Nat : k \in T
  <2> HIDE DEF T
  <2> QED  BY <1>3, <1>4, SetInduction
<1> QED  BY <1>5 DEF f, g

(* Those a scan of the last k threads of q wakes, as a set. *)
DueOfLast(q, c, k) == {t \in Threads : \E i \in Len(q) - k + 1 .. Len(q) : q[i] = t /\ c[t] = 0}

(* A scan wakes whoever is due and nobody twice. *)
LEMMA WokenAreDue ==
    ASSUME NEW q \in Seq(Threads), IsInjective(q), NEW c
    PROVE  \A k \in 0 .. Len(q) :
             /\ IsInjective(WokenOfLast(q, c)[k])
             /\ Range(WokenOfLast(q, c)[k]) = DueOfLast(q, c, k)
<1> DEFINE f == WokenOfLast(q, c)
           m == Len(q)
           D(k) == DueOfLast(q, c, k)
           a(k) == WokenAt(q, c, m - k + 1)
           T == {k \in Nat : k <= m => IsInjective(f[k]) /\ Range(f[k]) = D(k)}
<1>0. m \in Nat /\ (\A i \in 1 .. m : q[i] \in Threads) /\ DOMAIN q = 1 .. m
  BY LenProperties, ElementOfSeq
<1>1. /\ f[0] = <<>>
      /\ \A k \in 1 .. m : f[k] = a(k) \o f[k - 1]
      /\ \A k \in 0 .. m : f[k] \in Seq(Threads)
  BY WokenOfLastIs
<1> HIDE DEF f
<1>2. 0 \in T
  <2>1. D(0) = {}
    BY <1>0 DEF DueOfLast
  <2> QED  BY <1>1, <2>1 DEF IsInjective, Range
<1>3. ASSUME NEW k \in Nat, k \in T
      PROVE  k + 1 \in T
  <2>1. CASE k + 1 <= m
    <3> DEFINE p == m - k
               s == f[k]
    <3>1. /\ k + 1 \in 1 .. m /\ (k + 1) - 1 = k /\ p \in 1 .. m /\ k \in 0 .. m
          /\ m - (k + 1) + 1 = p /\ p + 1 = m - k + 1
      BY <1>0, <2>1
    <3>2. /\ s \in Seq(Threads) /\ IsInjective(s) /\ Range(s) = D(k)
      BY <1>1, <1>3, <2>1, <3>1
    <3>3. f[k + 1] = a(k + 1) \o s
      BY <1>1, <3>1
    <3>4. q[p] \in Threads
      BY <1>0, <3>1
    <3>5. q[p] \notin D(k) /\ D(k + 1) = IF c[q[p]] = 0 THEN D(k) \cup {q[p]} ELSE D(k)
      <4>1. D(k) = {t \in Threads : \E i \in p + 1 .. m : q[i] = t /\ c[t] = 0}
        BY <3>1 DEF DueOfLast
      <4>2. D(k + 1) = {t \in Threads : \E i \in p .. m : q[i] = t /\ c[t] = 0}
        BY <3>1 DEF DueOfLast
      <4> HIDE DEF D, p, m
      <4>3. \A i \in p .. m : (i \in p + 1 .. m \/ i = p) /\ i \in 1 .. m
        BY <1>0, <3>1
      <4>4. \A i \in p + 1 .. m : i \in p .. m /\ i # p
        BY <1>0, <3>1
      <4>5. p \in p .. m
        BY <1>0, <3>1
      <4>6. \A i \in p + 1 .. m : q[i] # q[p]
        BY <1>0, <3>1, <4>3, <4>4 DEF IsInjective
      <4>7. q[p] \notin D(k)
        BY <4>1, <4>6
      <4>8. ASSUME NEW t \in Threads
            PROVE  t \in D(k + 1) <=> t \in D(k) \/ (t = q[p] /\ c[t] = 0)
        BY <4>1, <4>2, <4>3, <4>4, <4>5
      <4>9. D(k) \subseteq Threads /\ D(k + 1) \subseteq Threads
        BY <4>1, <4>2
      <4> QED  BY <4>7, <4>8, <4>9, <3>4
    <3> HIDE DEF D, s, p, m
    <3>6. CASE c[q[p]] # 0
      <4>1. a(k + 1) = <<>>
        BY <3>1, <3>6 DEF WokenAt
      <4>2. f[k + 1] = s
        BY <3>2, <3>3, <4>1
      <4> QED  BY <3>2, <3>5, <3>6, <4>2
    <3>7. CASE c[q[p]] = 0
      <4>1. a(k + 1) = <<q[p]>>
        BY <3>1, <3>7 DEF WokenAt
      <4> DEFINE u == <<q[p]>> \o s
      <4>2. f[k + 1] = u
        BY <3>3, <4>1
      <4>3. /\ u \in Seq(Threads) /\ Len(u) = Len(s) + 1 /\ u[1] = q[p]
            /\ \A i \in 1 .. Len(s) : u[i + 1] = s[i]
            /\ Len(s) \in Nat /\ DOMAIN s = 1 .. Len(s) /\ DOMAIN u = 1 .. Len(s) + 1
        BY <3>2, <3>4, LenProperties
      <4> HIDE DEF u
      <4>4. \A i \in DOMAIN u : i = 1 \/ (i - 1 \in DOMAIN s /\ u[i] = s[i - 1] /\ i \in Int)
        BY <4>3
      <4>5. \A i \in DOMAIN s : i + 1 \in DOMAIN u /\ u[i + 1] = s[i]
        BY <4>3
      <4>6. Range(u) = Range(s) \cup {q[p]}
        <5>1. 1 \in DOMAIN u
          BY <4>3
        <5>2. u[1] = q[p]
          BY <4>3
        <5>3. \A i \in DOMAIN u : u[i] \in Range(s) \cup {q[p]}
          BY <4>4, <5>2 DEF Range
        <5>4. \A i \in DOMAIN s : s[i] \in Range(u)
          BY <4>5 DEF Range
        <5>5. q[p] \in Range(u)
          BY <5>1, <5>2 DEF Range
        <5> QED  BY <5>3, <5>4, <5>5 DEF Range
      <4>7. IsInjective(u)
        <5>1. ASSUME NEW i \in DOMAIN u, NEW j \in DOMAIN u, u[i] = u[j]
              PROVE  i = j
          <6>1. \A n \in DOMAIN s : s[n] # q[p]
            BY <3>2, <3>5 DEF Range
          <6>2. CASE i = 1
            BY <4>3, <4>4, <5>1, <6>1, <6>2
          <6>3. CASE j = 1
            BY <4>3, <4>4, <5>1, <6>1, <6>3
          <6>4. CASE i # 1 /\ j # 1
            <7>1. i - 1 = j - 1 /\ i \in Int /\ j \in Int
              BY <3>2, <4>4, <5>1, <6>4 DEF IsInjective
            <7> QED  BY <7>1
          <6> QED  BY <6>2, <6>3, <6>4
        <5> QED  BY <5>1 DEF IsInjective
      <4>8. IsInjective(f[k + 1]) /\ Range(f[k + 1]) = D(k + 1)
        BY <3>2, <3>5, <3>7, <4>2, <4>6, <4>7
      <4> QED  BY <4>8
    <3> QED  BY <3>6, <3>7
  <2>2. CASE ~(k + 1 <= m)
    BY <2>2
  <2> QED  BY <2>1, <2>2
<1>4. \A k \in Nat : k \in T
  <2> HIDE DEF T
  <2> QED  BY <1>2, <1>3, SetInduction
<1>5. ASSUME NEW k \in 0 .. m
      PROVE  IsInjective(f[k]) /\ Range(f[k]) = D(k)
  <2>1. k \in Nat /\ k <= m /\ k \in T
    BY <1>0, <1>4
  <2> QED  BY <2>1
<1> QED  BY <1>5 DEF f, m

(* A sequence without repetition is an order of its elements. *)
LEMMA OrderOfElements ==
    ASSUME NEW S, NEW s \in Seq(S), IsInjective(s), NEW D, Range(s) = D
    PROVE  s \in SetToSeqs(D)
<1> DEFINE n == Len(s)
<1>1. n \in Nat /\ DOMAIN s = 1 .. n /\ s = [i \in 1 .. n |-> s[i]]
  BY LenProperties
<1>2. \A i \in 1 .. n : s[i] \in D
  BY <1>1 DEF Range
<1>3. s \in [1 .. n -> D]
  BY <1>1, <1>2
<1>4. Cardinality(D) = n
  <2>1. s \in Bijection(1 .. n, D)
    <3>1. \A a, b \in 1 .. n : s[a] = s[b] => a = b
      BY <1>1 DEF IsInjective
    <3>2. \A t \in D : \E x \in 1 .. n : s[x] = t
      BY <1>1 DEF Range
    <3> QED  BY <1>1, <1>3, <3>1, <3>2 DEF Bijection, Injection, Surjection, IsInjective
  <2>2. ExistsBijection(1 .. n, D)
    BY <2>1 DEF ExistsBijection
  <2> QED  BY <1>1, <2>2, FS_CountingElements
<1>5. \A i, j \in 1 .. n : i # j => s[i] # s[j]
  BY <1>1 DEF IsInjective
<1> QED  BY <1>3, <1>4, <1>5 DEF SetToSeqs

(* The mapping of MCScheduler, of explicit values. *)
ReadyOf(rq, q, c, p) == rq \o (IF p = 0 THEN <<>> ELSE WokenOfLast(q, c)[Len(q) - p + 1])

UnscannedOf(q, p) == IF p = 0 THEN {} ELSE {q[j] : j \in p .. Len(q)}

AsleepOf(q, c, p) ==
    [t \in {u \in Range(q) : ~(u \in UnscannedOf(q, p) /\ c[u] = 0)} |->
        IF t \in UnscannedOf(q, p) THEN c[t] - 1 ELSE c[t]]

(* The mapping is that of the current values. *)
LEMMA MappingIs ==
    /\ readyAfterScan = ReadyOf(run_queue, sleep_queue, sleep_counter, cur)
    /\ readyAfterScan' = ReadyOf(run_queue', sleep_queue', sleep_counter', cur')
    /\ asleepAfterScan = AsleepOf(sleep_queue, sleep_counter, cur)
    /\ asleepAfterScan' = AsleepOf(sleep_queue', sleep_counter', cur')
<1>1. /\ readyAfterScan = ReadyOf(run_queue, sleep_queue, sleep_counter, cur)
      /\ readyAfterScan' = ReadyOf(run_queue', sleep_queue', sleep_counter', cur')
  BY DEF readyAfterScan, StillWoken, ReadyOf
<1>2. /\ asleepAfterScan = AsleepOf(sleep_queue, sleep_counter, cur)
      /\ asleepAfterScan' = AsleepOf(sleep_queue', sleep_counter', cur')
  BY DEF asleepAfterScan, AsleepOf, UnscannedOf, Unscanned, WakesInScan
<1> QED  BY <1>1, <1>2

(* Outside a tick the queues are what they are. *)
LEMMA QuietMapping ==
    ASSUME NEW rq \in Seq(Threads), NEW q, NEW c
    PROVE  /\ ReadyOf(rq, q, c, 0) = rq
           /\ AsleepOf(q, c, 0) = [t \in Range(q) |-> c[t]]
<1>1. rq \o <<>> = rq
  OBVIOUS
<1>2. ReadyOf(rq, q, c, 0) = rq
  BY <1>1 DEF ReadyOf
<1>3. UnscannedOf(q, 0) = {}
  BY DEF UnscannedOf
<1>4. AsleepOf(q, c, 0) = [t \in Range(q) |-> c[t]]
  BY <1>3 DEF AsleepOf
<1> QED  BY <1>2, <1>4

(* The same of the state before a step. *)
LEMMA QuietNow ==
    ASSUME IInv, cur = 0
    PROVE  /\ readyAfterScan = run_queue
           /\ asleepAfterScan = [t \in Range(sleep_queue) |-> sleep_counter[t]]
BY MappingIs, QuietMapping DEF IInv, Placed

(* And of the state after it. *)
LEMMA QuietThen ==
    ASSUME IInv', cur' = 0
    PROVE  /\ readyAfterScan' = run_queue'
           /\ asleepAfterScan' = [t \in Range(sleep_queue') |-> sleep_counter'[t]]
<1>1. run_queue' \in Seq(Threads)
  BY DEF IInv, Placed
<1> QED  BY <1>1, MappingIs, QuietMapping

(* The scheduler starts as RoundRobin does. *)
LEMMA InitMaps == SInit => RR!Init
<1> SUFFICES ASSUME SInit PROVE RR!Init
  OBVIOUS
<1>1. IInv /\ cur = 0 /\ run_queue = <<>> /\ sleep_queue = <<>> /\ wait_queue = <<>>
      /\ running_thread = NULL
  BY InitIInv DEF SInit, Init
<1>2. asleepAfterScan = [t \in Range(<<>>) |-> sleep_counter[t]] /\ readyAfterScan = <<>>
  BY <1>1, QuietNow
<1>3. Range(<<>>) = {}
  BY DEF Range
<1>4. asleepAfterScan = <<>>
  BY <1>2, <1>3
<1> QED  BY <1>1, <1>2, <1>4 DEF RR!Init

(* A switch to the next thread outside a tick. *)
LEMMA DispatchMaps ==
    ASSUME NEW q, readyAfterScan' = list_remove_first(q),
           running_thread' = scheduler_get_next_thread(q)
    PROVE  RR!Dispatch(q)
BY DEF RR!Dispatch, list_remove_first, scheduler_get_next_thread

(* Creating a thread. *)
LEMMA CreateMaps ==
    ASSUME IInv, IInv', cur = 0, scheduler_thread_create
    PROVE  [RR!Next]_RR!vars
<1>1. /\ cur' = 0 /\ UNCHANGED <<sleep_queue, sleep_counter, wait_queue, running_thread>>
      /\ readyAfterScan = run_queue /\ readyAfterScan' = run_queue'
      /\ asleepAfterScan = [t \in Range(sleep_queue) |-> sleep_counter[t]]
      /\ asleepAfterScan' = asleepAfterScan
  BY QuietNow, QuietThen DEF scheduler_thread_create
<1>2. CASE UNCHANGED run_queue
  BY <1>1, <1>2 DEF RR!vars
<1>3. ASSUME NEW id \in Threads, status[id] = "TERMINATED", run_queue' = Append(run_queue, id)
      PROVE  RR!Spawn(id)
  <2>1. id \notin Range(run_queue) /\ id \notin Range(wait_queue) /\ id \notin Range(sleep_queue)
        /\ id # running_thread
    BY <1>3 DEF IInv, Placed, AllThreads
  <2>2. id \notin RR!Live
    BY <1>1, <2>1 DEF RR!Live, RR!Range, Range
  <2> QED  BY <1>1, <1>3, <2>2 DEF RR!Spawn
<1> QED  BY <1>2, <1>3 DEF scheduler_thread_create, find_free_thread_id, RR!Next

(* The start. *)
LEMMA StartMaps ==
    ASSUME IInv, IInv', ~is_running, scheduler_start
    PROVE  RR!Start
<1>1. /\ cur = 0 /\ cur' = 0 /\ UNCHANGED <<sleep_queue, sleep_counter, wait_queue>>
      /\ running_thread = NULL
      /\ running_thread' = scheduler_get_next_thread(run_queue)
      /\ run_queue' = list_remove_first(run_queue)
  BY DEF scheduler_start, IInv, Started
<1>2. /\ readyAfterScan = run_queue /\ readyAfterScan' = run_queue'
      /\ asleepAfterScan' = asleepAfterScan
  BY <1>1, QuietNow, QuietThen
<1>3. RR!Dispatch(readyAfterScan)
  BY <1>1, <1>2, DispatchMaps
<1> QED  BY <1>1, <1>2, <1>3 DEF RR!Start

(* The running thread ends. *)
LEMMA ExitMaps ==
    ASSUME IInv, IInv', InUserThread, scheduler_thread_terminate_running_from_irq
    PROVE  RR!Exit
<1>1. /\ cur = 0 /\ cur' = 0 /\ UNCHANGED <<sleep_queue, sleep_counter, wait_queue>>
      /\ running_thread' = scheduler_get_next_thread(run_queue)
      /\ run_queue' = list_remove_first(run_queue)
      /\ running_thread \in Threads
  BY UserThreadIsThread DEF scheduler_thread_terminate_running_from_irq, InUserThread, scheduler_run_next
<1>2. /\ readyAfterScan = run_queue /\ readyAfterScan' = run_queue'
      /\ asleepAfterScan' = asleepAfterScan
  BY <1>1, QuietNow, QuietThen
<1>3. RR!Dispatch(readyAfterScan)
  BY <1>1, <1>2, DispatchMaps
<1> QED  BY <1>1, <1>2, <1>3 DEF RR!Exit, RR!OnCpu

(* The running thread waits for an event. *)
LEMMA BlockMaps ==
    ASSUME IInv, IInv', InUserThread, scheduler_wait_running_from_irq
    PROVE  RR!Block
<1>1. /\ cur = 0 /\ cur' = 0 /\ UNCHANGED <<sleep_queue, sleep_counter>>
      /\ wait_queue' = Append(wait_queue, running_thread)
      /\ running_thread' = scheduler_get_next_thread(run_queue)
      /\ run_queue' = list_remove_first(run_queue)
      /\ running_thread \in Threads
  BY UserThreadIsThread DEF scheduler_wait_running_from_irq, InUserThread, scheduler_run_next
<1>2. /\ readyAfterScan = run_queue /\ readyAfterScan' = run_queue'
      /\ asleepAfterScan' = asleepAfterScan
  BY <1>1, QuietNow, QuietThen
<1>3. RR!Dispatch(readyAfterScan)
  BY <1>1, <1>2, DispatchMaps
<1> QED  BY <1>1, <1>2, <1>3 DEF RR!Block, RR!OnCpu

(* The running thread goes to sleep, for as long as it asked. *)
LEMMA SleepMaps ==
    ASSUME NEW cycles \in SleepArgs, IInv, IInv', InUserThread,
           scheduler_sleep_running_from_irq(cycles)
    PROVE  RR!Sleep(cycles)
<1>1. /\ cur = 0 /\ cur' = 0 /\ UNCHANGED wait_queue
      /\ sleep_queue' = Append(sleep_queue, running_thread)
      /\ sleep_counter' = [sleep_counter EXCEPT ![running_thread] = cycles]
      /\ running_thread' = scheduler_get_next_thread(run_queue)
      /\ run_queue' = list_remove_first(run_queue)
      /\ running_thread \in Threads
  BY UserThreadIsThread DEF scheduler_sleep_running_from_irq, InUserThread, scheduler_run_next
<1>2. /\ readyAfterScan = run_queue /\ readyAfterScan' = run_queue'
      /\ asleepAfterScan = [t \in Range(sleep_queue) |-> sleep_counter[t]]
      /\ asleepAfterScan' = [t \in Range(sleep_queue') |-> sleep_counter'[t]]
  BY <1>1, QuietNow, QuietThen
<1>3. RR!Dispatch(readyAfterScan)
  BY <1>1, <1>2, DispatchMaps
<1>4. Range(sleep_queue') = Range(sleep_queue) \cup {running_thread}
      /\ Range(sleep_queue) \subseteq AllThreads
      /\ running_thread \in AllThreads /\ sleep_counter \in [AllThreads -> Nat]
  <2>1. sleep_queue \in Seq(Threads)
    BY DEF IInv, Placed
  <2>2. Range(sleep_queue') = Range(sleep_queue) \cup {running_thread}
    BY <1>1, <2>1, EnqueueLemma
  <2>3. \A t \in Range(sleep_queue) : t \in Threads
    BY <2>1 DEF Range
  <2> QED  BY <1>1, <2>2, <2>3 DEF IInv, Data, AllThreads
<1>5. asleepAfterScan' = [t \in DOMAIN asleepAfterScan \cup {running_thread} |->
                    IF t = running_thread THEN cycles ELSE asleepAfterScan[t]]
  BY <1>1, <1>2, <1>4
<1> QED  BY <1>1, <1>2, <1>3, <1>5 DEF RR!Sleep, RR!OnCpu

(* The first waiting thread becomes the last ready one. *)
LEMMA WakeMaps ==
    ASSUME IInv, IInv', cur = 0, NEW value, scheduler_notify_one_from_irq(value)
    PROVE  RR!Wake
<1>1. /\ cur' = 0 /\ UNCHANGED <<sleep_queue, sleep_counter, running_thread>>
      /\ wait_queue # <<>>
      /\ run_queue' = Append(run_queue, Head(wait_queue))
      /\ wait_queue' = Tail(wait_queue)
  BY DEF scheduler_notify_one_from_irq
<1>2. /\ readyAfterScan = run_queue /\ readyAfterScan' = run_queue'
      /\ asleepAfterScan' = asleepAfterScan
  BY <1>1, QuietNow, QuietThen
<1> QED  BY <1>1, <1>2 DEF RR!Wake

(* The threads at the positions from p on, when the one at p is left out. *)
LEMMA UnscannedLess ==
    ASSUME NEW q \in Seq(Threads), IsInjective(q), NEW p \in 1 .. Len(q)
    PROVE  /\ UnscannedOf(q, p + 1) = UnscannedOf(q, p) \ {q[p]}
           /\ UnscannedOf(RemoveAt(q, p), p) = UnscannedOf(q, p) \ {q[p]}
           /\ q[p] \in UnscannedOf(q, p)
<1> DEFINE r == RemoveAt(q, p)
           m == Len(q)
<1>0. m \in Nat /\ DOMAIN q = 1 .. m /\ p \in 1 .. m /\ p # 0 /\ p + 1 # 0
  BY LenProperties
<1>1. /\ Len(r) = m - 1
      /\ \A j \in 1 .. m - 1 : r[j] = IF j < p THEN q[j] ELSE q[j + 1]
  BY UnlinkPositions
<1>2. UnscannedOf(q, p) = {q[j] : j \in p .. m} /\ UnscannedOf(q, p + 1) = {q[j] : j \in p + 1 .. m}
  BY <1>0 DEF UnscannedOf
<1>3. UnscannedOf(r, p) = {r[j] : j \in p .. m - 1}
  <2> HIDE DEF r
  <2> QED  BY <1>0, <1>1 DEF UnscannedOf
<1> HIDE DEF r, m
<1>4. \A j \in p .. m : (j = p \/ j \in p + 1 .. m) /\ j \in 1 .. m
  BY <1>0
<1>5. \A j \in p + 1 .. m : j \in p .. m /\ j # p /\ j - 1 \in p .. m - 1
  BY <1>0
<1>6. \A j \in p .. m - 1 : j + 1 \in p + 1 .. m /\ r[j] = q[j + 1]
  BY <1>0, <1>1
<1>7. \A j \in p + 1 .. m : q[j] # q[p] /\ r[j - 1] = q[j]
  <2> TAKE j \in p + 1 .. m
  <2>1. q[j] # q[p]
    BY <1>0, <1>4, <1>5 DEF IsInjective
  <2>2. j - 1 \in p .. m - 1 /\ (j - 1) + 1 = j
    BY <1>0, <1>5
  <2>3. r[j - 1] = q[(j - 1) + 1]
    BY <1>6, <2>2
  <2> QED  BY <2>1, <2>2, <2>3
<1>8. p \in p .. m
  BY <1>0
<1>9. UnscannedOf(q, p + 1) = UnscannedOf(q, p) \ {q[p]}
  BY <1>2, <1>4, <1>5, <1>7
<1>10. UnscannedOf(r, p) = UnscannedOf(q, p + 1)
  BY <1>2, <1>3, <1>5, <1>6, <1>7
<1> QED  BY <1>2, <1>8, <1>9, <1>10 DEF r

(* A round that wakes the thread at p does not change what the scan leaves. *)
LEMMA RoundWakes ==
    ASSUME NEW q \in Seq(Threads), IsInjective(q), NEW p \in 1 .. Len(q), NEW c,
           NEW rq \in Seq(Threads), c[q[p]] = 0
    PROVE  /\ ReadyOf(Append(rq, q[p]), RemoveAt(q, p), c, p) = ReadyOf(rq, q, c, p)
           /\ AsleepOf(RemoveAt(q, p), c, p) = AsleepOf(q, c, p)
<1> DEFINE r == RemoveAt(q, p)
           m == Len(q)
           t == q[p]
<1>0. m \in Nat /\ m - p \in Nat /\ m - p + 1 \in 1 .. m /\ p # 0 /\ t \in Threads
      /\ m - p <= m - 1 /\ m - p \in 0 .. m
  BY LenProperties, ElementOfSeq
<1>1. /\ r \in Seq(Threads)
      /\ Len(r) = m - 1
      /\ \A j \in 1 .. m - 1 : r[j] = IF j < p THEN q[j] ELSE q[j + 1]
      /\ Range(r) = Range(q) \ {t}
  BY UnlinkPositions, UnlinkLemma
<1>2. UnscannedOf(r, p) = UnscannedOf(q, p) \ {t} /\ t \in UnscannedOf(q, p)
  BY UnscannedLess
<1> HIDE DEF r
<1>3. AsleepOf(r, c, p) = AsleepOf(q, c, p)
  <2> DEFINE A == {u \in Range(q) : ~(u \in UnscannedOf(q, p) /\ c[u] = 0)}
             B == {u \in Range(r) : ~(u \in UnscannedOf(r, p) /\ c[u] = 0)}
  <2>1. A = B
    BY <1>1, <1>2
  <2>2. \A u \in A : u \in UnscannedOf(q, p) <=> u \in UnscannedOf(r, p)
    BY <1>2
  <2> HIDE DEF A, B
  <2>3. [u \in A |-> IF u \in UnscannedOf(q, p) THEN c[u] - 1 ELSE c[u]]
          = [u \in B |-> IF u \in UnscannedOf(r, p) THEN c[u] - 1 ELSE c[u]]
    BY <2>1, <2>2
  <2> QED  BY <2>3 DEF AsleepOf, A, B
<1>4. WokenOfLast(q, c)[m - p] = WokenOfLast(r, c)[m - p]
  <2>1. ASSUME NEW k \in 1 .. m - p
        PROVE  WokenAt(q, c, Len(q) - k + 1) = WokenAt(r, c, Len(r) - k + 1)
    <3>0. Len(r) = m - 1 /\ Len(q) = m /\ m \in Nat /\ p \in 1 .. m /\ k \in 1 .. m - p
      BY <1>0, <1>1
    <3> HIDE DEF m
    <3>1. Len(r) - k + 1 \in 1 .. m - 1 /\ ~(Len(r) - k + 1 < p)
          /\ (Len(r) - k + 1) + 1 = Len(q) - k + 1
      BY <3>0
    <3>2. r[Len(r) - k + 1] = q[Len(q) - k + 1]
      BY <1>1, <3>1
    <3> QED  BY <3>2 DEF WokenAt
  <2>2. m - p <= Len(q) /\ m - p <= Len(r)
    BY <1>0, <1>1
  <2> DEFINE l == m - p
  <2>3. l \in Nat /\ l <= Len(q) /\ l <= Len(r) /\ q \in Seq(Threads) /\ r \in Seq(Threads)
        /\ \A k \in 1 .. l : WokenAt(q, c, Len(q) - k + 1) = WokenAt(r, c, Len(r) - k + 1)
    BY <1>0, <1>1, <2>1, <2>2
  <2> HIDE DEF l
  <2>4. WokenOfLast(q, c)[l] = WokenOfLast(r, c)[l]
    BY <2>3, SameEnds
  <2> QED  BY <2>4 DEF l
<1> DEFINE w == WokenOfLast(q, c)[m - p]
<1>5. WokenOfLast(q, c)[m - p + 1] = <<t>> \o w /\ w \in Seq(Threads)
  <2>1. WokenOfLast(q, c)[m - p + 1]
          = WokenAt(q, c, m - (m - p + 1) + 1) \o WokenOfLast(q, c)[(m - p + 1) - 1]
    BY <1>0, WokenOfLastIs
  <2>2. m - (m - p + 1) + 1 = p /\ (m - p + 1) - 1 = m - p
    BY <1>0
  <2>3. WokenAt(q, c, p) = <<t>>
    BY DEF WokenAt
  <2>4. w \in Seq(Threads)
    BY <1>0, WokenOfLastIs
  <2> QED  BY <2>1, <2>2, <2>3, <2>4
<1>6. ReadyOf(rq, q, c, p) = rq \o (<<t>> \o w)
  BY <1>0, <1>5 DEF ReadyOf
<1>7. ReadyOf(Append(rq, t), r, c, p) = Append(rq, t) \o w
  <2>1. Len(r) - p + 1 = m - p
    BY <1>0, <1>1
  <2> QED  BY <1>0, <1>4, <2>1 DEF ReadyOf
<1> HIDE DEF w, t
<1>8. Append(rq, t) \o w = rq \o (<<t>> \o w)
  BY <1>0, <1>5
<1> QED  BY <1>3, <1>6, <1>7, <1>8 DEF r, t

(* Nor does one that leaves the thread at p asleep. *)
LEMMA RoundAges ==
    ASSUME NEW q \in Seq(Threads), IsInjective(q), NEW p \in 1 .. Len(q),
           NEW c \in [AllThreads -> Nat], NEW rq \in Seq(Threads), c[q[p]] # 0
    PROVE  LET e == [c EXCEPT ![q[p]] = @ - 1] IN
           /\ ReadyOf(rq, q, e, p + 1) = ReadyOf(rq, q, c, p)
           /\ AsleepOf(q, e, p + 1) = AsleepOf(q, c, p)
<1> DEFINE m == Len(q)
           t == q[p]
           e == [c EXCEPT ![q[p]] = @ - 1]
<1>0. m \in Nat /\ m - p \in Nat /\ m - p + 1 \in 1 .. m /\ p # 0 /\ p + 1 # 0 /\ t \in Threads
      /\ m - p \in 0 .. m /\ DOMAIN q = 1 .. m /\ \A i \in 1 .. m : q[i] \in AllThreads
  BY LenProperties, ElementOfSeq DEF AllThreads
<1>1. UnscannedOf(q, p + 1) = UnscannedOf(q, p) \ {t} /\ t \in UnscannedOf(q, p)
  BY UnscannedLess
<1>2. e[t] = c[t] - 1 /\ (\A u \in AllThreads : u # t => e[u] = c[u])
  BY <1>0
<1>3. Range(q) \subseteq AllThreads
  BY <1>0 DEF Range
<1> HIDE DEF e
<1>4. AsleepOf(q, e, p + 1) = AsleepOf(q, c, p)
  <2> DEFINE A == {u \in Range(q) : ~(u \in UnscannedOf(q, p) /\ c[u] = 0)}
             B == {u \in Range(q) : ~(u \in UnscannedOf(q, p + 1) /\ e[u] = 0)}
  <2>1. A = B
    BY <1>1, <1>2, <1>3
  <2>2. \A u \in A : (IF u \in UnscannedOf(q, p) THEN c[u] - 1 ELSE c[u])
                      = (IF u \in UnscannedOf(q, p + 1) THEN e[u] - 1 ELSE e[u])
    <3> TAKE u \in A
    <3>1. CASE u = t
      BY <1>1, <1>2, <3>1
    <3>2. CASE u # t
      <4>1. e[u] = c[u]
        BY <1>2, <1>3, <3>2
      <4>2. u \in UnscannedOf(q, p) <=> u \in UnscannedOf(q, p + 1)
        BY <1>1, <3>2
      <4> QED  BY <4>1, <4>2
    <3> QED  BY <3>1, <3>2
  <2> HIDE DEF A, B
  <2>3. [u \in A |-> IF u \in UnscannedOf(q, p) THEN c[u] - 1 ELSE c[u]]
          = [u \in B |-> IF u \in UnscannedOf(q, p + 1) THEN e[u] - 1 ELSE e[u]]
    BY <2>1, <2>2
  <2> QED  BY <2>3 DEF AsleepOf, A, B
<1>5. WokenOfLast(q, c)[m - p] = WokenOfLast(q, e)[m - p]
  <2>1. ASSUME NEW k \in 1 .. m - p
        PROVE  WokenAt(q, c, Len(q) - k + 1) = WokenAt(q, e, Len(q) - k + 1)
    <3>1. Len(q) - k + 1 \in 1 .. m /\ Len(q) - k + 1 # p
      BY <1>0
    <3>2. q[Len(q) - k + 1] # t /\ q[Len(q) - k + 1] \in AllThreads
      BY <1>0, <3>1 DEF IsInjective
    <3> HIDE DEF t
    <3> QED  BY <1>2, <3>2 DEF WokenAt
  <2> DEFINE l == m - p
  <2>2. l \in Nat /\ l <= Len(q)
        /\ \A k \in 1 .. l : WokenAt(q, c, Len(q) - k + 1) = WokenAt(q, e, Len(q) - k + 1)
    BY <1>0, <2>1
  <2> HIDE DEF l
  <2>3. WokenOfLast(q, c)[l] = WokenOfLast(q, e)[l]
    BY <2>2, SameEnds
  <2> QED  BY <2>3 DEF l
<1>6. WokenOfLast(q, c)[m - p + 1] = WokenOfLast(q, c)[m - p]
  <2>1. WokenOfLast(q, c)[m - p + 1]
          = WokenAt(q, c, m - (m - p + 1) + 1) \o WokenOfLast(q, c)[(m - p + 1) - 1]
    BY <1>0, WokenOfLastIs
  <2>2. m - (m - p + 1) + 1 = p /\ (m - p + 1) - 1 = m - p
    BY <1>0
  <2>3. WokenAt(q, c, p) = <<>>
    BY DEF WokenAt
  <2>4. WokenOfLast(q, c)[m - p] \in Seq(Threads)
    BY <1>0, WokenOfLastIs
  <2> QED  BY <2>1, <2>2, <2>3, <2>4
<1>7. m - (p + 1) + 1 = m - p
  BY <1>0
<1>8. ReadyOf(rq, q, e, p + 1) = ReadyOf(rq, q, c, p)
  BY <1>0, <1>5, <1>6, <1>7 DEF ReadyOf
<1> QED  BY <1>4, <1>8 DEF e

(* A round of scheduler_update_sleepers is no step of RoundRobin. *)
LEMMA ScanMaps ==
    ASSUME IInv, scheduler_update_sleepers
    PROVE  UNCHANGED RR!vars
<1>1. /\ cur \in 1 .. Len(sleep_queue) /\ UNCHANGED <<running_thread, wait_queue>>
      /\ sleep_queue \in Seq(Threads) /\ IsInjective(sleep_queue) /\ run_queue \in Seq(Threads)
      /\ sleep_counter \in [AllThreads -> Nat] /\ Len(sleep_queue) \in Nat
  BY LenProperties DEF scheduler_update_sleepers, IInv, Placed, Data
<1>2. CASE /\ sleep_counter[sleep_queue[cur]] = 0
           /\ sleep_queue' = RemoveAt(sleep_queue, cur)
           /\ run_queue' = Append(run_queue, sleep_queue[cur])
           /\ UNCHANGED <<sleep_counter, cur>>
  <2>1. readyAfterScan' = readyAfterScan /\ asleepAfterScan' = asleepAfterScan
    BY <1>1, <1>2, MappingIs, RoundWakes
  <2> QED  BY <1>1, <1>2, <2>1 DEF RR!vars
<1>3. CASE /\ sleep_counter[sleep_queue[cur]] # 0
           /\ sleep_counter' = [sleep_counter EXCEPT ![sleep_queue[cur]] = @ - 1]
           /\ cur' = cur + 1
           /\ UNCHANGED <<sleep_queue, run_queue>>
  <2>1. readyAfterScan' = readyAfterScan /\ asleepAfterScan' = asleepAfterScan
    BY <1>1, <1>3, MappingIs, RoundAges
  <2>2. (cur # 0)' = (cur # 0)
    BY <1>1, <1>3
  <2> QED  BY <1>1, <2>1, <2>2 DEF RR!vars
<1> QED  BY <1>2, <1>3 DEF scheduler_update_sleepers

(* The start of a tick ages all sleepers at once. *)
LEMMA TickMaps ==
    ASSUME IInv, scheduler_tick_from_irq
    PROVE  RR!Age
<1> DEFINE q == sleep_queue
           c == sleep_counter
           m == Len(sleep_queue)
<1>1. /\ cur = 0 /\ cur' = 1 /\ running_thread # NULL
      /\ UNCHANGED <<running_thread, wait_queue, run_queue, sleep_queue, sleep_counter>>
  BY IdleAssumption DEF scheduler_tick_from_irq, IInv, Started
<1>2. /\ q \in Seq(Threads) /\ IsInjective(q) /\ run_queue \in Seq(Threads)
      /\ m \in Nat /\ DOMAIN q = 1 .. m /\ \A i \in 1 .. m : q[i] \in Threads
      /\ m \in 0 .. m
  BY LenProperties, ElementOfSeq DEF IInv, Placed
<1>3. /\ readyAfterScan = run_queue
      /\ asleepAfterScan = [t \in Range(q) |-> c[t]]
  BY <1>1, QuietNow
<1>4. /\ readyAfterScan' = ReadyOf(run_queue, q, c, 1)
      /\ asleepAfterScan' = AsleepOf(q, c, 1)
  BY <1>1, MappingIs
<1> DEFINE D == {t \in Range(q) : c[t] = 0}
<1>5. RR!Due = D
  BY <1>3 DEF RR!Due
<1>6. D = DueOfLast(q, c, m)
  <2>1. m - m + 1 = 1
    BY <1>2
  <2>2. DueOfLast(q, c, m) = {t \in Threads : \E i \in 1 .. m : q[i] = t /\ c[t] = 0}
    BY <2>1 DEF DueOfLast
  <2> QED  BY <1>2, <2>2 DEF Range
<1> DEFINE w == WokenOfLast(q, c)[m]
<1>7. w \in SetToSeqs(D)
  <2>1. w \in Seq(Threads) /\ IsInjective(w) /\ Range(w) = D
    BY <1>2, <1>6, WokenOfLastIs, WokenAreDue
  <2> HIDE DEF w, D
  <2> QED  BY <2>1, OrderOfElements
<1>8. readyAfterScan' = readyAfterScan \o w
  <2>1. m - 1 + 1 = m
    BY <1>2
  <2> QED  BY <1>3, <1>4, <2>1 DEF ReadyOf
<1>9. asleepAfterScan' = [t \in DOMAIN asleepAfterScan \ D |-> asleepAfterScan[t] - 1]
  <2>1. UnscannedOf(q, 1) = Range(q)
    BY <1>2 DEF UnscannedOf, Range
  <2>2. AsleepOf(q, c, 1) = [t \in Range(q) \ D |-> c[t] - 1]
    BY <2>1 DEF AsleepOf
  <2> QED  BY <1>3, <1>4, <2>2
<1> HIDE DEF D, w
<1>10. w \in RR!SetToSeqs(D)
  <2>1. RR!Cardinality(D) = Cardinality(D)
    BY DEF RR!Cardinality, Cardinality
  <2> QED  BY <1>7, <2>1 DEF RR!SetToSeqs, SetToSeqs
<1>11. (cur # 0)' = TRUE /\ ~(cur # 0)
  BY <1>1
<1> QED  BY <1>1, <1>5, <1>8, <1>9, <1>10, <1>11 DEF RR!Age

(* The rest of the tick turns the ready threads. *)
LEMMA SwitchMaps ==
    ASSUME IInv, IInv', scheduler_switch_from_tick
    PROVE  RR!Rotate
<1> DEFINE q == sleep_queue
           c == sleep_counter
           m == Len(sleep_queue)
<1>1. /\ cur = m + 1 /\ cur' = 0 /\ cur # 0 /\ m \in Nat
      /\ UNCHANGED <<wait_queue, sleep_queue, sleep_counter>>
      /\ run_queue \in Seq(Threads) /\ q \in Seq(Threads)
      /\ run_queue' = list_remove_first(requeued)
  BY LenProperties DEF scheduler_switch_from_tick, IInv, Placed
<1>2. running_thread' = scheduler_get_next_thread(requeued)
  BY DEF scheduler_switch_from_tick, scheduler_run_next
<1>3. readyAfterScan = run_queue
  <2>1. m - (m + 1) + 1 = 0
    BY <1>1
  <2>2. readyAfterScan = run_queue \o <<>>
    BY <1>1, <2>1, MappingIs, WokenOfLastIs DEF ReadyOf
  <2> QED  BY <1>1, <2>2
<1>4. /\ readyAfterScan' = run_queue'
      /\ asleepAfterScan' = [t \in Range(q) |-> c[t]]
  BY <1>1, QuietThen
<1>5. asleepAfterScan' = asleepAfterScan
  <2>1. UnscannedOf(q, cur) = {}
    BY <1>1 DEF UnscannedOf
  <2>2. AsleepOf(q, c, cur) = [t \in Range(q) |-> c[t]]
    BY <2>1 DEF AsleepOf
  <2> QED  BY <1>4, <2>2, MappingIs
<1>6. requeued = IF running_thread = idle_thread THEN readyAfterScan
                 ELSE Append(readyAfterScan, running_thread)
  BY <1>3 DEF requeued
<1>7. RR!Dispatch(IF running_thread = idle_thread THEN readyAfterScan
                 ELSE Append(readyAfterScan, running_thread))
  <2>1. RR!Dispatch(requeued)
    BY <1>1, <1>2, <1>4, DispatchMaps
  <2> QED  BY <1>6, <2>1
<1>8. (cur # 0)' = FALSE
  BY <1>1
<1> QED  BY <1>1, <1>5, <1>7, <1>8 DEF RR!Rotate

(* Each step of the scheduler is one of RoundRobin, or none. *)
LEMMA StepMaps ==
    ASSUME IInv, IInv', [SNext]_svars
    PROVE  [RR!Next]_RR!vars
<1>1. ASSUME NEW cycles \in SleepArgs, AsksToSleep(cycles) PROVE RR!Next
  BY <1>1, SleepMaps DEF AsksToSleep, SleepCall, RR!Next
<1>2. CASE TickBegins
  BY <1>2, TickMaps DEF TickBegins, RR!Next
<1>3. CASE BootCreate
  <2>1. cur = 0
    BY <1>3 DEF BootCreate, IInv, Started
  <2> QED  BY <1>3, <2>1, CreateMaps DEF BootCreate
<1>4. CASE BootStart
  BY <1>4, StartMaps DEF BootStart, RR!Next
<1>5. CASE SvcOrFault
  <2>1. CASE scheduler_thread_create
    BY <1>5, <2>1, CreateMaps DEF SvcOrFault, InUserThread
  <2>2. CASE scheduler_thread_terminate_running_from_irq
    BY <1>5, <2>2, ExitMaps DEF SvcOrFault, RR!Next
  <2>3. CASE scheduler_wait_running_from_irq
    BY <1>5, <2>3, BlockMaps DEF SvcOrFault, RR!Next
  <2>4. ASSUME NEW value \in Words, scheduler_prepare_svc_return(value)
        PROVE  UNCHANGED RR!vars
    <3>1. UNCHANGED <<running_thread, run_queue, sleep_queue, sleep_counter, wait_queue, cur>>
      BY <2>4 DEF scheduler_prepare_svc_return
    <3> QED  BY <3>1, MappingIs DEF RR!vars
  <2> QED  BY <1>5, <2>1, <2>2, <2>3, <2>4 DEF SvcOrFault
<1>6. CASE Notify
  BY <1>6, WakeMaps DEF Notify, RR!Next
<1>7. CASE TickWork
  BY <1>7, ScanMaps, SwitchMaps DEF TickWork, RR!Next
<1>8. CASE UNCHANGED svars
  <2>1. UNCHANGED <<running_thread, run_queue, sleep_queue, sleep_counter, wait_queue, cur>>
    BY <1>8 DEF svars, vars
  <2> QED  BY <2>1, MappingIs DEF RR!vars
<1> QED  BY <1>1, <1>2, <1>3, <1>4, <1>5, <1>6, <1>7, <1>8 DEF SNext, AnyOtherStep

(***************************************************************************)
(* scheduler.c implements RoundRobin for any number of threads and any     *)
(* sleeps: with a list that it unlinks nodes from while it walks it,       *)
(* scheduler_tick_from_irq wakes exactly the sleepers that are due, ages   *)
(* each of the others by one tick, and every function keeps the order in   *)
(* which threads get the CPU.                                              *)
(***************************************************************************)
THEOREM SchedulerIsRoundRobin == SSpec => ImplementsRoundRobin
<1>1. SInv /\ SInv' => IInv /\ IInv'
  BY DEF SInv
<1>2. IInv /\ IInv' /\ [SNext]_svars => [RR!Next]_RR!vars
  BY StepMaps
<1> QED  BY <1>1, <1>2, InitMaps, LedgerHolds, PTL DEF SSpec, ImplementsRoundRobin, RR!Spec
=============================================================================
