-------------------------- MODULE UserProgramProofs --------------------------
(***************************************************************************)
(* Proofs about the user program on the kernel, for any number of slots,   *)
(* characters, keys and prints.  The program is one of those KernelProofs  *)
(* is about, so the kernel's invariants hold under it; what they say of    *)
(* getc, that no character is handed out twice, is what gives each         *)
(* character one worker.                                                   *)
(***************************************************************************)
EXTENDS UserProgram, KernelProofs, FiniteSetTheorems

Live(t) == status[t] # "TERMINATED"

LiveWorkers == {t \in Threads : Worker(t)}

WorkerChars == {CharOf(t) : t \in LiveWorkers}

(* The running thread is printing the message of an unknown system call. *)
Ending(t) == kpc = "putc" /\ after = "terminate" /\ t = running_thread

-----------------------------------------------------------------------------
(***************************************************************************)
(* The inductive invariant.  Where a live thread is in its code, and how   *)
(* often it has printed its character by then.                             *)
(***************************************************************************)
Labels == {"entry", "call", "getc", "got", "serve", "worker", "loop", "pause",
           "undefined", "exit"}

Starting == {"entry", "call", "worker"}

UTypes ==
    /\ key \in [Chars -> AllKeys]
    /\ upc \in [Threads -> Labels]
    /\ fn \in [Threads -> {"none", "main", "worker_thread"}]
    /\ arg \in [Threads -> Words]
    /\ this \in [Threads -> Threads]
    /\ c \in [Threads -> Words]
    /\ i \in [Threads -> Nat]
    /\ printed \in [Chars -> Nat]
    /\ done \subseteq Chars
    /\ dropped \subseteq Chars

MainAt(t) ==
    /\ upc[t] \in {"entry", "call", "getc", "got", "serve"}
    /\ upc[t] = "serve" => c[t] \in Chars

WorkerAt(t) ==
    /\ CharOf(t) \in Chars
    /\ LET x == CharOf(t) IN
       \/ upc[t] \in Starting /\ printed[x] = 0
       \/ upc[t] = "undefined" /\ key[x] = "s" /\ printed[x] = 0
       \/ upc[t] = "loop" /\ key[x] = "s" /\ printed[x] = 0 /\ Ending(t)
       \/ /\ upc[t] = "loop" /\ key[x] \notin {"s", "i"}
          /\ printed[x] = i[t] /\ i[t] <= PRINT_COUNT
       \/ /\ upc[t] = "pause" /\ key[x] \notin {"s", "i"}
          /\ printed[x] = i[t] + 1 /\ i[t] < PRINT_COUNT
       \/ upc[t] = "exit" /\ key[x] = "i" /\ printed[x] = 0
       \/ upc[t] = "exit" /\ key[x] \notin {"s", "i"} /\ printed[x] = PRINT_COUNT

CodeOf(t) ==
    /\ upc[t] = "call" => this[t] = t
    /\ t \in in_getc => upc[t] = "got"
    /\ Ending(t) => fn[t] = "worker_thread" /\ upc[t] = "loop" /\ key[c[t]] = "s"
    /\ \/ fn[t] = "main" /\ MainAt(t)
       \/ fn[t] = "worker_thread" /\ WorkerAt(t)

Code == \A t \in Threads : Live(t) => CodeOf(t)

(* There is one main, and no two workers are there for the same character. *)
OneMain ==
    \A t, u \in Threads :
        Live(t) /\ Live(u) /\ fn[t] = "main" /\ fn[u] = "main" => t = u

OneEach == \A t, u \in LiveWorkers : CharOf(t) = CharOf(u) => t = u

(* While start_kernel runs, a thread that lives has not run. *)
Booting == kpc \in {"init", "boot"}
             => \A t \in Threads : Live(t) => status[t] = "READY"

(***************************************************************************)
(* What has become of the characters read, R: W have a worker, those in M  *)
(* main is about to serve, D are done and P were dropped.                  *)
(***************************************************************************)
Served(W, M, D, P, R) ==
    /\ W \cap M = {} /\ W \cap D = {} /\ W \cap P = {}
    /\ M \cap D = {} /\ M \cap P = {} /\ D \cap P = {}
    /\ M \subseteq R
    /\ W \cup D \cup P = {x \in R : key[x] # "S"} \ M

(***************************************************************************)
(* PrintsExactly of the characters W with a worker and D that are done.    *)
(***************************************************************************)
Prints(W, D) ==
    \A x \in Chars :
        /\ x \in D => printed[x] = IF key[x] \in {"s", "i"} THEN 0 ELSE PRINT_COUNT
        /\ x \notin D \cup W => printed[x] = 0

UInv ==
    /\ UTypes
    /\ Code
    /\ Booting
    /\ OneMain
    /\ OneEach
    /\ Served(WorkerChars, InMain, done, dropped, read)
    /\ Prints(WorkerChars, done)

(* Together with what KernelProofs shows of the kernel. *)
PInv == KInv /\ GrantInv /\ InputInv /\ UInv

-----------------------------------------------------------------------------
(***************************************************************************)
(* Who lives.  Only thread creation and termination change that.           *)
(***************************************************************************)
SameLives == \A t \in Threads : Live(t)' <=> Live(t)

(* scheduler_run_next *)
LEMMA RunNextLives ==
    ASSUME NEW st, NEW ctx \in [AllThreads -> Words], NEW rq, NEW sq, NEW wq,
           Placed(st, rq, sq, wq, NULL),
           scheduler_run_next(scheduler_get_next_thread(rq), st, ctx),
           NEW t \in Threads
    PROVE  Live(t)' <=> st[t] # "TERMINATED"
BY RunNextEffect DEF Live

(* scheduler_sleep_running_from_irq *)
LEMMA SleepLives ==
    ASSUME IInv, NEW cycles, SleepCall(cycles)
    PROVE  SameLives
<1> SUFFICES ASSUME NEW t \in Threads PROVE Live(t)' <=> Live(t)
  BY DEF SameLives
<1>1. running_thread \in Threads
  BY UserThreadIsThread DEF SleepCall
<1>2. Placed(saved_status("SLEEPING"), run_queue,
             Append(sleep_queue, running_thread), wait_queue, NULL)
  BY <1>1, SleepLemma DEF IInv, saved_status
<1>3. Live(t)' <=> saved_status("SLEEPING")[t] # "TERMINATED"
  BY <1>2, RunNextLives, SavedContextType
  DEF SleepCall, scheduler_sleep_running_from_irq
<1>4. status[running_thread] = "RUNNING" /\ status \in [AllThreads -> thread_status]
  BY <1>1 DEF IInv, Placed, AllThreads
<1> QED  BY <1>1, <1>3, <1>4 DEF Live, saved_status, AllThreads

(* scheduler_wait_running_from_irq *)
LEMMA WaitLives ==
    ASSUME IInv, InUserThread, scheduler_wait_running_from_irq
    PROVE  SameLives
<1> SUFFICES ASSUME NEW t \in Threads PROVE Live(t)' <=> Live(t)
  BY DEF SameLives
<1>1. running_thread \in Threads
  BY UserThreadIsThread
<1>2. Placed(saved_status("WAITING"), run_queue, sleep_queue,
             Append(wait_queue, running_thread), NULL)
  BY <1>1, WaitLemma DEF IInv, saved_status
<1>3. Live(t)' <=> saved_status("WAITING")[t] # "TERMINATED"
  BY <1>2, RunNextLives, SavedContextType DEF scheduler_wait_running_from_irq
<1>4. status[running_thread] = "RUNNING" /\ status \in [AllThreads -> thread_status]
  BY <1>1 DEF IInv, Placed, AllThreads
<1> QED  BY <1>1, <1>3, <1>4 DEF Live, saved_status, AllThreads

(* The switch at the end of scheduler_tick_from_irq *)
LEMMA SwitchLives ==
    ASSUME IInv, scheduler_switch_from_tick
    PROVE  SameLives
<1> SUFFICES ASSUME NEW t \in Threads PROVE Live(t)' <=> Live(t)
  BY DEF SameLives
<1>0. running_thread \in AllThreads /\ status \in [AllThreads -> thread_status]
  BY LenProperties DEF IInv, Placed, Started, scheduler_switch_from_tick
<1>1. CASE UNCHANGED status
  BY <1>1 DEF Live
<1>2. CASE scheduler_run_next(scheduler_get_next_thread(requeued),
                              saved_status("READY"), saved_context)
  <2>1. Placed(saved_status("READY"), requeued, sleep_queue, wait_queue, NULL)
    <3>1. CASE running_thread = idle_thread
      BY <3>1, IdleLemma DEF IInv, saved_status, requeued
    <3>2. CASE running_thread # idle_thread
      <4>1. running_thread \in Threads
        BY <1>0, <3>2 DEF AllThreads
      <4> QED  BY <3>2, <4>1, RequeueLemma DEF IInv, saved_status, requeued
    <3> QED  BY <3>1, <3>2
  <2>2. Live(t)' <=> saved_status("READY")[t] # "TERMINATED"
    BY <1>2, <2>1, RunNextLives, SavedContextType
  <2>3. status[running_thread] = "RUNNING"
    BY <1>0 DEF IInv, Placed
  <2> QED  BY <1>0, <2>2, <2>3 DEF Live, saved_status, AllThreads
<1> QED  BY <1>1, <1>2 DEF scheduler_switch_from_tick

(* scheduler_notify_one_from_irq and a round of scheduler_update_sleepers *)
LEMMA WakeLives ==
    ASSUME IInv,
           \/ \E value \in Words : scheduler_notify_one_from_irq(value)
           \/ scheduler_update_sleepers
    PROVE  SameLives
<1> SUFFICES ASSUME NEW t \in Threads PROVE Live(t)' <=> Live(t)
  BY DEF SameLives
<1>1. status \in [AllThreads -> thread_status] /\ t \in AllThreads
  BY DEF IInv, Placed, AllThreads
<1>2. CASE \E value \in Words : scheduler_notify_one_from_irq(value)
  <2>1. wait_queue # <<>> /\ status' = [status EXCEPT ![Head(wait_queue)] = "READY"]
    BY <1>2 DEF scheduler_notify_one_from_irq
  <2>2. status[Head(wait_queue)] = "WAITING"
    BY <2>1, NotifyLemma DEF IInv
  <2> QED  BY <1>1, <2>1, <2>2 DEF Live
<1>3. CASE scheduler_update_sleepers
  <2> DEFINE thread == sleep_queue[cur]
  <2>1. status' = status \/ status' = [status EXCEPT ![thread] = "READY"]
    BY <1>3 DEF scheduler_update_sleepers
  <2>2. Placed(status, run_queue, sleep_queue, wait_queue, running_thread)
    BY DEF IInv
  <2>3. thread = sleep_queue[cur] /\ cur \in 1 .. Len(sleep_queue)
    BY <1>3 DEF scheduler_update_sleepers
  <2> HIDE DEF thread
  <2>4. thread \in Threads /\ thread \in Range(sleep_queue)
    BY <2>2, <2>3, UnlinkLemma DEF Placed
  <2>5. status[thread] = "SLEEPING"
    BY <2>2, <2>4 DEF Placed
  <2> QED  BY <1>1, <2>1, <2>5 DEF Live
<1> QED  BY <1>2, <1>3

(* scheduler_thread_terminate_running_from_irq *)
LEMMA TerminateLives ==
    ASSUME IInv, InUserThread, terminate, NEW t \in Threads
    PROVE  Live(t)' <=> Live(t) /\ t # running_thread
<1>1. running_thread \in Threads
  BY UserThreadIsThread
<1>2. Placed(saved_status("TERMINATED"), run_queue, sleep_queue, wait_queue, NULL)
  BY <1>1, EndLemma DEF IInv, saved_status
<1>3. context \in [AllThreads -> Words] /\ status \in [AllThreads -> thread_status]
  BY DEF IInv, Data, Placed
<1>4. Live(t)' <=> saved_status("TERMINATED")[t] # "TERMINATED"
  BY <1>2, <1>3, RunNextLives
  DEF terminate, scheduler_thread_terminate_running_from_irq
<1> QED  BY <1>1, <1>3, <1>4 DEF Live, saved_status, AllThreads

(* scheduler_thread_create *)
LEMMA CreateLives ==
    ASSUME IInv, scheduler_thread_create
    PROVE  \/ (\A t \in Threads : Live(t)) /\ UNCHANGED status
           \/ \E id \in Threads :
                /\ NewThread(id)
                /\ \A t \in Threads : t # id => ~NewThread(t)
                /\ \A t \in Threads : Live(t)' <=> Live(t) \/ t = id
<1>0. status \in [AllThreads -> thread_status] /\ Threads \subseteq AllThreads
  BY DEF IInv, Placed, AllThreads
<1>1. CASE (\A id \in Threads : status[id] # "TERMINATED") /\ UNCHANGED status
  BY <1>1 DEF Live
<1>2. ASSUME NEW id \in Threads, find_free_thread_id(id), status' = thread_init(id)
      PROVE  /\ NewThread(id)
             /\ \A t \in Threads : t # id => ~NewThread(t)
             /\ \A t \in Threads : Live(t)' <=> Live(t) \/ t = id
  BY <1>0, <1>2 DEF NewThread, Live, find_free_thread_id, thread_init
<1> QED  BY <1>1, <1>2 DEF scheduler_thread_create

-----------------------------------------------------------------------------
(***************************************************************************)
(* A thread that executes user code is one of the slots, and lives.        *)
(***************************************************************************)
LEMMA RunningThread ==
    ASSUME KInv, Code, InThread
    PROVE  /\ running_thread \in Threads /\ Live(running_thread)
           /\ status[running_thread] = "RUNNING"
           /\ CodeOf(running_thread) /\ InUserThread
<1>1. running_thread \in Threads /\ status[running_thread] = "RUNNING"
  BY DEF InThread, KInv, IInv, Placed, AllThreads
<1>2. InUserThread
  BY <1>1, IdleAssumption DEF KInv, Mode, InThread, InUserThread
<1> QED  BY <1>1, <1>2 DEF Live, Code

(***************************************************************************)
(* The program uses the kernel the way module Kernel lets any program use  *)
(* it.  In particular no thread makes a call before it has looked at the   *)
(* result of getc.                                                         *)
(***************************************************************************)
LEMMA StepIsKernelStep == KInv /\ Code /\ [UNext]_uvars => [KNext]_kvars
<1> SUFFICES ASSUME KInv, Code, [UNext]_uvars PROVE [KNext]_kvars
  OBVIOUS
<1>1. ASSUME UNCHANGED kvars PROVE [KNext]_kvars
  BY <1>1
<1>2. ASSUME NEW from \in Labels \ {"got"}, At(from) PROVE Calls
  BY <1>2, RunningThread DEF At, CodeOf, Calls
<1>3. CASE Boot
  BY <1>3 DEF Boot, KNext
<1>4. CASE get_current_thread_fn \/ call_thread_fn \/ worker_thread
  BY <1>1, <1>4 DEF get_current_thread_fn, call_thread_fn, worker_thread
<1>5. CASE main_getc \/ main_got \/ main_create \/ worker_exit
  BY <1>5 DEF main_getc, main_got, main_create, worker_exit, UserStep, KNext
<1>6. CASE main_exit \/ worker_undefined
  BY <1>6 DEF main_exit, worker_undefined, PrintingTrap, UserStep, KNext
<1>7. CASE worker_loop
  <2>1. CASE sys_putc
    BY <1>7, <2>1 DEF worker_loop, PrintingTrap, UserStep, KNext
  <2>2. CASE UNCHANGED cpu
    BY <1>1, <1>7, <2>2 DEF worker_loop, kvars
  <2> QED  BY <1>7, <2>1, <2>2 DEF worker_loop
<1>8. CASE worker_pause
  <2>1. Calls
    BY <1>2, <1>8 DEF worker_pause, Labels
  <2>2. CASE UNCHANGED kvars
    BY <1>1, <2>2
  <2>3. ASSUME NEW k, SleepCall(IF k = "a" THEN 0 ELSE 1),
               UNCHANGED <<cpu, uart, m1, uart_ringbuffer, in_getc, history>>
        PROVE  [KNext]_kvars
    BY <2>1, <2>3, UserAssumption DEF sys_sleep, UserStep, KNext
  <2> QED  BY <1>8, <2>2, <2>3 DEF worker_pause, wait_or_sleep
<1>9. CASE Putc
  BY <1>9 DEF Putc, KNext
<1>10. CASE KernelStep
  BY <1>10 DEF KernelStep, KNext
<1>11. CASE UNCHANGED uvars
  BY <1>1, <1>11 DEF uvars
<1> QED  BY <1>3, <1>4, <1>5, <1>6, <1>7, <1>8, <1>9, <1>10, <1>11
         DEF UNext, ThreadCode

(***************************************************************************)
(* Interrupts and devices: they start and end no thread, and nobody is in  *)
(* the middle of a message when they begin or end.                         *)
(***************************************************************************)
LEMMA KernelStepKeeps ==
    ASSUME KInv, KernelStep
    PROVE  /\ SameLives
           /\ \A t \in Threads : Ending(t)' <=> Ending(t)
           /\ Booting => Booting'
           /\ UNCHANGED <<in_getc, read>>
<1>1. CASE Devices \/ stopped
  BY <1>1 DEF Devices, Receive, Transmitted, TimerMatch, stopped, kvars, vars, cpu,
              history, SameLives, Live, Ending, Booting
<1>2. CASE handle_irq \/ uart_handle_irq \/ uart_clear_irq
  BY <1>2 DEF handle_irq, uart_handle_irq, uart_clear_irq, vars, history,
              SameLives, Live, Ending, Booting
<1>3. CASE receive_loop
  <2>1. kpc = "drain" /\ kpc' \in {"drain", "systick"} /\ UNCHANGED <<in_getc, read>>
    BY <1>3 DEF receive_loop
  <2>2. CASE UNCHANGED vars
    BY <2>1, <2>2 DEF vars, SameLives, Live, Ending, Booting
  <2>3. CASE scheduler_notify_one_from_irq(rx)
    <3>1. SameLives
      BY <2>3, WakeLives DEF KInv, KTypeOK
    <3> QED  BY <2>1, <3>1 DEF Ending, Booting
  <2> QED  BY <1>3, <2>2, <2>3 DEF receive_loop, grant_to_waiter, buff_putc
<1>4. CASE systick_handle_irq
  BY <1>4 DEF systick_handle_irq, scheduler_tick_from_irq, vars, history,
              SameLives, Live, Ending, Booting
<1>5. CASE rest_of_tick
  <2>1. kpc = "tick" /\ kpc' \in {"tick", "user"} /\ UNCHANGED <<in_getc, read>>
    BY <1>5 DEF rest_of_tick, history
  <2>2. SameLives
    BY <1>5, WakeLives, SwitchLives DEF rest_of_tick, KInv
  <2> QED  BY <2>1, <2>2 DEF Ending, Booting
<1> QED  BY <1>1, <1>2, <1>3, <1>4, <1>5 DEF KernelStep, IrqHandler

-----------------------------------------------------------------------------
(***************************************************************************)
(* What a step does not do to a thread t.                                  *)
(***************************************************************************)
Undisturbed(t) ==
    /\ upc'[t] = upc[t] /\ fn'[t] = fn[t] /\ arg'[t] = arg[t]
    /\ this'[t] = this[t] /\ c'[t] = c[t] /\ i'[t] = i[t]
    /\ t \in in_getc' <=> t \in in_getc
    /\ Ending(t)' <=> Ending(t)
    /\ fn[t] = "worker_thread" => printed'[CharOf(t)] = printed[CharOf(t)]

(* A thread that a step leaves alone stays where it is in its code. *)
LEMMA Bystander ==
    ASSUME NEW t \in Threads, CodeOf(t), Undisturbed(t), UNCHANGED key
    PROVE  CodeOf(t)' /\ CharOf(t)' = CharOf(t)
<1>1. CharOf(t)' = CharOf(t)
  BY DEF Undisturbed, CharOf
<1>2. /\ upc'[t] = "call" => this'[t] = t
      /\ t \in in_getc' => upc'[t] = "got"
  BY DEF CodeOf, Undisturbed
<1>3. Ending(t)' => /\ fn'[t] = "worker_thread" /\ upc'[t] = "loop"
                    /\ key'[c'[t]] = "s"
  <2>1. Ending(t)' => Ending(t)
    BY DEF Undisturbed
  <2>2. Ending(t) => fn[t] = "worker_thread" /\ upc[t] = "loop" /\ key[c[t]] = "s"
    BY DEF CodeOf
  <2>3. fn'[t] = fn[t] /\ upc'[t] = upc[t] /\ c'[t] = c[t] /\ key' = key
    BY DEF Undisturbed
  <2> QED  BY <2>1, <2>2, <2>3, Zenon
<1>4. CASE fn[t] = "main" /\ MainAt(t)
  <2>1. fn'[t] = "main" /\ MainAt(t)'
    BY <1>4 DEF MainAt, Undisturbed
  <2> QED  BY <1>1, <1>2, <1>3, <2>1, Zenon DEF CodeOf
<1>5. CASE fn[t] = "worker_thread" /\ WorkerAt(t)
  <2>1. fn'[t] = "worker_thread" /\ WorkerAt(t)'
    <3>1. Ending(t) => Ending(t)'
      BY DEF Undisturbed
    <3>2. ASSUME upc[t] = "loop", key[CharOf(t)] = "s", printed[CharOf(t)] = 0,
                 Ending(t)
          PROVE  WorkerAt(t)'
      BY <1>1, <1>5, <3>1, <3>2 DEF WorkerAt, Undisturbed
    <3>3. ASSUME ~Ending(t) PROVE WorkerAt(t)'
      BY <1>1, <1>5, <3>3 DEF WorkerAt, Undisturbed
    <3>4. Ending(t) => /\ upc[t] = "loop" /\ key[CharOf(t)] = "s"
                       /\ printed[CharOf(t)] = 0
      BY <1>5 DEF CodeOf, WorkerAt, CharOf, Starting
    <3>5. fn'[t] = "worker_thread"
      BY <1>5 DEF Undisturbed
    <3> QED  BY <3>2, <3>3, <3>4, <3>5
  <2> QED  BY <1>1, <1>2, <1>3, <2>1, Zenon DEF CodeOf
<1> QED  BY <1>4, <1>5 DEF CodeOf

(***************************************************************************)
(* A step that starts and ends no thread and in which every worker keeps   *)
(* its character.                                                          *)
(***************************************************************************)
SameWorkers ==
    /\ SameLives
    /\ fn' = fn
    /\ \A t \in LiveWorkers : CharOf(t)' = CharOf(t)

(* In such a step the characters with a worker stay the same. *)
LEMMA SameWorkerChars ==
    ASSUME SameWorkers
    PROVE  /\ LiveWorkers' = LiveWorkers /\ WorkerChars' = WorkerChars
           /\ OneMain => OneMain'
           /\ OneEach => OneEach'
<1>1. LiveWorkers' = LiveWorkers
  BY DEF SameWorkers, SameLives, LiveWorkers, Worker, Live
<1>2. WorkerChars' = WorkerChars
  BY <1>1 DEF SameWorkers, WorkerChars
<1>3. OneMain => OneMain'
  BY DEF SameWorkers, SameLives, OneMain
<1>4. OneEach => OneEach'
  BY <1>1 DEF SameWorkers, OneEach
<1> QED  BY <1>1, <1>2, <1>3, <1>4

(* One in which also main keeps the character it has to serve, if any. *)
SameChars ==
    /\ SameWorkers
    /\ \A t \in Threads :
         Live(t) /\ fn[t] = "main" =>
            /\ upc'[t] = "serve" <=> upc[t] = "serve"
            /\ upc[t] = "serve" => c'[t] = c[t]

(* Such a step preserves what the invariant says of the characters. *)
LEMMA QuietStep ==
    ASSUME UInv, UTypes', Code', Booting', SameChars,
           UNCHANGED <<key, done, dropped, read>>,
           \A x \in Chars \ WorkerChars : printed'[x] = printed[x]
    PROVE  UInv'
<1>1. InMain' = InMain
  BY DEF SameChars, SameWorkers, SameLives, Live, InMain
<1>2. WorkerChars' = WorkerChars /\ OneMain' /\ OneEach'
  BY SameWorkerChars DEF UInv, SameChars
<1>3. Served(WorkerChars, InMain, done, dropped, read)'
  BY <1>1, <1>2 DEF UInv, Served
<1>4. Prints(WorkerChars, done)'
  BY <1>2 DEF UInv, Served, Prints
<1> QED  BY <1>2, <1>3, <1>4 DEF UInv

(* Steps in which no thread executes a part of its code *)
LEMMA NobodyMoves ==
    ASSUME PInv, SameLives, \A t \in Threads : Ending(t)' <=> Ending(t), Booting',
           UNCHANGED <<in_getc, read>>,
           UNCHANGED <<key, upc, fn, arg, this, c, i, printed, done, dropped>>
    PROVE  UInv'
<1>1. \A t \in Threads : Undisturbed(t)
  BY DEF Undisturbed
<1>2. Code'
  BY <1>1, Bystander DEF PInv, UInv, Code, SameLives
<1>3. UTypes'
  BY DEF PInv, UInv, UTypes
<1>4. SameChars
  BY DEF SameChars, SameWorkers, CharOf
<1> QED  BY <1>2, <1>3, <1>4, QuietStep DEF PInv

(* Interrupts and devices *)
LEMMA KernelStepPreserves ==
    ASSUME PInv, KernelStep
    PROVE  UInv'
<1>1. /\ SameLives
      /\ \A t \in Threads : Ending(t)' <=> Ending(t)
      /\ Booting'
      /\ UNCHANGED <<in_getc, read>>
  BY KernelStepKeeps DEF PInv, UInv
<1>2. UNCHANGED <<key, upc, fn, arg, this, c, i, printed, done, dropped>>
  BY DEF KernelStep, Quiet, locals, ended
<1> QED  BY <1>1, <1>2, NobodyMoves

-----------------------------------------------------------------------------
(***************************************************************************)
(* The code of the running thread touches the variables of no other live   *)
(* thread.                                                                 *)
(***************************************************************************)
OnlyRunning ==
    \A t \in Threads \ {running_thread} :
        Live(t) =>
            /\ upc'[t] = upc[t] /\ fn'[t] = fn[t] /\ arg'[t] = arg[t]
            /\ this'[t] = this[t] /\ c'[t] = c[t] /\ i'[t] = i[t]
            /\ t \in in_getc' <=> t \in in_getc

(* So the others stay where they are, since no two print the same character. *)
LEMMA OthersKeep ==
    ASSUME PInv, running_thread \in Threads, OnlyRunning, UNCHANGED key,
           kpc' = "putc" => running_thread' = running_thread,
           \A x \in Chars : printed'[x] = printed[x]
                              \/ (Worker(running_thread) /\ x = CharOf(running_thread)),
           NEW t \in Threads, t # running_thread, Live(t)
    PROVE  CodeOf(t)' /\ CharOf(t)' = CharOf(t)
<1>1. CodeOf(t)
  BY DEF PInv, UInv, Code
<1>2. ~Ending(t) /\ ~Ending(t)'
  BY DEF Ending
<1>3. ASSUME fn[t] = "worker_thread" PROVE printed'[CharOf(t)] = printed[CharOf(t)]
  <2>1. CharOf(t) \in Chars
    BY <1>1, <1>3 DEF CodeOf, WorkerAt
  <2>2. Worker(running_thread) => CharOf(running_thread) # CharOf(t)
    BY <1>1, <1>3 DEF PInv, UInv, OneEach, LiveWorkers, Worker, Live
  <2> QED  BY <2>1, <2>2
<1>4. Undisturbed(t)
  BY <1>2, <1>3 DEF OnlyRunning, Undisturbed
<1> QED  BY <1>1, <1>4, Bystander

(***************************************************************************)
(* Steps of a thread r that neither serve, start nor end anyone.           *)
(***************************************************************************)
Local(r) ==
    /\ SameLives /\ OnlyRunning
    /\ key' = key /\ fn' = fn /\ done' = done /\ dropped' = dropped /\ read' = read
    /\ kpc' \in {"user", "putc"}
    /\ kpc' = "putc" => running_thread' = running_thread
    /\ \A x \in Chars : printed'[x] = printed[x] \/ (Worker(r) /\ x = CharOf(r))
    /\ fn[r] = "main" => upc[r] # "serve" /\ upc'[r] # "serve"
    /\ fn[r] = "worker_thread" => CharOf(r)' = CharOf(r)

(* They preserve the invariant if r itself is where it should be afterwards. *)
LEMMA LocalStep ==
    ASSUME PInv, InThread, NEW r \in Threads, r = running_thread,
           UTypes', CodeOf(r)', Local(r)
    PROVE  UInv'
<1> USE DEF Local
<1>1. ASSUME NEW t \in Threads, t # r, Live(t)
      PROVE  CodeOf(t)' /\ CharOf(t)' = CharOf(t)
  BY <1>1, OthersKeep
<1>2. Code'
  <2> SUFFICES ASSUME NEW t \in Threads, Live(t)' PROVE CodeOf(t)'
    BY DEF Code
  <2>1. Live(t)
    BY DEF SameLives
  <2> QED  BY <1>1, <2>1
<1>3. SameChars
  <2>1. \A t \in LiveWorkers : CharOf(t)' = CharOf(t)
    BY <1>1 DEF LiveWorkers, Worker, Live
  <2>2. \A t \in Threads :
          Live(t) /\ fn[t] = "main" =>
             /\ upc'[t] = "serve" <=> upc[t] = "serve"
             /\ upc[t] = "serve" => c'[t] = c[t]
    BY DEF OnlyRunning
  <2> QED  BY <2>1, <2>2 DEF SameChars, SameWorkers
<1>4. \A x \in Chars \ WorkerChars : printed'[x] = printed[x]
  BY DEF WorkerChars, LiveWorkers
<1>5. Booting'
  BY DEF Booting
<1> QED  BY <1>2, <1>3, <1>4, <1>5, QuietStep DEF PInv

-----------------------------------------------------------------------------
(* _thread_entry: what the thread reads is the function in its own slot. *)
LEMMA EntryPreserves ==
    ASSUME PInv, get_current_thread_fn \/ call_thread_fn
    PROVE  UInv'
<1>0. InThread
  BY DEF get_current_thread_fn, call_thread_fn, At
<1> SUFFICES ASSUME NEW r \in Threads, r = running_thread PROVE UInv'
  BY <1>0, RunningThread DEF PInv, UInv
<1>1. CodeOf(r) /\ UTypes /\ kpc = "user"
  BY <1>0, RunningThread DEF PInv, UInv, InThread
<1>2. /\ UNCHANGED <<status, kpc, running_thread, in_getc, read>>
      /\ UNCHANGED <<key, fn, arg, c, i, printed, done, dropped>>
  BY DEF get_current_thread_fn, call_thread_fn, kvars, vars, cpu, history, locals,
         ended
<1>3. SameLives
  BY <1>2 DEF SameLives, Live
<1>4. /\ key' = key /\ fn' = fn /\ done' = done /\ dropped' = dropped
      /\ read' = read /\ running_thread' = running_thread /\ kpc' = "user"
      /\ \A x \in Chars : printed'[x] = printed[x]
  BY <1>1, <1>2
<1>5. CASE get_current_thread_fn
  <2>1. /\ upc[r] = "entry" /\ upc' = [upc EXCEPT ![r] = "call"]
        /\ this' = [this EXCEPT ![r] = r]
    BY <1>5 DEF get_current_thread_fn, At, Goto, Set
  <2>2. UTypes'
    BY <1>1, <1>2, <2>1 DEF UTypes, Labels
  <2>3. upc'[r] = "call" /\ this'[r] = r /\ OnlyRunning
    BY <1>1, <1>2, <2>1 DEF UTypes, OnlyRunning
  <2>4. CharOf(r)' = CharOf(r)
    BY <1>2, <2>1, <2>3 DEF CharOf
  <2>5. CodeOf(r)'
    BY <1>1, <1>2, <2>1, <2>3, <2>4 DEF CodeOf, MainAt, WorkerAt, Starting, Ending
  <2>6. fn[r] = "main" => upc[r] # "serve" /\ upc'[r] # "serve"
    BY <2>1, <2>3
  <2>7. Local(r)
    BY <1>3, <1>4, <2>3, <2>4, <2>6, Zenon DEF Local
  <2> QED  BY <1>0, <2>2, <2>5, <2>7, LocalStep
<1>6. CASE call_thread_fn
  <2>1. /\ upc[r] = "call" /\ this[r] = r /\ UNCHANGED this
        /\ upc' = [upc EXCEPT ![r] = IF fn[r] = "main" THEN "getc" ELSE "worker"]
    BY <1>1, <1>6 DEF call_thread_fn, At, Goto, CodeOf, locals
  <2>2. UTypes'
    BY <1>1, <1>2, <2>1 DEF UTypes, Labels
  <2>3. /\ upc'[r] = IF fn[r] = "main" THEN "getc" ELSE "worker"
        /\ OnlyRunning
    BY <1>1, <1>2, <2>1 DEF UTypes, OnlyRunning
  <2>4. fn[r] = "worker_thread" => CharOf(r)' = CharOf(r)
    BY <1>2, <2>1, <2>3 DEF CharOf
  <2>5. CodeOf(r)'
    BY <1>1, <1>2, <2>1, <2>3, <2>4 DEF CodeOf, MainAt, WorkerAt, Starting, Ending
  <2>6. fn[r] = "main" => upc[r] # "serve" /\ upc'[r] # "serve"
    BY <2>1, <2>3
  <2>7. Local(r)
    BY <1>3, <1>4, <2>3, <2>4, <2>6, Zenon DEF Local
  <2> QED  BY <1>0, <2>2, <2>5, <2>7, LocalStep
<1> QED  BY <1>5, <1>6

(* worker_thread takes its argument, the character it is there for. *)
LEMMA WorkerPreserves ==
    ASSUME PInv, worker_thread
    PROVE  UInv'
<1>0. InThread
  BY DEF worker_thread, At
<1> SUFFICES ASSUME NEW r \in Threads, r = running_thread PROVE UInv'
  BY <1>0, RunningThread DEF PInv, UInv
<1>1. CodeOf(r) /\ UTypes /\ kpc = "user"
  BY <1>0, RunningThread DEF PInv, UInv, InThread
<1>2. /\ UNCHANGED <<status, kpc, running_thread, in_getc, read>>
      /\ UNCHANGED <<key, fn, arg, this, printed, done, dropped>>
  BY DEF worker_thread, kvars, vars, cpu, history, ended
<1>3. SameLives
  BY <1>2 DEF SameLives, Live
<1> DEFINE next == CASE key[arg[r]] = "s" -> "undefined"
                     [] key[arg[r]] = "i" -> "exit"
                     [] OTHER -> "loop"
<1>4. /\ upc[r] = "worker" /\ upc' = [upc EXCEPT ![r] = next]
      /\ c' = [c EXCEPT ![r] = arg[r]] /\ i' = [i EXCEPT ![r] = 0]
  BY DEF worker_thread, At, Goto, Set
<1>5. next \in {"undefined", "exit", "loop"}
  OBVIOUS
<1>6. UTypes'
  BY <1>1, <1>2, <1>4, <1>5 DEF UTypes, Labels
<1>7. upc'[r] = next /\ c'[r] = arg[r] /\ i'[r] = 0 /\ OnlyRunning
  BY <1>1, <1>2, <1>4 DEF UTypes, OnlyRunning
<1>8. CharOf(r) = arg[r] /\ CharOf(r)' = arg[r]
  BY <1>4, <1>5, <1>7 DEF CharOf
<1>9. fn[r] = "worker_thread" /\ WorkerAt(r)
  BY <1>1, <1>4 DEF CodeOf, MainAt
<1>10. CodeOf(r)'
  BY <1>1, <1>2, <1>4, <1>7, <1>8, <1>9, UserAssumption
  DEF CodeOf, WorkerAt, Starting, Ending
<1>11. /\ key' = key /\ fn' = fn /\ done' = done /\ dropped' = dropped
       /\ read' = read /\ running_thread' = running_thread /\ kpc' = "user"
       /\ \A x \in Chars : printed'[x] = printed[x]
       /\ fn[r] # "main" /\ CharOf(r)' = CharOf(r)
  BY <1>1, <1>2, <1>8, <1>9
<1>12. Local(r)
  BY <1>3, <1>7, <1>11, Zenon DEF Local
<1> QED  BY <1>0, <1>6, <1>10, <1>12, LocalStep

(* The loop of worker_thread: a print, or the end after PRINT_COUNT of them. *)
LEMMA LoopPreserves ==
    ASSUME PInv, worker_loop
    PROVE  UInv'
<1>0. InThread
  BY DEF worker_loop, At
<1> SUFFICES ASSUME NEW r \in Threads, r = running_thread PROVE UInv'
  BY <1>0, RunningThread DEF PInv, UInv
<1>1. CodeOf(r) /\ Live(r) /\ UTypes /\ kpc = "user" /\ upc[r] = "loop"
  BY <1>0, RunningThread DEF PInv, UInv, InThread, worker_loop, At
<1>2. /\ key' = key /\ fn' = fn /\ arg' = arg /\ this' = this /\ c' = c /\ i' = i
      /\ done' = done /\ dropped' = dropped /\ read' = read /\ in_getc' = in_getc
      /\ running_thread' = running_thread /\ status' = status
  BY DEF worker_loop, vars, history, locals
<1>3. SameLives
  BY <1>2 DEF SameLives, Live
<1>4. /\ fn[r] = "worker_thread" /\ CharOf(r) = c[r] /\ c[r] \in Chars
      /\ key[c[r]] \notin {"s", "i"} /\ printed[c[r]] = i[r] /\ i[r] <= PRINT_COUNT
  BY <1>1 DEF CodeOf, MainAt, WorkerAt, CharOf, Starting, Ending
<1>5. Worker(r)
  BY <1>1, <1>4 DEF Worker, Live
<1>6. CASE i[r] < PRINT_COUNT
  <2>1. /\ kpc' = "putc" /\ after' = "return"
        /\ upc' = [upc EXCEPT ![r] = "pause"]
        /\ printed' = [printed EXCEPT ![c[r]] = @ + 1]
    BY <1>1, <1>4, <1>6, UserAssumption
    DEF worker_loop, Goto, sys_putc, prints, UTypes
  <2>2. UTypes'
    BY <1>1, <1>2, <1>4, <2>1 DEF UTypes, Labels
  <2>3. /\ upc'[r] = "pause" /\ printed'[c[r]] = i[r] + 1 /\ OnlyRunning
        /\ \A x \in Chars : printed'[x] = printed[x] \/ x = c[r]
    BY <1>1, <1>2, <1>4, <2>1 DEF UTypes, OnlyRunning
  <2>4. CharOf(r)' = CharOf(r)
    BY <1>2, <1>4, <2>3 DEF CharOf
  <2>5. CodeOf(r)'
    BY <1>1, <1>2, <1>4, <1>6, <2>1, <2>3, <2>4 DEF CodeOf, WorkerAt, Ending
  <2>6. fn[r] # "main"
    BY <1>4
  <2>7. Local(r)
    BY <1>2, <1>3, <1>4, <1>5, <2>1, <2>3, <2>4, <2>6, Zenon DEF Local
  <2> QED  BY <1>0, <2>2, <2>5, <2>7, LocalStep
<1>7. CASE i[r] >= PRINT_COUNT
  <2>1. kpc' = "user" /\ upc' = [upc EXCEPT ![r] = "exit"] /\ printed' = printed
    BY <1>1, <1>4, <1>7, UserAssumption DEF worker_loop, Goto, cpu, UTypes
  <2>2. UTypes'
    BY <1>1, <1>2, <2>1 DEF UTypes, Labels
  <2>3. upc'[r] = "exit" /\ printed[c[r]] = PRINT_COUNT /\ OnlyRunning
    BY <1>1, <1>2, <1>4, <1>7, <2>1, UserAssumption DEF UTypes, OnlyRunning
  <2>4. CharOf(r)' = CharOf(r)
    BY <1>2, <1>4, <2>3 DEF CharOf
  <2>5. CodeOf(r)'
    BY <1>1, <1>2, <1>4, <2>1, <2>3, <2>4 DEF CodeOf, WorkerAt, Ending
  <2>6. fn[r] # "main" /\ \A x \in Chars : printed'[x] = printed[x]
    BY <1>4, <2>1
  <2>7. Local(r)
    BY <1>2, <1>3, <2>1, <2>3, <2>4, <2>6, Zenon DEF Local
  <2> QED  BY <1>0, <2>2, <2>5, <2>7, LocalStep
<1> QED  BY <1>1, <1>6, <1>7, UserAssumption DEF UTypes

(* The pause after a print: other threads run, and nothing is printed twice. *)
LEMMA PausePreserves ==
    ASSUME PInv, worker_pause
    PROVE  UInv'
<1>0. InThread
  BY DEF worker_pause, At
<1> SUFFICES ASSUME NEW r \in Threads, r = running_thread PROVE UInv'
  BY <1>0, RunningThread DEF PInv, UInv
<1>1. CodeOf(r) /\ UTypes /\ kpc = "user" /\ upc[r] = "pause"
  BY <1>0, RunningThread DEF PInv, UInv, InThread, worker_pause, At
<1>2. /\ key' = key /\ fn' = fn /\ arg' = arg /\ this' = this /\ c' = c
      /\ done' = done /\ dropped' = dropped /\ printed' = printed
      /\ upc' = [upc EXCEPT ![r] = "loop"] /\ i' = [i EXCEPT ![r] = @ + 1]
  BY DEF worker_pause, ended, Goto
<1>3. kpc' = "user" /\ in_getc' = in_getc /\ read' = read
  BY <1>1 DEF worker_pause, wait_or_sleep, kvars, cpu, history
<1>4. SameLives
  <2>1. CASE UNCHANGED kvars
    BY <2>1 DEF kvars, vars, SameLives, Live
  <2>2. CASE \E cycles : SleepCall(cycles)
    BY <2>2, SleepLives DEF PInv, KInv
  <2> QED  BY <2>1, <2>2 DEF worker_pause, wait_or_sleep
<1>5. /\ fn[r] = "worker_thread" /\ CharOf(r) = c[r] /\ c[r] \in Chars
      /\ key[c[r]] \notin {"s", "i"} /\ printed[c[r]] = i[r] + 1
      /\ i[r] < PRINT_COUNT
  BY <1>1 DEF CodeOf, MainAt, WorkerAt, CharOf, Starting
<1>6. UTypes'
  BY <1>1, <1>2 DEF UTypes, Labels
<1>7. upc'[r] = "loop" /\ i'[r] = i[r] + 1 /\ OnlyRunning
  BY <1>1, <1>2, <1>3 DEF UTypes, OnlyRunning
<1>8. CharOf(r)' = CharOf(r)
  BY <1>2, <1>5, <1>7 DEF CharOf
<1>9. i[r] + 1 <= PRINT_COUNT
  BY <1>1, <1>5, UserAssumption DEF UTypes
<1>10. CodeOf(r)'
  BY <1>1, <1>2, <1>3, <1>5, <1>7, <1>8, <1>9 DEF CodeOf, WorkerAt, Ending
<1>11. /\ fn[r] # "main" /\ kpc' # "putc"
       /\ \A x \in Chars : printed'[x] = printed[x]
  BY <1>2, <1>3, <1>5
<1>12. Local(r)
  BY <1>2, <1>3, <1>4, <1>7, <1>8, <1>11, Zenon DEF Local
<1> QED  BY <1>0, <1>6, <1>10, <1>12, LocalStep

(* The unknown system call: the message is printed before the thread ends. *)
LEMMA UndefinedPreserves ==
    ASSUME PInv, worker_undefined
    PROVE  UInv'
<1>0. InThread
  BY DEF worker_undefined, At
<1> SUFFICES ASSUME NEW r \in Threads, r = running_thread PROVE UInv'
  BY <1>0, RunningThread DEF PInv, UInv
<1>1. CodeOf(r) /\ UTypes /\ kpc = "user" /\ upc[r] = "undefined"
  BY <1>0, RunningThread DEF PInv, UInv, InThread, worker_undefined, At
<1>2. /\ key' = key /\ fn' = fn /\ arg' = arg /\ this' = this /\ c' = c /\ i' = i
      /\ done' = done /\ dropped' = dropped /\ printed' = printed
      /\ upc' = [upc EXCEPT ![r] = "loop"]
      /\ in_getc' = in_getc /\ read' = read
      /\ status' = status /\ running_thread' = running_thread
      /\ kpc' = "putc" /\ after' = "terminate"
  BY DEF worker_undefined, ended, locals, Goto, vars, history, unknown_svc, prints
<1>3. SameLives
  BY <1>2 DEF SameLives, Live
<1>4. /\ fn[r] = "worker_thread" /\ CharOf(r) = c[r] /\ c[r] \in Chars
      /\ key[c[r]] = "s" /\ printed[c[r]] = 0
  BY <1>1 DEF CodeOf, MainAt, WorkerAt, CharOf, Starting
<1>5. UTypes'
  BY <1>1, <1>2 DEF UTypes, Labels
<1>6. upc'[r] = "loop" /\ OnlyRunning
  BY <1>1, <1>2 DEF UTypes, OnlyRunning
<1>7. CharOf(r)' = CharOf(r)
  BY <1>2, <1>4, <1>6 DEF CharOf
<1>8. CodeOf(r)'
  BY <1>1, <1>2, <1>4, <1>6, <1>7 DEF CodeOf, WorkerAt, Ending
<1>9. fn[r] # "main" /\ \A x \in Chars : printed'[x] = printed[x]
  BY <1>2, <1>4
<1>10. Local(r)
  BY <1>2, <1>3, <1>6, <1>7, <1>9, Zenon DEF Local
<1> QED  BY <1>0, <1>5, <1>8, <1>10, LocalStep

(* main calls getc, and waits in it or not. *)
LEMMA GetcPreserves ==
    ASSUME PInv, main_getc
    PROVE  UInv'
<1>0. InThread
  BY DEF main_getc, At
<1> SUFFICES ASSUME NEW r \in Threads, r = running_thread PROVE UInv'
  BY <1>0, RunningThread DEF PInv, UInv
<1>1. /\ CodeOf(r) /\ UTypes /\ kpc = "user" /\ upc[r] = "getc"
      /\ KInv /\ InUserThread
  BY <1>0, RunningThread DEF PInv, UInv, InThread, main_getc, At
<1>2. /\ key' = key /\ fn' = fn /\ arg' = arg /\ this' = this /\ c' = c /\ i' = i
      /\ done' = done /\ dropped' = dropped /\ printed' = printed
      /\ upc' = [upc EXCEPT ![r] = "got"]
      /\ in_getc' = in_getc \cup {r} /\ read' = read /\ kpc' = "user"
  BY <1>1 DEF main_getc, ended, locals, Goto, sys_getc, cpu
<1>3. SameLives
  <2>1. CASE scheduler_wait_running_from_irq
    BY <1>1, <2>1, WaitLives DEF KInv
  <2>2. CASE UNCHANGED status
    BY <2>2 DEF SameLives, Live
  <2> QED  BY <2>1, <2>2 DEF main_getc, sys_getc, scheduler_prepare_svc_return
<1>4. fn[r] = "main"
  BY <1>1 DEF CodeOf, WorkerAt, Starting
<1>5. UTypes'
  BY <1>1, <1>2 DEF UTypes, Labels
<1>6. upc'[r] = "got" /\ OnlyRunning
  BY <1>1, <1>2 DEF UTypes, OnlyRunning
<1>7. CodeOf(r)'
  BY <1>1, <1>2, <1>4, <1>6 DEF CodeOf, MainAt, Ending
<1>8. /\ fn[r] # "worker_thread" /\ kpc' # "putc"
      /\ upc[r] # "serve" /\ upc'[r] # "serve"
      /\ \A x \in Chars : printed'[x] = printed[x]
  BY <1>1, <1>2, <1>4, <1>6
<1>9. Local(r)
  BY <1>2, <1>3, <1>6, <1>8, Zenon DEF Local
<1> QED  BY <1>0, <1>5, <1>7, <1>9, LocalStep

-----------------------------------------------------------------------------
(* What main has to serve is in its variable c. *)
LEMMA MainServes ==
    ASSUME OneMain, NEW m \in Threads, Live(m), fn[m] = "main"
    PROVE  InMain = IF upc[m] = "serve" THEN {c[m]} ELSE {}
BY DEF OneMain, Live, InMain

(* And after a step. *)
LEMMA MainServesNext ==
    ASSUME OneMain', NEW m \in Threads, Live(m)', fn'[m] = "main"
    PROVE  InMain' = IF upc'[m] = "serve" THEN {c'[m]} ELSE {}
BY DEF OneMain, Live, InMain

(* main looks at the result of getc: a character that nobody has read. *)
LEMMA GotPreserves ==
    ASSUME PInv, main_got
    PROVE  UInv'
<1>0. InThread
  BY DEF main_got, At
<1> SUFFICES ASSUME NEW r \in Threads, r = running_thread PROVE UInv'
  BY <1>0, RunningThread DEF PInv, UInv
<1>1. /\ CodeOf(r) /\ Live(r) /\ UTypes /\ kpc = "user" /\ upc[r] = "got"
      /\ status[r] = "RUNNING" /\ r \in in_getc
  BY <1>0, RunningThread DEF PInv, UInv, InThread, main_got, getc_returns, At
<1> DEFINE x == exception_frame
<1>2. /\ key' = key /\ fn' = fn /\ arg' = arg /\ this' = this /\ i' = i
      /\ done' = done /\ dropped' = dropped /\ printed' = printed
      /\ upc' = [upc EXCEPT ![r] = "serve"] /\ c' = [c EXCEPT ![r] = x]
      /\ in_getc' = in_getc \ {r} /\ read' = read \cup {x} /\ kpc' = "user"
      /\ status' = status
  BY <1>1 DEF main_got, ended, Goto, Set, getc_returns, cpu,
              scheduler_prepare_svc_return
<1>3. x = granted[r] /\ x # 0
  BY <1>1 DEF PInv, GrantInv, GrantOf, r0
<1>4. x \in Chars /\ x \notin read
  <2>1. x \in Held
    BY <1>3 DEF Held
  <2>2. x \in 1 .. arrived /\ arrived \in 0 .. MaxChars /\ MaxChars \in Nat
    BY <2>1, KernelAssumption DEF PInv, InputInv, Accounted, KInv, KTypeOK
  <2>3. Held \cap read = {}
    BY DEF PInv, InputInv, Accounted
  <2> QED  BY <2>1, <2>2, <2>3 DEF Chars
<1> HIDE DEF x
<1>5. fn[r] = "main"
  BY <1>1 DEF CodeOf, WorkerAt, Starting
<1>6. UTypes'
  BY <1>1, <1>2, <1>4, KernelAssumption DEF UTypes, Labels
<1>7. upc'[r] = "serve" /\ c'[r] = x /\ OnlyRunning
  BY <1>1, <1>2 DEF UTypes, OnlyRunning
<1>8. CodeOf(r)'
  BY <1>1, <1>2, <1>4, <1>5, <1>7 DEF CodeOf, MainAt, Ending
<1>9. ASSUME NEW t \in Threads, t # r, Live(t)
      PROVE  CodeOf(t)' /\ CharOf(t)' = CharOf(t)
  BY <1>2, <1>7, <1>9, OthersKeep
<1>10. SameLives
  BY <1>2 DEF SameLives, Live
<1>11. Code'
  BY <1>8, <1>9, <1>10 DEF Code, SameLives
<1>12. SameWorkers
  BY <1>2, <1>5, <1>9, <1>10 DEF SameWorkers, LiveWorkers, Worker, Live
<1>13. WorkerChars' = WorkerChars /\ OneMain' /\ OneEach'
  BY <1>12, SameWorkerChars DEF PInv, UInv
<1>14. InMain = {} /\ InMain' = {x}
  <2>1. InMain = {}
    BY <1>1, <1>5, MainServes DEF PInv, UInv
  <2>2. Live(r)' /\ fn'[r] = "main"
    BY <1>1, <1>2, <1>5 DEF Live
  <2> QED  BY <1>7, <1>13, <2>1, <2>2, MainServesNext
<1>15. Served(WorkerChars, InMain, done, dropped, read)'
  <2>1. Served(WorkerChars, {}, done, dropped, read)
    BY <1>14 DEF PInv, UInv
  <2> QED  BY <1>2, <1>4, <1>13, <1>14, <2>1 DEF Served
<1>16. Prints(WorkerChars, done)'
  BY <1>2, <1>13 DEF PInv, UInv, Prints
<1>17. Booting'
  BY <1>2 DEF Booting
<1> QED  BY <1>6, <1>11, <1>13, <1>15, <1>16, <1>17 DEF UInv

(* kernel_exit: main is left with nothing to serve. *)
LEMMA ExitPreserves ==
    ASSUME PInv, main_exit
    PROVE  UInv'
<1>0. InThread
  BY DEF main_exit, At
<1> SUFFICES ASSUME NEW r \in Threads, r = running_thread PROVE UInv'
  BY <1>0, RunningThread DEF PInv, UInv
<1>1. /\ CodeOf(r) /\ Live(r) /\ UTypes /\ kpc = "user" /\ upc[r] = "serve"
      /\ r \notin in_getc
  BY <1>0, RunningThread
  DEF PInv, UInv, InThread, main_exit, sys_kernel_exit, Calls, At
<1>2. /\ key' = key /\ fn' = fn /\ arg' = arg /\ this' = this /\ c' = c /\ i' = i
      /\ done' = done /\ dropped' = dropped /\ printed' = printed
      /\ upc' = [upc EXCEPT ![r] = "getc"] /\ key[c[r]] = "S"
      /\ in_getc' = in_getc /\ read' = read /\ kpc' = "putc" /\ after' = "stop"
      /\ status' = status /\ running_thread' = running_thread
  BY <1>1 DEF main_exit, ended, locals, Goto, Main, sys_kernel_exit, prints, vars,
              history
<1>3. fn[r] = "main" /\ c[r] \in Chars
  BY <1>1 DEF CodeOf, MainAt, WorkerAt, Starting
<1>4. UTypes'
  BY <1>1, <1>2 DEF UTypes, Labels
<1>5. upc'[r] = "getc" /\ OnlyRunning
  BY <1>1, <1>2 DEF UTypes, OnlyRunning
<1>6. CodeOf(r)'
  BY <1>1, <1>2, <1>3, <1>5 DEF CodeOf, MainAt, Ending
<1>7. ASSUME NEW t \in Threads, t # r, Live(t)
      PROVE  CodeOf(t)' /\ CharOf(t)' = CharOf(t)
  BY <1>2, <1>5, <1>7, OthersKeep
<1>8. SameLives
  BY <1>2 DEF SameLives, Live
<1>9. Code'
  BY <1>6, <1>7, <1>8 DEF Code, SameLives
<1>10. SameWorkers
  BY <1>2, <1>3, <1>7, <1>8 DEF SameWorkers, LiveWorkers, Worker, Live
<1>11. WorkerChars' = WorkerChars /\ OneMain' /\ OneEach'
  BY <1>10, SameWorkerChars DEF PInv, UInv
<1>12. InMain = {c[r]} /\ InMain' = {}
  <2>1. InMain = {c[r]}
    BY <1>1, <1>3, MainServes DEF PInv, UInv
  <2>2. Live(r)' /\ fn'[r] = "main"
    BY <1>1, <1>2, <1>3 DEF Live
  <2> QED  BY <1>5, <1>11, <2>1, <2>2, MainServesNext
<1>13. Served(WorkerChars, InMain, done, dropped, read)'
  <2>1. Served(WorkerChars, {c[r]}, done, dropped, read)
    BY <1>12 DEF PInv, UInv
  <2> QED  BY <1>2, <1>11, <1>12, <2>1 DEF Served
<1>14. Prints(WorkerChars, done)'
  BY <1>2, <1>11 DEF PInv, UInv, Prints
<1>15. Booting'
  BY <1>2 DEF Booting
<1> QED  BY <1>4, <1>9, <1>11, <1>13, <1>14, <1>15 DEF UInv

(***************************************************************************)
(* create_thread without a free slot: the character is dropped.            *)
(***************************************************************************)
LEMMA DropPreserves ==
    ASSUME PInv, main_create, \A t \in Threads : Live(t), UNCHANGED status
    PROVE  UInv'
<1>0. InThread
  BY DEF main_create, At
<1> SUFFICES ASSUME NEW r \in Threads, r = running_thread PROVE UInv'
  BY <1>0, RunningThread DEF PInv, UInv
<1>1. /\ CodeOf(r) /\ Live(r) /\ UTypes /\ kpc = "user" /\ upc[r] = "serve"
      /\ r \notin in_getc
  BY <1>0, RunningThread
  DEF PInv, UInv, InThread, main_create, sys_create_thread, Calls, At
<1>2. \A t \in Threads : ~NewThread(t)
  BY DEF NewThread, Live
<1>3. /\ key' = key /\ this' = this /\ c' = c /\ i' = i
      /\ done' = done /\ printed' = printed
      /\ dropped' = dropped \cup {c[r]} /\ key[c[r]] # "S"
      /\ in_getc' = in_getc /\ read' = read /\ kpc' = "putc" /\ after' = "return"
      /\ status' = status /\ running_thread' = running_thread
  BY <1>2 DEF main_create, Main, sys_create_thread, scheduler_thread_create, prints,
              history, Live
<1>4. fn' = fn /\ arg' = arg /\ upc' = [upc EXCEPT ![r] = "getc"]
  <2>1. fn' = [t \in Threads |-> fn[t]] /\ arg' = [t \in Threads |-> arg[t]]
    BY <1>2 DEF main_create, init_slot
  <2>2. upc' = [t \in Threads |-> IF t = r THEN "getc" ELSE upc[t]]
    BY <1>1, <1>2 DEF main_create, init_slot
  <2> QED  BY <1>1, <2>1, <2>2 DEF UTypes
<1>5. fn[r] = "main" /\ c[r] \in Chars
  BY <1>1 DEF CodeOf, MainAt, WorkerAt, Starting
<1>6. UTypes'
  BY <1>1, <1>3, <1>4, <1>5 DEF UTypes, Labels
<1>7. upc'[r] = "getc" /\ OnlyRunning
  BY <1>1, <1>3, <1>4 DEF UTypes, OnlyRunning
<1>8. CodeOf(r)'
  BY <1>1, <1>3, <1>4, <1>5, <1>7 DEF CodeOf, MainAt, Ending
<1>9. ASSUME NEW t \in Threads, t # r, Live(t)
      PROVE  CodeOf(t)' /\ CharOf(t)' = CharOf(t)
  BY <1>3, <1>7, <1>9, OthersKeep
<1>10. SameLives
  BY <1>3 DEF SameLives, Live
<1>11. Code'
  BY <1>8, <1>9, <1>10 DEF Code, SameLives
<1>12. SameWorkers
  BY <1>4, <1>5, <1>9, <1>10 DEF SameWorkers, LiveWorkers, Worker, Live
<1>13. WorkerChars' = WorkerChars /\ OneMain' /\ OneEach'
  BY <1>12, SameWorkerChars DEF PInv, UInv
<1>14. InMain = {c[r]} /\ InMain' = {}
  <2>1. InMain = {c[r]}
    BY <1>1, <1>5, MainServes DEF PInv, UInv
  <2>2. Live(r)' /\ fn'[r] = "main"
    BY <1>1, <1>3, <1>4, <1>5 DEF Live
  <2> QED  BY <1>7, <1>13, <2>1, <2>2, MainServesNext
<1>15. Served(WorkerChars, InMain, done, dropped, read)'
  <2>1. Served(WorkerChars, {c[r]}, done, dropped, read)
    BY <1>14 DEF PInv, UInv
  <2> QED  BY <1>3, <1>13, <1>14, <2>1 DEF Served
<1>16. Prints(WorkerChars, done)'
  BY <1>3, <1>13 DEF PInv, UInv, Prints
<1>17. Booting'
  BY <1>3 DEF Booting
<1> QED  BY <1>6, <1>11, <1>13, <1>15, <1>16, <1>17 DEF UInv

(***************************************************************************)
(* create_thread with a free slot: main's character becomes the argument   *)
(* of a worker that nobody else is, and main goes back to getc.            *)
(***************************************************************************)
LEMMA SpawnPreserves ==
    ASSUME PInv, main_create, NEW id \in Threads, NewThread(id),
           \A t \in Threads : t # id => ~NewThread(t),
           \A t \in Threads : Live(t)' <=> Live(t) \/ t = id
    PROVE  UInv'
<1>0. InThread
  BY DEF main_create, At
<1> SUFFICES ASSUME NEW r \in Threads, r = running_thread PROVE UInv'
  BY <1>0, RunningThread DEF PInv, UInv
<1>1. /\ CodeOf(r) /\ Live(r) /\ UTypes /\ kpc = "user" /\ upc[r] = "serve"
      /\ r \notin in_getc /\ ~Live(id) /\ id # r
  BY <1>0, RunningThread
  DEF PInv, UInv, InThread, main_create, sys_create_thread, Calls, At, NewThread, Live
<1>2. id \notin in_getc
  BY DEF PInv, GrantInv, GrantOf, NewThread
<1>3. /\ key' = key /\ this' = this /\ c' = c /\ i' = i
      /\ done' = done /\ printed' = printed /\ dropped' = dropped
      /\ key[c[r]] # "S" /\ in_getc' = in_getc /\ read' = read /\ kpc' = "user"
  BY <1>1 DEF main_create, Main, sys_create_thread, cpu, history, NewThread
<1>4. /\ fn' = [fn EXCEPT ![id] = "worker_thread"]
      /\ arg' = [arg EXCEPT ![id] = c[r]]
      /\ upc' = [upc EXCEPT ![r] = "getc", ![id] = "entry"]
  <2>1. /\ fn' = [t \in Threads |-> IF t = id THEN "worker_thread" ELSE fn[t]]
        /\ arg' = [t \in Threads |-> IF t = id THEN c[r] ELSE arg[t]]
    BY DEF main_create, init_slot, Main
  <2>2. upc' = [t \in Threads |-> IF t = id THEN "entry"
                                  ELSE IF t = r THEN "getc" ELSE upc[t]]
    BY <1>1 DEF main_create, init_slot
  <2> QED  BY <1>1, <2>1, <2>2 DEF UTypes
<1>5. fn[r] = "main" /\ c[r] \in Chars /\ c[r] \in Words
  BY <1>1 DEF CodeOf, MainAt, WorkerAt, Starting, UTypes
<1>6. UTypes'
  BY <1>1, <1>3, <1>4, <1>5 DEF UTypes, Labels
<1>7. /\ upc'[r] = "getc" /\ upc'[id] = "entry" /\ fn'[r] = "main"
      /\ fn'[id] = "worker_thread" /\ arg'[id] = c[r] /\ OnlyRunning
  BY <1>1, <1>3, <1>4, <1>5 DEF UTypes, OnlyRunning
<1>8. InMain = {c[r]}
  BY <1>1, <1>5, MainServes DEF PInv, UInv
<1>9. Served(WorkerChars, {c[r]}, done, dropped, read)
  BY <1>8 DEF PInv, UInv
<1>10. c[r] \notin WorkerChars /\ c[r] \notin done /\ printed[c[r]] = 0
  BY <1>5, <1>9 DEF PInv, UInv, Prints, Served
<1>11. CodeOf(r)'
  BY <1>1, <1>3, <1>5, <1>7 DEF CodeOf, MainAt, Ending
<1>12. CodeOf(id)' /\ CharOf(id)' = c[r]
  <2>1. CharOf(id)' = c[r]
    BY <1>7 DEF CharOf
  <2> QED  BY <1>2, <1>3, <1>5, <1>7, <1>10, <2>1
           DEF CodeOf, WorkerAt, Starting, Ending
<1>13. ASSUME NEW t \in Threads, t # r, Live(t)
       PROVE  CodeOf(t)' /\ CharOf(t)' = CharOf(t)
  BY <1>3, <1>7, <1>13, OthersKeep
<1>14. Code'
  BY <1>11, <1>12, <1>13 DEF Code
<1>15. LiveWorkers' = LiveWorkers \cup {id} /\ id \notin LiveWorkers
  BY <1>1, <1>4, <1>7 DEF LiveWorkers, Worker, Live, UTypes
<1>16. \A t \in LiveWorkers : CharOf(t)' = CharOf(t)
  BY <1>5, <1>13 DEF LiveWorkers, Worker, Live
<1>17. WorkerChars' = WorkerChars \cup {c[r]}
  BY <1>12, <1>15, <1>16 DEF WorkerChars
<1>18. OneMain'
  BY <1>1, <1>4, <1>7 DEF PInv, UInv, OneMain, UTypes
<1>19. OneEach'
  <2>1. OneEach /\ \A t \in LiveWorkers : CharOf(t) # c[r]
    BY <1>10 DEF PInv, UInv, WorkerChars
  <2> QED  BY <1>12, <1>15, <1>16, <2>1 DEF OneEach
<1>20. InMain' = {}
  <2>1. Live(r)'
    BY <1>1
  <2> QED  BY <1>7, <1>18, <2>1, MainServesNext
<1>21. Served(WorkerChars, InMain, done, dropped, read)'
  BY <1>3, <1>9, <1>17, <1>20 DEF Served
<1>22. Prints(WorkerChars, done)'
  BY <1>3, <1>10, <1>17 DEF PInv, UInv, Prints
<1>23. Booting'
  BY <1>3 DEF Booting
<1> QED  BY <1>6, <1>14, <1>18, <1>19, <1>21, <1>22, <1>23 DEF UInv

(* create_thread *)
LEMMA MainCreatePreserves ==
    ASSUME PInv, main_create
    PROVE  UInv'
<1>1. IInv /\ scheduler_thread_create
  BY DEF PInv, KInv, main_create, sys_create_thread
<1>2. CASE (\A t \in Threads : Live(t)) /\ UNCHANGED status
  BY <1>2, DropPreserves
<1>3. ASSUME NEW id \in Threads, NewThread(id),
             \A t \in Threads : t # id => ~NewThread(t),
             \A t \in Threads : Live(t)' <=> Live(t) \/ t = id
      PROVE  UInv'
  BY <1>3, SpawnPreserves
<1> QED  BY <1>1, <1>2, <1>3, CreateLives

-----------------------------------------------------------------------------
(***************************************************************************)
(* A worker that has printed what it has to print ends.                    *)
(***************************************************************************)
LEMMA EndPreserves ==
    ASSUME PInv, InUserThread, terminate, NEW r \in Threads, r = running_thread,
           fn[r] = "worker_thread", upc[r] \notin Starting,
           printed[c[r]] = IF key[c[r]] \in {"s", "i"} THEN 0 ELSE PRINT_COUNT,
           kpc' = "user", done' = done \cup {c[r]},
           UNCHANGED <<read, key, upc, fn, arg, this, c, i, printed, dropped>>
    PROVE  UInv'
<1>1. Live(r)
  BY DEF PInv, KInv, IInv, Placed, AllThreads, Live
<1>2. CodeOf(r) /\ UTypes
  BY <1>1 DEF PInv, UInv, Code
<1>3. CharOf(r) = c[r] /\ c[r] \in Chars
  BY <1>2 DEF CodeOf, WorkerAt, CharOf, Starting
<1>4. \A t \in Threads : Live(t)' <=> Live(t) /\ t # r
  BY TerminateLives DEF PInv, KInv
<1>5. in_getc' = in_getc \ {r}
  BY DEF terminate
<1>6. UTypes'
  BY <1>2, <1>3 DEF UTypes
<1>7. OnlyRunning
  BY <1>5 DEF OnlyRunning
<1>8. ASSUME NEW t \in Threads, t # r, Live(t)
      PROVE  CodeOf(t)' /\ CharOf(t)' = CharOf(t)
  BY <1>7, <1>8, OthersKeep
<1>9. Code'
  BY <1>4, <1>8 DEF Code
<1>10. LiveWorkers' = LiveWorkers \ {r} /\ r \in LiveWorkers
  BY <1>1, <1>4 DEF LiveWorkers, Worker, Live
<1>11. \A t \in Threads : CharOf(t)' = CharOf(t)
  BY DEF CharOf
<1>12. WorkerChars' = WorkerChars \ {c[r]} /\ c[r] \in WorkerChars
  BY <1>3, <1>10, <1>11 DEF PInv, UInv, OneEach, WorkerChars, LiveWorkers
<1>13. OneMain' /\ OneEach'
  BY <1>4, <1>10, <1>11 DEF PInv, UInv, OneMain, OneEach, LiveWorkers
<1>14. InMain' = InMain
  BY <1>4 DEF InMain, Live
<1>15. Served(WorkerChars, InMain, done, dropped, read)
  BY DEF PInv, UInv
<1>16. Served(WorkerChars, InMain, done, dropped, read)'
  BY <1>12, <1>14, <1>15 DEF Served
<1>17. Prints(WorkerChars, done)'
  BY <1>12 DEF PInv, UInv, Prints
<1>18. Booting'
  BY DEF Booting
<1> QED  BY <1>6, <1>9, <1>13, <1>16, <1>17, <1>18 DEF UInv

(* A worker that returns from its function *)
LEMMA WorkerExitPreserves ==
    ASSUME PInv, worker_exit
    PROVE  UInv'
<1>0. InThread
  BY DEF worker_exit, At
<1> SUFFICES ASSUME NEW r \in Threads, r = running_thread PROVE UInv'
  BY <1>0, RunningThread DEF PInv, UInv
<1>1. CodeOf(r) /\ upc[r] = "exit" /\ InUserThread /\ kpc = "user"
  BY <1>0, RunningThread DEF PInv, UInv, worker_exit, At, InThread
<1>2. /\ fn[r] = "worker_thread" /\ upc[r] \notin Starting
      /\ printed[c[r]] = IF key[c[r]] \in {"s", "i"} THEN 0 ELSE PRINT_COUNT
  BY <1>1 DEF CodeOf, MainAt, WorkerAt, CharOf, Starting
<1>3. /\ terminate /\ kpc' = "user" /\ done' = done \cup {c[r]}
      /\ UNCHANGED <<read, key, upc, fn, arg, this, c, i, printed, dropped>>
  BY <1>1 DEF worker_exit, sys_exit, cpu, locals
<1> QED  BY <1>1, <1>2, <1>3, EndPreserves

(* uart_putc: only the message of an unknown call ends the thread. *)
LEMMA PutcPreserves ==
    ASSUME PInv, Putc
    PROVE  UInv'
<1>1. /\ kpc = "putc" /\ kpc' = IF after = "stop" THEN "stop" ELSE "user"
      /\ UNCHANGED <<read, key, upc, fn, arg, this, c, i, printed, dropped>>
  BY DEF Putc, uart_putc, locals
<1>2. running_thread \in Threads /\ InUserThread
  BY <1>1, IdleAssumption DEF PInv, KInv, Mode, InUserThread
<1>3. CASE after # "terminate"
  <2>1. UNCHANGED <<status, in_getc, done>>
    BY <1>3 DEF Putc, uart_putc, vars
  <2>2. SameLives
    BY <2>1 DEF SameLives, Live
  <2>3. \A t \in Threads : Ending(t)' <=> Ending(t)
    BY <1>1, <1>3 DEF Ending
  <2>4. Booting'
    BY <1>1 DEF Booting
  <2> QED  BY <1>1, <2>1, <2>2, <2>3, <2>4, NobodyMoves
<1>4. CASE after = "terminate"
  <2> SUFFICES ASSUME NEW r \in Threads, r = running_thread PROVE UInv'
    BY <1>2
  <2>1. Live(r)
    BY DEF PInv, KInv, IInv, Placed, AllThreads, Live
  <2>2. CodeOf(r) /\ Ending(r)
    BY <1>1, <1>4, <2>1 DEF PInv, UInv, Code, Ending
  <2>3. /\ fn[r] = "worker_thread" /\ upc[r] = "loop" /\ key[c[r]] = "s"
        /\ CharOf(r) = c[r] /\ printed[c[r]] = 0
    BY <2>2 DEF CodeOf, WorkerAt, MainAt, CharOf, Starting
  <2>4. terminate /\ done' = done \cup {c[r]} /\ kpc' = "user"
    BY <1>1, <1>4 DEF Putc, uart_putc
  <2>5. upc[r] \notin Starting
    BY <2>3 DEF Starting
  <2> QED  BY <1>1, <1>2, <2>3, <2>4, <2>5, EndPreserves
<1> QED  BY <1>3, <1>4

-----------------------------------------------------------------------------
(* start_kernel: main is created, and when it is entered nobody else lives. *)
LEMMA BootPreserves ==
    ASSUME PInv, Boot
    PROVE  UInv'
<1>1. /\ kpc \in {"init", "boot"} /\ kpc' \in {"boot", "user"}
      /\ UNCHANGED <<in_getc, read, key, this, c, i, printed, done, dropped>>
  BY DEF Boot, start_kernel, uart_init, history, ended
<1>2. /\ IInv /\ UTypes
      /\ Placed(status, run_queue, sleep_queue, wait_queue, running_thread)
      /\ \A t \in Threads : Live(t) => status[t] = "READY"
  BY <1>1 DEF PInv, KInv, IInv, UInv, Booting
<1>3. ASSUME SameLives, \A t \in Threads : ~NewThread(t), Booting' PROVE UInv'
  <2>1. fn' = fn /\ arg' = arg /\ upc' = upc
    BY <1>1, <1>2, <1>3 DEF Boot, init_slot, UTypes
  <2>2. \A t \in Threads : Ending(t)' <=> Ending(t)
    BY <1>1 DEF Ending
  <2> QED  BY <1>1, <1>3, <2>1, <2>2, NobodyMoves
<1>4. CASE UNCHANGED status
  BY <1>1, <1>2, <1>3, <1>4 DEF SameLives, Live, NewThread, Booting
<1>5. CASE BootStart /\ kpc' = "user"
  <2> DEFINE t0 == Head(run_queue)
  <2>1. run_queue # <<>> /\ run_queue \in Seq(Threads)
    BY <1>2, <1>5 DEF BootStart, Placed
  <2>2. t0 \in Range(run_queue) /\ t0 \in Threads
    BY <2>1, DequeueLemma
  <2>3. /\ status[t0] = "READY" /\ status \in [AllThreads -> thread_status]
        /\ idle_thread \notin Threads
    BY <1>2, <2>2, IdleAssumption DEF Placed
  <2>4. status' = [status EXCEPT ![idle_thread] = "READY", ![t0] = "RUNNING"]
    BY <1>5, <2>1 DEF BootStart, scheduler_start, scheduler_get_next_thread,
                      thread_run, thread_init
  <2> HIDE DEF t0
  <2>5. \A t \in Threads : status'[t] = IF t = t0 THEN "RUNNING" ELSE status[t]
    BY <2>2, <2>3, <2>4 DEF AllThreads
  <2>6. SameLives /\ \A t \in Threads : ~NewThread(t)
    BY <2>3, <2>5 DEF SameLives, Live, NewThread
  <2>7. Booting'
    BY <1>5 DEF Booting
  <2> QED  BY <1>3, <2>6, <2>7
<1>6. CASE BootCreate /\ kpc' = "boot"
  <2>1. /\ run_queue = <<>> /\ scheduler_thread_create
        /\ init_slot("main", 0)
    BY <1>6 DEF BootCreate, Boot
  <2>2. \A t \in Threads : ~Live(t)
    BY <1>2, <2>1 DEF Placed, Range
  <2>3. CASE UNCHANGED status
    BY <1>4, <2>3
  <2>4. CASE \E id \in Threads :
                /\ NewThread(id)
                /\ \A t \in Threads : t # id => ~NewThread(t)
                /\ \A t \in Threads : Live(t)' <=> Live(t) \/ t = id
    <3>1. PICK id \in Threads :
                /\ NewThread(id)
                /\ \A t \in Threads : t # id => ~NewThread(t)
                /\ \A t \in Threads : Live(t)' <=> Live(t) \/ t = id
      BY <2>4
    <3>2. /\ fn' = [fn EXCEPT ![id] = "main"] /\ arg' = [arg EXCEPT ![id] = 0]
          /\ upc' = [upc EXCEPT ![id] = "entry"]
      BY <1>1, <1>2, <2>1, <3>1 DEF init_slot, UTypes
    <3>3. UTypes'
      BY <1>1, <1>2, <3>2, KernelAssumption, InputAssumption DEF UTypes, Labels
    <3>4. fn'[id] = "main" /\ upc'[id] = "entry"
      BY <1>2, <3>2 DEF UTypes
    <3>5. \A t \in Threads : Live(t)' <=> t = id
      BY <2>2, <3>1
    <3>6. id \notin in_getc
      BY <3>1 DEF PInv, GrantInv, GrantOf, NewThread
    <3>7. CodeOf(id)'
      BY <1>1, <1>6, <3>4, <3>6 DEF CodeOf, MainAt, Ending
    <3>8. Code' /\ OneMain' /\ Booting'
      BY <3>1, <3>5, <3>7 DEF Code, OneMain, Booting, NewThread
    <3>9. LiveWorkers = {} /\ LiveWorkers' = {} /\ InMain = {} /\ InMain' = {}
      BY <2>2, <3>4, <3>5 DEF LiveWorkers, Worker, InMain, Live
    <3>10. WorkerChars = {} /\ WorkerChars' = {} /\ OneEach'
      BY <3>9 DEF WorkerChars, OneEach
    <3>11. Served(WorkerChars, InMain, done, dropped, read)'
      BY <1>1, <3>9, <3>10 DEF PInv, UInv, Served
    <3>12. Prints(WorkerChars, done)'
      BY <1>1, <3>10 DEF PInv, UInv, Prints
    <3> QED  BY <3>3, <3>8, <3>10, <3>11, <3>12 DEF UInv
  <2> QED  BY <1>2, <2>1, <2>3, <2>4, CreateLives
<1> QED  BY <1>4, <1>5, <1>6 DEF Boot, start_kernel, vars

-----------------------------------------------------------------------------
(* At power-up no character has been read and no thread lives. *)
LEMMA InitUInv == UInit => UInv
<1> SUFFICES ASSUME UInit PROVE UInv
  OBVIOUS
<1>1. /\ \A t \in Threads : ~Live(t)
      /\ read = {} /\ done = {} /\ dropped = {}
      /\ printed = [x \in Chars |-> 0]
  BY DEF UInit, KInit, Init, Live, AllThreads
<1>2. UTypes
  BY KernelAssumption, InputAssumption, UserAssumption DEF UInit, UTypes, Labels
<1>3. LiveWorkers = {} /\ InMain = {}
  BY <1>1 DEF LiveWorkers, Worker, InMain, Live
<1>4. WorkerChars = {} /\ Code /\ OneMain /\ OneEach /\ Booting
  BY <1>1, <1>3 DEF WorkerChars, Code, OneMain, OneEach, Booting
<1>5. Served(WorkerChars, InMain, done, dropped, read)
  BY <1>1, <1>3, <1>4 DEF Served
<1>6. Prints(WorkerChars, done)
  BY <1>1, <1>4 DEF Prints
<1> QED  BY <1>2, <1>4, <1>5, <1>6 DEF UInv

(* Every step of the program on the kernel preserves the invariant. *)
LEMMA NextPInv == PInv /\ [UNext]_uvars => PInv'
<1> SUFFICES ASSUME PInv, [UNext]_uvars PROVE PInv'
  OBVIOUS
<1>1. KInv' /\ GrantInv' /\ InputInv'
  BY StepIsKernelStep, NextKInv, NextGrantInv, NextInputInv DEF PInv, UInv
<1>2. UInv'
  <2>1. CASE Boot
    BY <2>1, BootPreserves
  <2>2. CASE ThreadCode
    BY <2>2, EntryPreserves, GetcPreserves, GotPreserves, MainCreatePreserves,
       ExitPreserves, WorkerPreserves, LoopPreserves, PausePreserves,
       UndefinedPreserves, WorkerExitPreserves DEF ThreadCode
  <2>3. CASE Putc
    BY <2>3, PutcPreserves
  <2>4. CASE KernelStep
    BY <2>4, KernelStepPreserves
  <2>5. CASE UNCHANGED uvars
    <3>1. UNCHANGED <<status, kpc, after, running_thread, in_getc, read>>
      BY <2>5 DEF uvars, kvars, vars, cpu, history
    <3>2. UNCHANGED <<key, upc, fn, arg, this, c, i, printed, done, dropped>>
      BY <2>5 DEF uvars, locals, ended
    <3>3. SameLives /\ (\A t \in Threads : Ending(t)' <=> Ending(t)) /\ Booting'
      BY <3>1 DEF SameLives, Live, Ending, Booting, PInv, UInv
    <3> QED  BY <3>1, <3>2, <3>3, NobodyMoves
  <2> QED  BY <2>1, <2>2, <2>3, <2>4, <2>5 DEF UNext
<1> QED  BY <1>1, <1>2 DEF PInv

(***************************************************************************)
(* At power-up the invariants of the kernel and of the program hold.       *)
(***************************************************************************)
LEMMA InitPInv == UInit => PInv
<1>1. UInit => KInit
  BY DEF UInit
<1> QED  BY <1>1, InitUInv, InitKInv, InitGrantInv, InitInputInv DEF PInv

(***************************************************************************)
(* The invariants of the kernel and of main.c hold together.               *)
(***************************************************************************)
THEOREM PInvHolds == USpec => []PInv
BY InitPInv, NextPInv, PTL DEF USpec

(***************************************************************************)
(* main.c uses the kernel the way module Kernel allows any program to, so  *)
(* every theorem about the kernel holds of the system that is shipped.     *)
(***************************************************************************)
THEOREM ProgramUsesKernel == USpec => KSpec
<1>1. UInit => KInit
  BY DEF UInit
<1>2. PInv /\ [UNext]_uvars => [KNext]_kvars
  BY StepIsKernelStep DEF PInv, UInv
<1> QED  BY <1>1, <1>2, PInvHolds, PTL DEF USpec, KSpec

(* The invariant contains what the runs check of the program. *)
LEMMA UInvImplies == UInv => OneWorkerPerChar /\ PrintsExactly
<1> SUFFICES ASSUME UInv PROVE OneWorkerPerChar /\ PrintsExactly
  OBVIOUS
<1>1. Served(WorkerChars, InMain, done, dropped, read)
  BY DEF UInv
<1>2. PrintsExactly
  <2>1. UNION {{CharOf(t)} : t \in {u \in Threads : Worker(u)}} = WorkerChars
    BY DEF WorkerChars, LiveWorkers
  <2> QED  BY <2>1 DEF UInv, Prints, PrintsExactly
<1>3. ASSUME NEW x \in Chars
      PROVE  /\ Cardinality(Workers(x)) = IF x \in WorkerChars THEN 1 ELSE 0
             /\ \A S : Cardinality({x} \cap S) = IF x \in S THEN 1 ELSE 0
  <2>1. ASSUME x \in WorkerChars PROVE \E t : Workers(x) = {t}
    <3>1. PICK t \in LiveWorkers : CharOf(t) = x
      BY <2>1 DEF WorkerChars
    <3>2. Workers(x) = {t}
      BY <3>1 DEF UInv, OneEach, LiveWorkers, Workers
    <3> QED  BY <3>2
  <2>2. ASSUME x \notin WorkerChars PROVE Workers(x) = {}
    BY <2>2 DEF WorkerChars, LiveWorkers, Workers
  <2>3. \A S : {x} \cap S = IF x \in S THEN {x} ELSE {}
    OBVIOUS
  <2> QED  BY <2>1, <2>2, <2>3, FS_Singleton, FS_EmptySet
<1>4. ASSUME NEW x \in Chars
      PROVE  Cardinality(Workers(x)) + Cardinality({x} \cap InMain)
                 + Cardinality({x} \cap done) + Cardinality({x} \cap dropped)
             = IF x \in read /\ ~(key[x] = "S" /\ x \notin InMain) THEN 1 ELSE 0
  <2>1. /\ Cardinality(Workers(x)) = IF x \in WorkerChars THEN 1 ELSE 0
        /\ Cardinality({x} \cap InMain) = IF x \in InMain THEN 1 ELSE 0
        /\ Cardinality({x} \cap done) = IF x \in done THEN 1 ELSE 0
        /\ Cardinality({x} \cap dropped) = IF x \in dropped THEN 1 ELSE 0
    BY <1>3
  <2> QED  BY <1>1, <2>1 DEF Served
<1> QED  BY <1>2, <1>4 DEF OneWorkerPerChar

(***************************************************************************)
(* Whatever main reads while earlier workers have not even started, each   *)
(* character it has read has exactly one worker, had one or was dropped    *)
(* for want of a slot, and there is no worker for anything else.           *)
(***************************************************************************)
THEOREM EachCharOneWorker == USpec => []OneWorkerPerChar
BY PInvHolds, UInvImplies, PTL DEF PInv

(***************************************************************************)
(* However the workers are preempted, sleep and end, each prints its own   *)
(* character exactly as often as main.c says.                              *)
(***************************************************************************)
THEOREM EachPrintCounts == USpec => []PrintsExactly
BY PInvHolds, UInvImplies, PTL DEF PInv
=============================================================================
