--------------------------- MODULE SchedulerProofs ---------------------------
(***************************************************************************)
(* Proofs about the scheduler: its queue discipline holds for any number   *)
(* of threads, any sleep arguments and any schedule of interrupts and      *)
(* system calls.                                                           *)
(*                                                                         *)
(* Each scheduler function takes the state apart and puts it together in   *)
(* two moves: the running thread leaves the CPU for a queue, or for        *)
(* nowhere, and the head of the run queue takes the CPU.  Between the two  *)
(* moves no thread is running.  Placed states the discipline of explicit   *)
(* values, so that the half-way point can be written down, and there is    *)
(* one lemma for each move.                                                *)
(***************************************************************************)
EXTENDS Scheduler, DataLemmas

Placed(st, rq, sq, wq, run) ==
    /\ st \in [AllThreads -> thread_status]
    /\ rq \in Seq(Threads) /\ IsInjective(rq)
    /\ sq \in Seq(Threads) /\ IsInjective(sq)
    /\ wq \in Seq(Threads) /\ IsInjective(wq)
    /\ \A t \in Threads : t \in Range(rq) <=> st[t] = "READY"
    /\ \A t \in Threads : t \in Range(sq) <=> st[t] = "SLEEPING"
    /\ \A t \in Threads : t \in Range(wq) <=> st[t] = "WAITING"
    /\ \A t \in AllThreads : st[t] = "RUNNING" <=> t = run

-----------------------------------------------------------------------------
(* A free slot becomes a READY thread at the end of the run queue. *)
LEMMA SpawnLemma ==
    ASSUME NEW st, NEW rq, NEW sq, NEW wq, NEW run, NEW id \in Threads,
           Placed(st, rq, sq, wq, run), st[id] = "TERMINATED"
    PROVE  Placed([st EXCEPT ![id] = "READY"], Append(rq, id), sq, wq, run)
<1>1. id \notin Range(rq)
  BY DEF Placed
<1>2. /\ Append(rq, id) \in Seq(Threads)
      /\ Range(Append(rq, id)) = Range(rq) \cup {id}
      /\ IsInjective(Append(rq, id))
  BY <1>1, EnqueueLemma DEF Placed
<1> QED  BY <1>2 DEF Placed, AllThreads, thread_status

(* The running thread ends. *)
LEMMA EndLemma ==
    ASSUME NEW st, NEW rq, NEW sq, NEW wq, NEW run \in Threads,
           Placed(st, rq, sq, wq, run)
    PROVE  Placed([st EXCEPT ![run] = "TERMINATED"], rq, sq, wq, NULL)
BY IdleAssumption DEF Placed, AllThreads, thread_status

(* The running thread goes to sleep. *)
LEMMA SleepLemma ==
    ASSUME NEW st, NEW rq, NEW sq, NEW wq, NEW run \in Threads,
           Placed(st, rq, sq, wq, run)
    PROVE  Placed([st EXCEPT ![run] = "SLEEPING"], rq, Append(sq, run), wq, NULL)
<1>1. run \notin Range(sq)
  BY DEF Placed, AllThreads
<1>2. /\ Append(sq, run) \in Seq(Threads)
      /\ Range(Append(sq, run)) = Range(sq) \cup {run}
      /\ IsInjective(Append(sq, run))
  BY <1>1, EnqueueLemma DEF Placed
<1> QED  BY <1>2, IdleAssumption DEF Placed, AllThreads, thread_status

(* The running thread waits for an event. *)
LEMMA WaitLemma ==
    ASSUME NEW st, NEW rq, NEW sq, NEW wq, NEW run \in Threads,
           Placed(st, rq, sq, wq, run)
    PROVE  Placed([st EXCEPT ![run] = "WAITING"], rq, sq, Append(wq, run), NULL)
<1>1. run \notin Range(wq)
  BY DEF Placed, AllThreads
<1>2. /\ Append(wq, run) \in Seq(Threads)
      /\ Range(Append(wq, run)) = Range(wq) \cup {run}
      /\ IsInjective(Append(wq, run))
  BY <1>1, EnqueueLemma DEF Placed
<1> QED  BY <1>2, IdleAssumption DEF Placed, AllThreads, thread_status

(* The running thread gives up the CPU and stays ready. *)
LEMMA RequeueLemma ==
    ASSUME NEW st, NEW rq, NEW sq, NEW wq, NEW run \in Threads,
           Placed(st, rq, sq, wq, run)
    PROVE  Placed([st EXCEPT ![run] = "READY"], Append(rq, run), sq, wq, NULL)
<1>1. run \notin Range(rq)
  BY DEF Placed, AllThreads
<1>2. /\ Append(rq, run) \in Seq(Threads)
      /\ Range(Append(rq, run)) = Range(rq) \cup {run}
      /\ IsInjective(Append(rq, run))
  BY <1>1, EnqueueLemma DEF Placed
<1> QED  BY <1>2, IdleAssumption DEF Placed, AllThreads, thread_status

(* The idle thread, which is on no queue, is initialised or leaves the CPU. *)
LEMMA IdleLemma ==
    ASSUME NEW st, NEW rq, NEW sq, NEW wq, NEW run \in {idle_thread, NULL},
           Placed(st, rq, sq, wq, run)
    PROVE  Placed([st EXCEPT ![idle_thread] = "READY"], rq, sq, wq, NULL)
BY IdleAssumption DEF Placed, AllThreads, thread_status

(* The next thread takes the CPU nobody has. *)
LEMMA DispatchLemma ==
    ASSUME NEW st, NEW rq, NEW sq, NEW wq,
           Placed(st, rq, sq, wq, NULL)
    PROVE  LET next == scheduler_get_next_thread(rq) IN
           /\ next \in AllThreads
           /\ Placed([st EXCEPT ![next] = "RUNNING"], list_remove_first(rq),
                     sq, wq, next)
<1>1. CASE rq = <<>>
  BY <1>1, IdleAssumption
  DEF Placed, AllThreads, thread_status, scheduler_get_next_thread,
      list_remove_first
<1>2. CASE rq # <<>>
  <2>1. /\ Head(rq) \in Threads
        /\ Head(rq) \in Range(rq)
        /\ Tail(rq) \in Seq(Threads)
        /\ IsInjective(Tail(rq))
        /\ Range(Tail(rq)) = Range(rq) \ {Head(rq)}
    BY <1>2, DequeueLemma DEF Placed
  <2>2. Placed([st EXCEPT ![Head(rq)] = "RUNNING"], Tail(rq), sq, wq, Head(rq))
    BY <2>1, IdleAssumption DEF Placed, AllThreads, thread_status
  <2> QED  BY <1>2, <2>1, <2>2
           DEF scheduler_get_next_thread, list_remove_first, AllThreads
<1> QED  BY <1>1, <1>2

(* The first waiting thread becomes ready. *)
LEMMA NotifyLemma ==
    ASSUME NEW st, NEW rq, NEW sq, NEW wq, NEW run,
           Placed(st, rq, sq, wq, run), wq # <<>>
    PROVE  /\ Head(wq) \in Threads
           /\ st[Head(wq)] = "WAITING"
           /\ Placed([st EXCEPT ![Head(wq)] = "READY"], Append(rq, Head(wq)),
                     sq, Tail(wq), run)
<1>1. /\ Head(wq) \in Threads
      /\ Head(wq) \in Range(wq)
      /\ Tail(wq) \in Seq(Threads)
      /\ IsInjective(Tail(wq))
      /\ Range(Tail(wq)) = Range(wq) \ {Head(wq)}
  BY DequeueLemma DEF Placed
<1>2. st[Head(wq)] = "WAITING" /\ Head(wq) \notin Range(rq)
  BY <1>1 DEF Placed
<1>3. /\ Append(rq, Head(wq)) \in Seq(Threads)
      /\ Range(Append(rq, Head(wq))) = Range(rq) \cup {Head(wq)}
      /\ IsInjective(Append(rq, Head(wq)))
  BY <1>1, <1>2, EnqueueLemma DEF Placed
<1> QED  BY <1>1, <1>2, <1>3 DEF Placed, AllThreads, thread_status

(* A sleeper, at position i of its queue, becomes ready. *)
LEMMA WakeLemma ==
    ASSUME NEW st, NEW rq, NEW sq, NEW wq, NEW run, NEW i, NEW t,
           Placed(st, rq, sq, wq, run), i \in 1 .. Len(sq), t = sq[i]
    PROVE  /\ t \in Threads
           /\ st[t] = "SLEEPING"
           /\ Len(RemoveAt(sq, i)) = Len(sq) - 1
           /\ Placed([st EXCEPT ![t] = "READY"], Append(rq, t),
                     RemoveAt(sq, i), wq, run)
<1>1. /\ t \in Threads
      /\ t \in Range(sq)
      /\ RemoveAt(sq, i) \in Seq(Threads)
      /\ Len(RemoveAt(sq, i)) = Len(sq) - 1
      /\ IsInjective(RemoveAt(sq, i))
      /\ Range(RemoveAt(sq, i)) = Range(sq) \ {t}
  BY UnlinkLemma DEF Placed
<1>2. st[t] = "SLEEPING" /\ t \notin Range(rq)
  BY <1>1 DEF Placed
<1>3. /\ Append(rq, t) \in Seq(Threads)
      /\ Range(Append(rq, t)) = Range(rq) \cup {t}
      /\ IsInjective(Append(rq, t))
  BY <1>1, <1>2, EnqueueLemma DEF Placed
<1> QED  BY <1>1, <1>2, <1>3 DEF Placed, AllThreads, thread_status

-----------------------------------------------------------------------------
(***************************************************************************)
(* The inductive invariant.  To the queue discipline it adds the types of  *)
(* the variables Placed does not mention and when the scheduler has        *)
(* started: while is_running is false no thread runs and no tick is under  *)
(* way, and from scheduler_start on there is always a running thread.      *)
(***************************************************************************)
Data ==
    /\ sleep_counter \in [AllThreads -> Nat]
    /\ context \in [AllThreads -> Words]
    /\ exception_frame \in Words

Started ==
    /\ is_running \in BOOLEAN
    /\ is_running => running_thread \in AllThreads
    /\ ~is_running => running_thread = NULL /\ cur = 0

IInv ==
    /\ Placed(status, run_queue, sleep_queue, wait_queue, running_thread)
    /\ Data
    /\ Started
    /\ cur \in 0 .. Len(sleep_queue) + 1

(* The invariant contains what the runs check of scheduler.c. *)
LEMMA IInvImplies == IInv => TypeOK /\ QueueDiscipline /\ NotifiedNotRunning
<1> SUFFICES ASSUME IInv PROVE TypeOK /\ QueueDiscipline /\ NotifiedNotRunning
  OBVIOUS
<1>1. TypeOK
  BY DEF IInv, Placed, Data, Started, TypeOK
<1>2. QueueDiscipline
  BY DEF IInv, Placed, QueueDiscipline, QueueMatchesStatus, NoThreadTwice,
         OneRunning
<1>3. NotifiedNotRunning
  <2>1. ASSUME wait_queue # <<>> PROVE status[Head(wait_queue)] = "WAITING"
    BY <2>1, NotifyLemma DEF IInv
  <2> QED  BY <2>1 DEF NotifiedNotRunning
<1> QED  BY <1>1, <1>2, <1>3

(* Zeroed static storage satisfies it. *)
LEMMA InitIInv == Init => IInv
<1> SUFFICES ASSUME Init PROVE IInv
  OBVIOUS
<1>1. <<>> \in Seq(Threads) /\ IsInjective(<<>>) /\ Range(<<>>) = {}
  BY DEF IsInjective, Range
<1>2. Placed(status, run_queue, sleep_queue, wait_queue, running_thread)
  BY <1>1, IdleAssumption DEF Init, Placed, AllThreads, thread_status
<1>3. Data
  BY InputAssumption DEF Init, Data
<1>4. Started
  BY Zenon DEF Init, Started
<1>5. cur \in 0 .. Len(sleep_queue) + 1
  BY DEF Init
<1> QED  BY <1>2, <1>3, <1>4, <1>5 DEF IInv

-----------------------------------------------------------------------------
(* One lemma per scheduler function: it preserves the invariant. *)

LEMMA CreatePreserves == IInv /\ scheduler_thread_create => IInv'
<1> SUFFICES ASSUME IInv, scheduler_thread_create PROVE IInv'
  OBVIOUS
<1>1. Placed(status', run_queue', sleep_queue', wait_queue', running_thread')
  <2>1. CASE UNCHANGED <<context, status, run_queue>>
    BY <2>1 DEF IInv, scheduler_thread_create
  <2>2. ASSUME NEW id \in Threads, find_free_thread_id(id),
               status' = [status EXCEPT ![id] = "READY"],
               run_queue' = Append(run_queue, id)
        PROVE  Placed(status', run_queue', sleep_queue', wait_queue',
                      running_thread')
    BY <2>2, SpawnLemma DEF IInv, scheduler_thread_create, find_free_thread_id
  <2> QED  BY <2>1, <2>2 DEF scheduler_thread_create, thread_init
<1>2. Data'
  BY InputAssumption DEF IInv, Data, scheduler_thread_create, AllThreads
<1>3. Started' /\ cur' \in 0 .. Len(sleep_queue') + 1
  BY DEF IInv, Started, scheduler_thread_create
<1> QED  BY <1>1, <1>2, <1>3 DEF IInv

(***************************************************************************)
(* scheduler_run_next, called when the thread that ran has been put away   *)
(* as st, ctx and the queues rq, sq and wq say.                            *)
(***************************************************************************)
LEMMA RunNextPreserves ==
    ASSUME NEW st, NEW ctx \in [AllThreads -> Words], NEW rq,
           Placed(st, rq, sleep_queue', wait_queue', NULL),
           scheduler_run_next(scheduler_get_next_thread(rq), st, ctx),
           run_queue' = list_remove_first(rq)
    PROVE  /\ Placed(status', run_queue', sleep_queue', wait_queue',
                     running_thread')
           /\ running_thread' \in AllThreads
           /\ context' \in [AllThreads -> Words]
           /\ exception_frame' \in Words
BY DispatchLemma DEF scheduler_run_next,
         scheduler_replace_irq_context

(* In a user thread the running thread is one of the slots. *)
LEMMA UserThreadIsThread ==
    IInv /\ InUserThread => running_thread \in Threads
BY DEF IInv, Started, InUserThread, AllThreads

(* scheduler_save_thread_context stores a word. *)
LEMMA SavedContextType ==
    IInv => saved_context \in [AllThreads -> Words]
BY DEF IInv, Data, saved_context

(* scheduler_thread_terminate_running_from_irq *)
LEMMA TerminatePreserves ==
    IInv /\ InUserThread /\ scheduler_thread_terminate_running_from_irq => IInv'
<1> SUFFICES ASSUME IInv, InUserThread,
                    scheduler_thread_terminate_running_from_irq
             PROVE  IInv'
  OBVIOUS
<1> USE DEF scheduler_thread_terminate_running_from_irq
<1>1. Placed(saved_status("TERMINATED"), run_queue, sleep_queue', wait_queue', NULL)
  BY UserThreadIsThread, EndLemma DEF IInv, saved_status
<1>2. context \in [AllThreads -> Words]
  BY DEF IInv, Data
<1>3. /\ Placed(status', run_queue', sleep_queue', wait_queue', running_thread')
      /\ running_thread' \in AllThreads
      /\ context' \in [AllThreads -> Words]
      /\ exception_frame' \in Words
  BY <1>1, <1>2, RunNextPreserves
<1>4. Data'
  BY <1>3 DEF IInv, Data
<1>5. Started' /\ cur' \in 0 .. Len(sleep_queue') + 1
  BY <1>3 DEF IInv, Started, InUserThread
<1> QED  BY <1>3, <1>4, <1>5 DEF IInv

(* scheduler_sleep_running_from_irq *)
LEMMA SleepPreserves ==
    ASSUME NEW cycles \in SleepArgs, IInv, SleepCall(cycles)
    PROVE  IInv'
<1> USE DEF SleepCall, scheduler_sleep_running_from_irq
<1>0. running_thread \in Threads
  BY UserThreadIsThread
<1>1. Placed(saved_status("SLEEPING"), run_queue, sleep_queue', wait_queue', NULL)
  BY <1>0, SleepLemma DEF IInv, saved_status
<1>2. saved_context \in [AllThreads -> Words]
  BY SavedContextType
<1>3. /\ Placed(status', run_queue', sleep_queue', wait_queue', running_thread')
      /\ running_thread' \in AllThreads
      /\ context' \in [AllThreads -> Words]
      /\ exception_frame' \in Words
  BY <1>1, <1>2, RunNextPreserves
<1>4. Data'
  BY <1>3, InputAssumption DEF IInv, Data
<1>5. Len(sleep_queue') = Len(sleep_queue) + 1 /\ Len(sleep_queue) \in Nat
  BY <1>0, AppendProperties, LenProperties DEF IInv, Placed
<1>6. Started' /\ cur' \in 0 .. Len(sleep_queue') + 1
  BY <1>3, <1>5 DEF IInv, Started, InUserThread
<1> QED  BY <1>3, <1>4, <1>6 DEF IInv

(* scheduler_wait_running_from_irq *)
LEMMA WaitPreserves ==
    IInv /\ InUserThread /\ scheduler_wait_running_from_irq => IInv'
<1> SUFFICES ASSUME IInv, InUserThread, scheduler_wait_running_from_irq
             PROVE  IInv'
  OBVIOUS
<1> USE DEF scheduler_wait_running_from_irq
<1>1. Placed(saved_status("WAITING"), run_queue, sleep_queue', wait_queue', NULL)
  BY UserThreadIsThread, WaitLemma DEF IInv, saved_status
<1>2. saved_context \in [AllThreads -> Words]
  BY SavedContextType
<1>3. /\ Placed(status', run_queue', sleep_queue', wait_queue', running_thread')
      /\ running_thread' \in AllThreads
      /\ context' \in [AllThreads -> Words]
      /\ exception_frame' \in Words
  BY <1>1, <1>2, RunNextPreserves
<1>4. Data'
  BY <1>3 DEF IInv, Data
<1>5. Started' /\ cur' \in 0 .. Len(sleep_queue') + 1
  BY <1>3 DEF IInv, Started, InUserThread
<1> QED  BY <1>3, <1>4, <1>5 DEF IInv

(* scheduler_prepare_svc_return *)
LEMMA SvcReturnPreserves ==
    ASSUME NEW value \in Words, IInv, scheduler_prepare_svc_return(value)
    PROVE  IInv'
BY DEF IInv, Data, Started, scheduler_prepare_svc_return

(* scheduler_notify_one_from_irq *)
LEMMA NotifyPreserves ==
    ASSUME NEW value \in Words, IInv, scheduler_notify_one_from_irq(value)
    PROVE  IInv'
<1> USE DEF scheduler_notify_one_from_irq
<1>1. /\ Head(wait_queue) \in Threads
      /\ Placed(status', run_queue', sleep_queue', wait_queue', running_thread')
  BY NotifyLemma DEF IInv
<1>2. Data'
  BY <1>1 DEF IInv, Data, AllThreads
<1>3. Started' /\ cur' \in 0 .. Len(sleep_queue') + 1
  BY DEF IInv, Started
<1> QED  BY <1>1, <1>2, <1>3 DEF IInv

-----------------------------------------------------------------------------
(* The entry of scheduler_tick_from_irq *)
LEMMA TickPreserves == IInv /\ scheduler_tick_from_irq => IInv'
<1> SUFFICES ASSUME IInv, scheduler_tick_from_irq PROVE IInv'
  OBVIOUS
<1> USE DEF scheduler_tick_from_irq
<1>1. Len(sleep_queue) \in Nat
  BY LenProperties DEF IInv, Placed
<1> QED  BY <1>1 DEF IInv, Data, Started

(***************************************************************************)
(* One round of the sleeper scan.  Unlinking the thread under the cursor   *)
(* shortens the list, so the cursor stays within it; passing a thread      *)
(* decrements a counter that is not zero.                                  *)
(***************************************************************************)
LEMMA ScanPreserves == IInv /\ scheduler_update_sleepers => IInv'
<1> SUFFICES ASSUME IInv, scheduler_update_sleepers PROVE IInv'
  OBVIOUS
<1> DEFINE thread == sleep_queue[cur]
<1>0. Len(sleep_queue) \in Nat /\ cur \in 1 .. Len(sleep_queue)
  BY LenProperties DEF IInv, Placed, scheduler_update_sleepers
<1>1. /\ thread \in Threads
      /\ Len(RemoveAt(sleep_queue, cur)) = Len(sleep_queue) - 1
      /\ Placed([status EXCEPT ![thread] = "READY"], Append(run_queue, thread),
                RemoveAt(sleep_queue, cur), wait_queue, running_thread)
  <2>1. Placed(status, run_queue, sleep_queue, wait_queue, running_thread)
    BY DEF IInv
  <2>2. thread = sleep_queue[cur]
    OBVIOUS
  <2> HIDE DEF thread
  <2> QED  BY <1>0, <2>1, <2>2, WakeLemma
<1>2. CASE /\ sleep_queue' = RemoveAt(sleep_queue, cur)
           /\ run_queue' = Append(run_queue, thread)
           /\ status' = [status EXCEPT ![thread] = "READY"]
           /\ UNCHANGED <<sleep_counter, cur>>
  BY <1>0, <1>1, <1>2 DEF IInv, Data, Started, scheduler_update_sleepers
<1>3. CASE /\ sleep_counter[thread] # 0
           /\ sleep_counter' = [sleep_counter EXCEPT ![thread] = @ - 1]
           /\ cur' = cur + 1
           /\ UNCHANGED <<sleep_queue, run_queue, status>>
  <2>1. Data'
    BY <1>1, <1>3 DEF IInv, Data, AllThreads, scheduler_update_sleepers
  <2> QED  BY <1>0, <1>3, <2>1 DEF IInv, Started, scheduler_update_sleepers
<1> QED  BY <1>2, <1>3 DEF scheduler_update_sleepers

(***************************************************************************)
(* When the tick picks the thread that runs already, its run queue was     *)
(* empty and is so again.                                                  *)
(***************************************************************************)
LEMMA SameThreadAgain ==
    ASSUME IInv, is_running, scheduler_get_next_thread(requeued) = running_thread
    PROVE  list_remove_first(requeued) = run_queue
<1>1. running_thread \in AllThreads /\ run_queue \in Seq(Threads)
  BY DEF IInv, Started, Placed
<1>2. ASSUME run_queue # <<>>
      PROVE  Head(run_queue) \in Threads /\ Head(run_queue) # running_thread
  <2>1. Head(run_queue) \in Threads /\ Head(run_queue) \in Range(run_queue)
    BY <1>1, <1>2, DequeueLemma
  <2>2. status[Head(run_queue)] = "READY" /\ status[running_thread] = "RUNNING"
    BY <1>1, <2>1 DEF IInv, Placed
  <2> QED  BY <2>1, <2>2
<1>3. CASE running_thread = idle_thread
  BY <1>2, <1>3 DEF requeued, scheduler_get_next_thread, list_remove_first
<1>4. CASE running_thread # idle_thread
  <2>1. requeued = Append(run_queue, running_thread) /\ requeued # <<>>
    BY <1>1, <1>4, AppendProperties DEF requeued, AllThreads
  <2>2. /\ Head(requeued) = IF run_queue = <<>> THEN running_thread
                                                ELSE Head(run_queue)
        /\ Tail(requeued) = IF run_queue = <<>> THEN <<>>
                            ELSE Append(Tail(run_queue), running_thread)
    BY <1>1, <2>1, HeadTailAppend
  <2>3. run_queue = <<>>
    BY <1>2, <2>1, <2>2 DEF scheduler_get_next_thread
  <2> QED  BY <2>1, <2>2, <2>3 DEF list_remove_first
<1> QED  BY <1>3, <1>4

(* The switch at the end of scheduler_tick_from_irq *)
LEMMA SwitchPreserves == IInv /\ scheduler_switch_from_tick => IInv'
<1> SUFFICES ASSUME IInv, scheduler_switch_from_tick PROVE IInv'
  OBVIOUS
<1> DEFINE next_thread == scheduler_get_next_thread(requeued)
<1>0. Len(sleep_queue) \in Nat /\ cur' = 0 /\ is_running
  BY LenProperties DEF IInv, Placed, Started, scheduler_switch_from_tick
<1>1. CASE next_thread = running_thread
  <2>1. UNCHANGED <<status, context, exception_frame, running_thread>>
    BY <1>1 DEF scheduler_switch_from_tick
  <2>2. run_queue' = run_queue
    BY <1>0, <1>1, SameThreadAgain DEF scheduler_switch_from_tick
  <2> QED  BY <1>0, <2>1, <2>2 DEF IInv, Data, Started, scheduler_switch_from_tick
<1>2. CASE next_thread # running_thread
  <2>1. Placed(saved_status("READY"), requeued, sleep_queue', wait_queue', NULL)
    <3>1. CASE running_thread = idle_thread
      BY <3>1, IdleLemma DEF IInv, saved_status, requeued, scheduler_switch_from_tick
    <3>2. CASE running_thread # idle_thread
      <4>1. running_thread \in Threads
        BY <1>0, <3>2 DEF IInv, Started, AllThreads
      <4> QED  BY <3>2, <4>1, RequeueLemma
               DEF IInv, saved_status, requeued, scheduler_switch_from_tick
    <3> QED  BY <3>1, <3>2
  <2>2. saved_context \in [AllThreads -> Words]
    BY SavedContextType
  <2>3. /\ Placed(status', run_queue', sleep_queue', wait_queue', running_thread')
        /\ running_thread' \in AllThreads
        /\ context' \in [AllThreads -> Words]
        /\ exception_frame' \in Words
    BY <1>2, <2>1, <2>2, RunNextPreserves DEF scheduler_switch_from_tick
  <2> QED  BY <1>0, <2>3 DEF IInv, Data, Started, scheduler_switch_from_tick
<1> QED  BY <1>1, <1>2

(* scheduler_start *)
LEMMA StartPreserves == IInv /\ ~is_running /\ scheduler_start => IInv'
<1> SUFFICES ASSUME IInv, ~is_running, scheduler_start PROVE IInv'
  OBVIOUS
<1> DEFINE st == [status EXCEPT ![idle_thread] = "READY"]
           thread == scheduler_get_next_thread(run_queue)
<1>1. Placed(st, run_queue, sleep_queue, wait_queue, NULL)
  BY IdleLemma DEF IInv, Started
<1>2. /\ thread \in AllThreads
      /\ Placed([st EXCEPT ![thread] = "RUNNING"], list_remove_first(run_queue),
                sleep_queue, wait_queue, thread)
  BY <1>1, DispatchLemma
<1>3. Placed(status', run_queue', sleep_queue', wait_queue', running_thread')
  BY <1>2 DEF scheduler_start, thread_run,
         thread_init
<1> QED  BY <1>2, <1>3 DEF IInv, Data, Started, scheduler_start, thread_run

-----------------------------------------------------------------------------
(* Every step preserves the invariant. *)
THEOREM NextPreserves == IInv /\ [Next]_vars => IInv'
<1> SUFFICES ASSUME IInv, [Next]_vars PROVE IInv'
  OBVIOUS
<1>1. CASE BootCreate
  BY <1>1, CreatePreserves DEF BootCreate
<1>2. CASE BootStart
  BY <1>2, StartPreserves DEF BootStart
<1>3. CASE SvcOrFault
  BY <1>3, CreatePreserves, TerminatePreserves, WaitPreserves,
     SvcReturnPreserves DEF SvcOrFault
<1>4. ASSUME NEW cycles \in SleepArgs, SleepCall(cycles) PROVE IInv'
  BY <1>4, SleepPreserves
<1>5. CASE Notify
  BY <1>5, NotifyPreserves DEF Notify
<1>6. CASE scheduler_tick_from_irq
  BY <1>6, TickPreserves
<1>7. CASE TickWork
  BY <1>7, ScanPreserves, SwitchPreserves DEF TickWork
<1>8. CASE UNCHANGED vars
  BY <1>8 DEF IInv, Data, Started, vars
<1> QED  BY <1>1, <1>2, <1>3, <1>4, <1>5, <1>6, <1>7, <1>8 DEF Next

(* The invariant of scheduler.c holds between any two of its steps. *)
THEOREM IInvHolds == Spec => []IInv
BY InitIInv, NextPreserves, PTL DEF Spec

(***************************************************************************)
(* The variables of scheduler.c keep their types: the queues hold slots    *)
(* only, never the idle thread, sleep_counter is not decremented below     *)
(* zero and the scan stays within the sleep queue.                         *)
(***************************************************************************)
THEOREM TypeCorrect == Spec => []TypeOK
BY IInvHolds, IInvImplies, PTL

(***************************************************************************)
(* Whatever system calls, faults, notifications and ticks come in whatever *)
(* order, every live thread is in exactly one place.                       *)
(***************************************************************************)
THEOREM QueuesCorrect == Spec => []QueueDiscipline
BY IInvHolds, IInvImplies, PTL

(***************************************************************************)
(* The comment at the test in scheduler_notify_one_from_irq is true: the   *)
(* kernel never hangs there.                                               *)
(***************************************************************************)
THEOREM NotifyNeverHangs == Spec => []NotifiedNotRunning
BY IInvHolds, IInvImplies, PTL
=============================================================================
