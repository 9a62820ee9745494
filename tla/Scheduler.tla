----------------------------- MODULE Scheduler -----------------------------
(***************************************************************************)
(* The thread scheduler: kernel/threading/scheduler.c with the parts of    *)
(* thread.c and lib/list.h it uses.                                        *)
(*                                                                         *)
(* The three lists (run_queue, sleep_queue and the one wait queue of the   *)
(* system, uart_wait_queue) are sequences of threads: a thread's node      *)
(* `queue' is what the code links.  Of a thread's registers only r0 is     *)
(* kept, the one the kernel itself writes; the switch treats the others    *)
(* alike.                                                                  *)
(*                                                                         *)
(* Every function below runs with interrupts masked.  All but the tick are *)
(* one step.  The tick is the loop of scheduler_update_sleepers, one step  *)
(* per list node, and the switch after it; `cur' tells where the loop is   *)
(* and no other scheduler function runs before the tick is over.           *)
(***************************************************************************)
EXTENDS Naturals, SequencesExt

CONSTANTS
    NUM_THREADS,    \* slots of scheduler_threads
    idle_thread,    \* the idle thread, which has no slot
    NULL,           \* running_thread before scheduler_start
    SleepArgs,      \* arguments user threads pass to sleep
    Words           \* contents of r0

Threads == 0 .. NUM_THREADS - 1

AllThreads == Threads \cup {idle_thread}

ASSUME NumThreadsAssumption == NUM_THREADS \in Nat \ {0}

ASSUME IdleAssumption == idle_thread \notin Threads /\ NULL \notin AllThreads

ASSUME InputAssumption == SleepArgs \subseteq Nat /\ 0 \in Words

VARIABLES
    status,           \* thread->status
    sleep_counter,    \* thread->sleep_counter
    context,          \* thread->context.r0
    exception_frame,  \* exception_frame->r0: r0 of the running thread
    running_thread,
    is_running,
    run_queue,
    sleep_queue,
    wait_queue,       \* uart_wait_queue
    cur               \* position of the sleeper scan, 0 outside a tick

vars == <<status, sleep_counter, context, exception_frame, running_thread,
          is_running, run_queue, sleep_queue, wait_queue, cur>>

thread_status == {"TERMINATED", "READY", "RUNNING", "WAITING", "SLEEPING"}

(***************************************************************************)
(* Static storage is zero: every slot TERMINATED, the lists empty.         *)
(***************************************************************************)
Init ==
    /\ status = [t \in AllThreads |-> "TERMINATED"]
    /\ sleep_counter = [t \in AllThreads |-> 0]
    /\ context = [t \in AllThreads |-> 0]
    /\ exception_frame = 0
    /\ running_thread = NULL
    /\ is_running = FALSE
    /\ run_queue = <<>>
    /\ sleep_queue = <<>>
    /\ wait_queue = <<>>
    /\ cur = 0

-----------------------------------------------------------------------------
(***************************************************************************)
(* list_remove_first on a queue q, with the idle thread standing in for    *)
(* NULL: the thread chosen and the queue that is left.                     *)
(***************************************************************************)
scheduler_get_next_thread(q) == IF q = <<>> THEN idle_thread ELSE Head(q)

list_remove_first(q) == IF q = <<>> THEN q ELSE Tail(q)

(***************************************************************************)
(* scheduler_save_current(s) and the scheduler_save_thread_context it ends *)
(* with: the two fields of the running thread after it, as functions on    *)
(* all threads.                                                            *)
(***************************************************************************)
saved_status(s) == [status EXCEPT ![running_thread] = s]

saved_context == [context EXCEPT ![running_thread] = exception_frame]

(***************************************************************************)
(* scheduler_run_next, started from the statuses st and contexts ctx its   *)
(* caller has left.                                                        *)
(***************************************************************************)
scheduler_replace_irq_context(next_thread, ctx) ==
    exception_frame' = ctx[next_thread]

scheduler_run_next(next_thread, st, ctx) ==
    /\ status' = [st EXCEPT ![next_thread] = "RUNNING"]
    /\ running_thread' = next_thread
    /\ context' = ctx
    /\ scheduler_replace_irq_context(next_thread, ctx)

(***************************************************************************)
(* thread_init makes the thread READY.  The entry point and the stack with *)
(* the copied argument that it also prepares are not modelled.             *)
(***************************************************************************)
thread_init(thread) == [status EXCEPT ![thread] = "READY"]

(***************************************************************************)
(* find_free_thread_id returns the lowest TERMINATED slot.                 *)
(***************************************************************************)
find_free_thread_id(id) ==
    /\ status[id] = "TERMINATED"
    /\ \A j \in 0 .. id - 1 : status[j] # "TERMINATED"

(***************************************************************************)
(* A new thread starts with a zeroed context at the end of the run queue;  *)
(* without a free slot the call only prints a message.                     *)
(***************************************************************************)
scheduler_thread_create ==
    /\ \/ \E id \in Threads :
            /\ find_free_thread_id(id)
            /\ context' = [context EXCEPT ![id] = 0]
            /\ status' = thread_init(id)
            /\ run_queue' = Append(run_queue, id)
       \/ /\ \A id \in Threads : status[id] # "TERMINATED"
          /\ UNCHANGED <<context, status, run_queue>>
    /\ UNCHANGED <<sleep_counter, exception_frame, running_thread, is_running,
                   sleep_queue, wait_queue, cur>>

scheduler_thread_terminate_running_from_irq ==
    /\ scheduler_run_next(scheduler_get_next_thread(run_queue),
                          saved_status("TERMINATED"), context)
    /\ run_queue' = list_remove_first(run_queue)
    /\ UNCHANGED <<sleep_counter, is_running, sleep_queue, wait_queue, cur>>

scheduler_sleep_running_from_irq(cycles) ==
    /\ sleep_counter' = [sleep_counter EXCEPT ![running_thread] = cycles]
    /\ sleep_queue' = Append(sleep_queue, running_thread)
    /\ scheduler_run_next(scheduler_get_next_thread(run_queue),
                          saved_status("SLEEPING"), saved_context)
    /\ run_queue' = list_remove_first(run_queue)
    /\ UNCHANGED <<is_running, wait_queue, cur>>

(* Mutant: without a ready thread the caller is left running. *)
wait_without_switch ==
    /\ wait_queue' = Append(wait_queue, running_thread)
    /\ \/ /\ run_queue = <<>>
          /\ UNCHANGED <<status, context, exception_frame, running_thread>>
       \/ /\ run_queue # <<>>
          /\ scheduler_run_next(Head(run_queue), saved_status("WAITING"),
                                saved_context)
    /\ run_queue' = list_remove_first(run_queue)
    /\ UNCHANGED <<sleep_counter, is_running, sleep_queue, cur>>

scheduler_wait_running_from_irq ==
    /\ wait_queue' = Append(wait_queue, running_thread)
    /\ scheduler_run_next(scheduler_get_next_thread(run_queue),
                          saved_status("WAITING"), saved_context)
    /\ run_queue' = list_remove_first(run_queue)
    /\ UNCHANGED <<sleep_counter, is_running, sleep_queue, cur>>

scheduler_prepare_svc_return(value) ==
    /\ exception_frame' = value
    /\ UNCHANGED <<status, sleep_counter, context, running_thread, is_running,
                   run_queue, sleep_queue, wait_queue, cur>>

(* Mutant: the woken thread jumps the queue. *)
notify_at_front(value) ==
    /\ wait_queue # <<>>
    /\ context' = [context EXCEPT ![Head(wait_queue)] = value]
    /\ status' = [status EXCEPT ![Head(wait_queue)] = "READY"]
    /\ run_queue' = <<Head(wait_queue)>> \o run_queue
    /\ wait_queue' = Tail(wait_queue)
    /\ UNCHANGED <<sleep_counter, exception_frame, running_thread, is_running,
                   sleep_queue, cur>>

(* Mutant: the value goes to the exception frame instead of the context. *)
notify_in_frame(value) ==
    /\ wait_queue # <<>>
    /\ exception_frame' = value
    /\ status' = [status EXCEPT ![Head(wait_queue)] = "READY"]
    /\ run_queue' = Append(run_queue, Head(wait_queue))
    /\ wait_queue' = Tail(wait_queue)
    /\ UNCHANGED <<sleep_counter, context, running_thread, is_running,
                   sleep_queue, cur>>

(***************************************************************************)
(* RESULT_OK of scheduler_notify_one_from_irq.  With an empty wait queue   *)
(* it returns RESULT_ERROR and changes nothing.  Meeting a RUNNING thread  *)
(* hangs the kernel: NotifiedNotRunning says that this cannot happen.      *)
(***************************************************************************)
scheduler_notify_one_from_irq(value) ==
    /\ wait_queue # <<>>
    /\ LET thread == Head(wait_queue) IN
       /\ status[thread] # "RUNNING"
       /\ context' = [context EXCEPT ![thread] = value]
       /\ status' = [status EXCEPT ![thread] = "READY"]
       /\ run_queue' = Append(run_queue, thread)
    /\ wait_queue' = Tail(wait_queue)
    /\ UNCHANGED <<sleep_counter, exception_frame, running_thread, is_running,
                   sleep_queue, cur>>

-----------------------------------------------------------------------------
(* Mutant: a tick in the idle thread leaves the sleepers alone. *)
tick_not_in_idle ==
    /\ is_running
    /\ cur = 0
    /\ cur' = IF running_thread = idle_thread THEN Len(sleep_queue) + 1 ELSE 1
    /\ UNCHANGED <<status, sleep_counter, context, exception_frame,
                   running_thread, is_running, run_queue, sleep_queue,
                   wait_queue>>

(***************************************************************************)
(* The tick.  Before is_running it returns at once.                        *)
(***************************************************************************)
scheduler_tick_from_irq ==
    /\ is_running
    /\ cur = 0
    /\ cur' = 1
    /\ UNCHANGED <<status, sleep_counter, context, exception_frame,
                   running_thread, is_running, run_queue, sleep_queue,
                   wait_queue>>

(***************************************************************************)
(* Mutants of the round: wakes(t) decides whether t is woken, its status   *)
(* becomes st, and the loop goes on at position pos.                       *)
(***************************************************************************)
scan_round(wakes(_), st, pos) ==
    /\ cur \in 1 .. Len(sleep_queue)
    /\ LET thread == sleep_queue[cur] IN
       \/ /\ wakes(thread)
          /\ sleep_queue' = RemoveAt(sleep_queue, cur)
          /\ run_queue' = Append(run_queue, thread)
          /\ status' = [status EXCEPT ![thread] = st]
          /\ cur' = pos
          /\ UNCHANGED sleep_counter
       \/ /\ ~wakes(thread)
          /\ sleep_counter' = [sleep_counter EXCEPT ![thread] = @ - 1]
          /\ cur' = cur + 1
          /\ UNCHANGED <<sleep_queue, run_queue, status>>
    /\ UNCHANGED <<context, exception_frame, running_thread, is_running,
                   wait_queue>>

scan_keeps_status == scan_round(LAMBDA t : sleep_counter[t] = 0, "SLEEPING", cur)

scan_skips_successor ==
    scan_round(LAMBDA t : sleep_counter[t] = 0, "READY",
               IF cur < Len(sleep_queue) THEN cur + 1 ELSE cur)

scan_wakes_early == scan_round(LAMBDA t : sleep_counter[t] <= 1, "READY", cur)

(***************************************************************************)
(* One round of the loop.  A thread that leaves the sleep queue makes      *)
(* room for its successor, so the position only moves past a thread that   *)
(* stays.                                                                  *)
(***************************************************************************)
scheduler_update_sleepers ==
    /\ cur \in 1 .. Len(sleep_queue)
    /\ LET thread == sleep_queue[cur] IN
       \/ /\ sleep_counter[thread] = 0
          /\ sleep_queue' = RemoveAt(sleep_queue, cur)
          /\ run_queue' = Append(run_queue, thread)
          /\ status' = [status EXCEPT ![thread] = "READY"]
          /\ UNCHANGED <<sleep_counter, cur>>
       \/ /\ sleep_counter[thread] # 0
          /\ sleep_counter' = [sleep_counter EXCEPT ![thread] = @ - 1]
          /\ cur' = cur + 1
          /\ UNCHANGED <<sleep_queue, run_queue, status>>
    /\ UNCHANGED <<context, exception_frame, running_thread, is_running,
                   wait_queue>>

(* Mutants: the idle thread is queued too; the running thread stays first. *)
requeued_idle_too == Append(run_queue, running_thread)

requeued_at_front == IF running_thread # idle_thread
                     THEN <<running_thread>> \o run_queue ELSE run_queue

(***************************************************************************)
(* The rest of scheduler_tick_from_irq: the running thread goes to the end *)
(* of the run queue and its head runs, which may be that same thread.      *)
(***************************************************************************)
requeued == IF running_thread # idle_thread
            THEN Append(run_queue, running_thread) ELSE run_queue

scheduler_switch_from_tick ==
    /\ cur = Len(sleep_queue) + 1
    /\ cur' = 0
    /\ LET next_thread == scheduler_get_next_thread(requeued) IN
       \/ /\ next_thread = running_thread
          /\ UNCHANGED <<status, context, exception_frame, running_thread>>
       \/ /\ next_thread # running_thread
          /\ scheduler_run_next(next_thread, saved_status("READY"), saved_context)
    /\ run_queue' = list_remove_first(requeued)
    /\ UNCHANGED <<sleep_counter, is_running, sleep_queue, wait_queue>>

(***************************************************************************)
(* scheduler_start, with scheduler_run_thread: the idle thread is          *)
(* initialised and the first thread entered, its registers loaded.         *)
(***************************************************************************)
thread_run(thread, st) ==
    /\ status' = [st EXCEPT ![thread] = "RUNNING"]
    /\ exception_frame' = context[thread]

scheduler_start ==
    LET thread == scheduler_get_next_thread(run_queue) IN
    /\ is_running' = TRUE
    /\ running_thread' = thread
    /\ thread_run(thread, thread_init(idle_thread))
    /\ run_queue' = list_remove_first(run_queue)
    /\ UNCHANGED <<sleep_counter, context, sleep_queue, wait_queue, cur>>

-----------------------------------------------------------------------------
(***************************************************************************)
(* Who calls what.  start_kernel creates the thread of main and starts the *)
(* scheduler.  System calls and faults come from the running user thread,  *)
(* never from the idle thread, which only executes wfi.  Interrupts come   *)
(* in any thread, outside a tick.  A user thread also uses r0 as it likes. *)
(***************************************************************************)
BootCreate == ~is_running /\ run_queue = <<>> /\ scheduler_thread_create

BootStart == ~is_running /\ run_queue # <<>> /\ scheduler_start

InUserThread == is_running /\ cur = 0 /\ running_thread # idle_thread

SvcOrFault ==
    /\ InUserThread
    /\ \/ scheduler_thread_create
       \/ scheduler_thread_terminate_running_from_irq
       \/ scheduler_wait_running_from_irq
       \/ \E value \in Words : scheduler_prepare_svc_return(value)

SleepCall(cycles) == InUserThread /\ scheduler_sleep_running_from_irq(cycles)

Notify ==
    /\ is_running
    /\ cur = 0
    /\ \E value \in Words : scheduler_notify_one_from_irq(value)

TickWork == scheduler_update_sleepers \/ scheduler_switch_from_tick

Next ==
    \/ BootCreate
    \/ BootStart
    \/ SvcOrFault
    \/ \E cycles \in SleepArgs : SleepCall(cycles)
    \/ Notify
    \/ scheduler_tick_from_irq
    \/ TickWork

Spec == Init /\ [][Next]_vars

-----------------------------------------------------------------------------
(* Each variable holds what its C type and its use allow. *)
TypeOK ==
    /\ status \in [AllThreads -> thread_status]
    /\ sleep_counter \in [AllThreads -> Nat]
    /\ context \in [AllThreads -> Words]
    /\ exception_frame \in Words
    /\ running_thread \in AllThreads \cup {NULL}
    /\ is_running \in BOOLEAN
    /\ run_queue \in Seq(Threads)
    /\ sleep_queue \in Seq(Threads)
    /\ wait_queue \in Seq(Threads)
    /\ cur \in 0 .. Len(sleep_queue) + 1

(* A thread's status tells exactly which queue holds it. *)
QueueMatchesStatus ==
    \A t \in Threads :
        /\ t \in Range(run_queue) <=> status[t] = "READY"
        /\ t \in Range(sleep_queue) <=> status[t] = "SLEEPING"
        /\ t \in Range(wait_queue) <=> status[t] = "WAITING"

(* The one list node of a thread is linked into no list twice. *)
NoThreadTwice ==
    /\ IsInjective(run_queue)
    /\ IsInjective(sleep_queue)
    /\ IsInjective(wait_queue)

(* RUNNING is the status of the running thread and of no other. *)
OneRunning ==
    \A t \in AllThreads : status[t] = "RUNNING" <=> t = running_thread

(***************************************************************************)
(* Queue discipline of scheduler.c: between any two steps of the kernel    *)
(* every live thread is in exactly one place, the CPU or one position of   *)
(* one of the three lists.  list_add_ and list_remove_ corrupt the lists   *)
(* as soon as this fails.                                                  *)
(***************************************************************************)
QueueDiscipline == QueueMatchesStatus /\ NoThreadTwice /\ OneRunning

(***************************************************************************)
(* "INVARIANT: Running threads should not be on a wait queue", the comment *)
(* at the test in scheduler_notify_one_from_irq: notifying never hangs.    *)
(***************************************************************************)
NotifiedNotRunning ==
    wait_queue # <<>> => status[Head(wait_queue)] # "RUNNING"
=============================================================================
