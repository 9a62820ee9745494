---------------------------- MODULE UserProgram ----------------------------
(***************************************************************************)
(* The user program, user/main.c, on the kernel: main reads characters and *)
(* creates a worker thread for each, which prints it PRINT_COUNT times.    *)
(* The stubs of user/syscalls.c are the kernel's actions, and              *)
(* _thread_entry of trampolines.S is the code every thread starts with.    *)
(*                                                                         *)
(* A thread's code is cut where another thread can interfere: at system    *)
(* calls and at reads of what others write.  The kernel is module Kernel;  *)
(* of its user threads only those steps are left that this program takes.  *)
(*                                                                         *)
(* Which key each character is, is chosen in the beginning.  One key       *)
(* stands for all that are treated alike: "S", "s" and "i" are the special *)
(* ones, "A" an upper case letter, "a" the lower case one that sleeps 0    *)
(* cycles and "1" any other character, which sleeps 1.                     *)
(***************************************************************************)
EXTENDS Kernel, FiniteSets

CONSTANTS
    PRINT_COUNT,    \* prints per worker
    Keys            \* keys that are typed

AllKeys == {"S", "s", "i", "A", "a", "1"}

ASSUME UserAssumption ==
    /\ PRINT_COUNT \in Nat \ {0}
    /\ Keys \subseteq AllKeys
    /\ {0, 1} \subseteq SleepArgs

VARIABLES
    key,        \* the key behind each character
    upc,        \* where each thread is in its code
    fn,         \* thread->fn
    arg,        \* the argument copied to the top of a thread's stack
    this,       \* running_thread as get_current_thread_fn has loaded it
    c, i,       \* the variables c and i on a thread's stack
    printed,    \* history: how often each character was printed
    done,       \* history: characters whose worker has ended
    dropped     \* history: characters for which there was no free slot

locals == <<arg, this, c, i>>
ended == <<printed, done, dropped>>
uvars == <<kvars, key, upc, fn, locals, ended>>

UInit ==
    /\ KInit
    /\ key \in [Chars -> Keys]
    /\ upc = [t \in Threads |-> "entry"]
    /\ fn = [t \in Threads |-> "none"]
    /\ arg = [t \in Threads |-> 0]
    /\ this = [t \in Threads |-> t]
    /\ c = [t \in Threads |-> 0]
    /\ i = [t \in Threads |-> 0]
    /\ printed = [x \in Chars |-> 0]
    /\ done = {} /\ dropped = {}

-----------------------------------------------------------------------------
(***************************************************************************)
(* What thread_init writes into the slot of a thread that is being created *)
(* besides what Scheduler has: its function and a copy of the argument.    *)
(***************************************************************************)
NewThread(t) == status[t] = "TERMINATED" /\ status'[t] = "READY"

init_slot(f, x) ==
    /\ fn' = [t \in Threads |-> IF NewThread(t) THEN f ELSE fn[t]]
    /\ arg' = [t \in Threads |-> IF NewThread(t) THEN x ELSE arg[t]]
    /\ upc' = [t \in Threads |->
                 CASE NewThread(t) -> "entry"
                   [] kpc = "user" /\ t = running_thread -> "getc"
                   [] OTHER -> upc[t]]

Boot ==
    /\ start_kernel
    /\ init_slot("main", 0)
    /\ UNCHANGED <<key, this, c, i, ended>>

(* The code of the running thread that starts at `from'. *)
At(from) == InThread /\ upc[running_thread] = from

Goto(to) == upc' = [upc EXCEPT ![running_thread] = to]

Set(f, x) == [f EXCEPT ![running_thread] = x]

(***************************************************************************)
(* _thread_entry.  get_current_thread_fn runs in user mode: it loads the   *)
(* scheduler's running_thread and then, perhaps after a switch, the        *)
(* function from that slot.  The argument is where sp points to.           *)
(***************************************************************************)
get_current_thread_fn ==
    /\ At("entry")
    /\ this' = Set(this, running_thread)
    /\ Goto("call")
    /\ UNCHANGED <<kvars, key, fn, arg, c, i, ended>>

call_thread_fn ==
    /\ At("call")
    /\ Goto(IF fn[this[running_thread]] = "main" THEN "getc" ELSE "worker")
    /\ UNCHANGED <<kvars, key, fn, locals, ended>>

(* main *)
main_getc ==
    /\ At("getc")
    /\ sys_getc
    /\ Goto("got")
    /\ UNCHANGED <<key, fn, locals, ended>>

main_got ==
    /\ At("got")
    /\ c' = Set(c, exception_frame)
    /\ getc_returns
    /\ Goto("serve")
    /\ UNCHANGED <<key, fn, arg, this, i, ended>>

Main == running_thread

(* Mutant: main gives up when a thread cannot be created. *)
create_or_end ==
    /\ At("serve")
    /\ key[c[Main]] # "S"
    /\ \/ /\ \E t \in Threads : status[t] = "TERMINATED"
          /\ sys_create_thread
          /\ init_slot("worker_thread", c[Main])
          /\ UNCHANGED dropped
       \/ /\ \A t \in Threads : status[t] # "TERMINATED"
          /\ Goto("exit")
          /\ dropped' = dropped \cup {c[Main]}
          /\ UNCHANGED <<kvars, fn, arg>>
    /\ UNCHANGED <<key, this, c, i, printed, done>>

main_create ==
    /\ At("serve")
    /\ key[c[Main]] # "S"
    /\ sys_create_thread
    /\ init_slot("worker_thread", c[Main])
    /\ dropped' = IF \E t \in Threads : NewThread(t) THEN dropped
                  ELSE dropped \cup {c[Main]}
    /\ UNCHANGED <<key, this, c, i, printed, done>>

main_exit ==
    /\ At("serve")
    /\ key[c[Main]] = "S"
    /\ sys_kernel_exit
    /\ Goto("getc")
    /\ UNCHANGED <<vars, uart, m1, uart_ringbuffer, in_getc, history,
                   key, fn, locals, ended>>

-----------------------------------------------------------------------------
(* Mutant: the worker is given a pointer to main's variable. *)
worker_by_pointer ==
    /\ At("worker")
    /\ \E m \in Threads :
         /\ fn[m] = "main"
         /\ c' = Set(c, c[m])
         /\ Goto(CASE key[c[m]] = "s" -> "undefined"
                   [] key[c[m]] = "i" -> "exit"
                   [] OTHER -> "loop")
    /\ i' = Set(i, 0)
    /\ UNCHANGED <<kvars, key, fn, arg, this, ended>>

(* worker_thread *)
worker_thread ==
    /\ At("worker")
    /\ LET x == arg[running_thread] IN
       /\ c' = Set(c, x)
       /\ Goto(CASE key[x] = "s" -> "undefined"
                 [] key[x] = "i" -> "exit"
                 [] OTHER -> "loop")
    /\ i' = Set(i, 0)
    /\ UNCHANGED <<kvars, key, fn, arg, this, ended>>

worker_loop ==
    /\ At("loop")
    /\ \/ /\ i[running_thread] < PRINT_COUNT
          /\ sys_putc
          /\ printed' = [printed EXCEPT ![c[running_thread]] = @ + 1]
          /\ Goto("pause")
       \/ /\ i[running_thread] >= PRINT_COUNT
          /\ Goto("exit")
          /\ UNCHANGED <<cpu, printed>>
    /\ UNCHANGED <<vars, uart, m1, uart_ringbuffer, in_getc, history,
                   key, fn, locals, done, dropped>>

(* The busy wait has no effect but the time it takes. *)
wait_or_sleep(k) ==
    \/ k = "A" /\ UNCHANGED kvars
    \/ /\ k # "A"
       /\ SleepCall(IF k = "a" THEN 0 ELSE 1)
       /\ UNCHANGED <<cpu, uart, m1, uart_ringbuffer, in_getc, history>>

(* Mutant: i is one variable of all workers. *)
pause_with_static_i ==
    /\ At("pause")
    /\ wait_or_sleep(key[c[running_thread]])
    /\ i' = [t \in Threads |-> i[running_thread] + 1]
    /\ Goto("loop")
    /\ UNCHANGED <<key, fn, arg, this, c, ended>>

worker_pause ==
    /\ At("pause")
    /\ wait_or_sleep(key[c[running_thread]])
    /\ i' = [i EXCEPT ![running_thread] = @ + 1]
    /\ Goto("loop")
    /\ UNCHANGED <<key, fn, arg, this, c, ended>>

worker_undefined ==
    /\ At("undefined")
    /\ unknown_svc
    /\ Goto("loop")
    /\ UNCHANGED <<vars, uart, m1, uart_ringbuffer, in_getc, history,
                   key, fn, locals, ended>>

(* The worker returns to _thread_entry, which calls exit. *)
worker_exit ==
    /\ At("exit")
    /\ sys_exit
    /\ done' = done \cup {c[running_thread]}
    /\ UNCHANGED <<key, upc, fn, locals, printed, dropped>>

-----------------------------------------------------------------------------
ThreadCode ==
    \/ get_current_thread_fn \/ call_thread_fn
    \/ main_getc \/ main_got \/ main_create \/ main_exit
    \/ worker_thread \/ worker_loop \/ worker_pause \/ worker_undefined
    \/ worker_exit

Quiet == UNCHANGED <<key, upc, fn, locals, ended>>

(* uart_putc ends a worker when it prints for an unknown call. *)
Putc ==
    /\ uart_putc
    /\ done' = IF after = "terminate" THEN done \cup {c[running_thread]} ELSE done
    /\ UNCHANGED <<key, upc, fn, locals, printed, dropped>>

KernelStep == (handle_irq \/ IrqHandler \/ Devices \/ stopped) /\ Quiet

UNext == Boot \/ ThreadCode \/ Putc \/ KernelStep

USpec == UInit /\ [][UNext]_uvars

(***************************************************************************)
(* Besides the kernel's fairness: a thread that is on the CPU again and    *)
(* again executes its code, since a tick comes once per second.            *)
(***************************************************************************)
UFairSpec ==
    /\ USpec
    /\ WF_uvars(Boot)
    /\ WF_uvars(IrqHandler /\ Quiet)
    /\ WF_uvars(Putc)
    /\ SF_uvars(handle_irq /\ Quiet)
    /\ WF_uvars(TimerMatch /\ Quiet)
    /\ WF_uvars(Transmitted /\ Quiet)
    /\ \A t \in Threads : SF_uvars(ThreadCode /\ running_thread = t)

-----------------------------------------------------------------------------
Worker(t) == status[t] # "TERMINATED" /\ fn[t] = "worker_thread"

(* The character a worker is there for. *)
CharOf(t) == IF upc[t] \in {"entry", "call", "worker"} THEN arg[t] ELSE c[t]

(* The character main has read and not served. *)
InMain == {c[t] : t \in {u \in Threads : status[u] # "TERMINATED"
                                           /\ fn[u] = "main" /\ upc[u] = "serve"}}

Workers(x) == {t \in Threads : Worker(t) /\ CharOf(t) = x}

(***************************************************************************)
(* A worker per character: main's variable c is overwritten by the next    *)
(* getc while earlier workers may not even have started, yet each          *)
(* character main has read has exactly one worker, or had one, or found    *)
(* no free slot; no worker exists for anything else.                       *)
(***************************************************************************)
OneWorkerPerChar ==
    \A x \in Chars :
        Cardinality(Workers(x)) + Cardinality({x} \cap InMain)
            + Cardinality({x} \cap done) + Cardinality({x} \cap dropped)
        = IF x \in read /\ ~(key[x] = "S" /\ x \notin InMain) THEN 1 ELSE 0

(***************************************************************************)
(* Each worker prints its character PRINT_COUNT times, unless the key is   *)
(* one that ends the worker early, and nothing prints it otherwise, in     *)
(* whatever order workers are preempted, sleep and end.                    *)
(***************************************************************************)
PrintsExactly ==
    \A x \in Chars :
        /\ x \in done => printed[x] = IF key[x] \in {"s", "i"} THEN 0
                                      ELSE PRINT_COUNT
        /\ x \notin done \cup UNION {{CharOf(t)} : t \in {u \in Threads : Worker(u)}}
             => printed[x] = 0

(***************************************************************************)
(* main never stops reading: what is typed and stored is read, whether or  *)
(* not a thread can be created for it and however workers end, unless the  *)
(* system is stopped by kernel_exit.                                       *)
(***************************************************************************)
InputIsRead == \A x \in Chars : x \in Range(uart_ringbuffer) ~> x \in read \/ kpc = "stop"

(***************************************************************************)
(* What main has read is served by a worker that ends, through all its     *)
(* sleeps and also by an unknown system call, or is dropped.               *)
(***************************************************************************)
WorkersFinish ==
    \A x \in Chars : x \in read ~> x \in done \cup dropped \/ kpc = "stop"
=============================================================================
