------------------------- MODULE ContextSwitchProofs -------------------------
(***************************************************************************)
(* Proofs that exceptions and context switches lose no register, for any   *)
(* number of threads, any register contents and any width of a register.   *)
(*                                                                         *)
(* The registers of the running thread move: on the CPU in user mode, then *)
(* partly in the link register and the spsr of the exception mode, then in *)
(* the frame, then, if another thread is chosen, in the context.  The      *)
(* invariant says for each place where they are on the way what it holds,  *)
(* against `own', the registers the thread left.                           *)
(***************************************************************************)
EXTENDS ContextSwitch, DataLemmas

Addr == 0 .. Word - 1

Banks == ExceptionModes \cup {"USR"}

Psrs == [mode : Banks, i : BOOLEAN, flags : {0, 1}]

Regs == [r : Addr, pc : Addr, lr : Addr, sp : Addr, flags : {0, 1}]

Contexts == [r : Addr, pc : Addr, lr : Addr, sp : Addr, cpsr : Psrs]

CType ==
    /\ r \in Addr /\ pc \in Addr /\ cpsr \in Psrs
    /\ sp \in [Banks -> Addr] /\ lr \in [Banks -> Addr]
    /\ spsr \in [ExceptionModes -> Psrs]
    /\ exception_frame \in [r : Addr, pc : Addr]
    /\ context \in [Threads -> Contexts]
    /\ own \in [Threads -> Regs]
    /\ running_thread \in Threads
    /\ live \subseteq Threads
    /\ waiting \subseteq live

(* A thread that does not run has its registers in its context. *)
Kept(x, o) ==
    /\ x.r = o.r /\ x.pc = o.pc /\ x.lr = o.lr /\ x.sp = o.sp
    /\ x.cpsr = UserPsr(o.flags)

Suspended ==
    \A t \in live :
        t # running_thread \/ kpc = "boot" => Kept(context[t], own[t])

(* The stacks of the exception modes but for the one being used are empty. *)
StacksEmpty(modes) == \A m \in modes : sp[m] = KernelTop

InBoot ==
    /\ cpsr.mode = "SVC" /\ waiting = {}
    /\ StacksEmpty(ExceptionModes)

(* Lr and sp of user mode are not touched in the kernel. *)
UserBank(o) == lr["USR"] = o.lr /\ sp["USR"] = o.sp

InUser(o) ==
    /\ r = o.r /\ pc = o.pc
    /\ UserBank(o)
    /\ cpsr = UserPsr(o.flags)
    /\ StacksEmpty(ExceptionModes)

InKernel(o) ==
    /\ trap \in Kinds
    /\ cpsr.mode = mode_of(trap)
    /\ spsr[cpsr.mode] = UserPsr(o.flags)
    /\ UserBank(o)
    /\ StacksEmpty(ExceptionModes \ {cpsr.mode})

(***************************************************************************)
(* The address in the frame is the one before the instruction at which an  *)
(* interrupted or calling thread goes on, and for a fault the instruction  *)
(* itself.                                                                 *)
(***************************************************************************)
FrameAddress(o, faulted) == IF faulted THEN o.pc ELSE Minus(o.pc, 4)

Fault == trap \notin {"svc", "irq"}

AtEntry(o) ==
    /\ InKernel(o)
    /\ r = o.r
    /\ Minus(lr[cpsr.mode], offset(trap)) = FrameAddress(o, Fault)
    /\ sp[cpsr.mode] = KernelTop

WithFrame(o, faulted) ==
    /\ InKernel(o)
    /\ exception_frame = [r |-> o.r, pc |-> FrameAddress(o, faulted)]
    /\ sp[cpsr.mode] = Minus(KernelTop, frame_size)

CInv ==
    /\ CType
    /\ Suspended
    /\ kpc \in {"boot", "user", "entry", "handler", "return"}
    /\ running_thread \in live \ waiting
    /\ kpc = "boot" => InBoot
    /\ kpc = "user" => InUser(own[running_thread])
    /\ kpc = "entry" => AtEntry(own[running_thread])
    /\ kpc = "handler" => WithFrame(own[running_thread], Fault)
    /\ kpc = "return" => WithFrame(own[running_thread], FALSE)

-----------------------------------------------------------------------------
(* Addresses are closed under the arithmetic of registers. *)
LEMMA AddrClosed ==
    ASSUME NEW x \in Addr, NEW n \in Nat
    PROVE  /\ Plus(x, n) \in Addr
           /\ Minus(x, n) \in Addr
           /\ Plus(Minus(x, n), n) = x
           /\ Minus(Plus(x, n), n) = x
<1>0. Word \in Nat \ {0} /\ x \in Int /\ n \in Int /\ x \in 0 .. Word - 1
  BY AddressAssumption DEF Addr
<1>1. /\ x + n \in Int /\ x + Word - n \in Int
      /\ (x + n) % Word \in 0 .. Word - 1
      /\ (x + Word - n) % Word \in 0 .. Word - 1
  BY <1>0, RemainderLemma
<1>2. (x + Word) % Word = x
  <2>1. (x + Word) % Word = x % Word
    BY <1>0, OneTurn
  <2> QED  BY <1>0, <2>1
<1>3. Plus(Minus(x, n), n) = x
  <2> DEFINE a == x + Word - n
  <2>1. a + n = x + Word /\ a \in Int
    BY <1>0
  <2> HIDE DEF a
  <2>2. ((a % Word) + n) % Word = (a + n) % Word
    BY <1>0, <2>1, RemainderOfSum
  <2> QED  BY <1>2, <2>1, <2>2 DEF Plus, Minus, a
<1>4. Minus(Plus(x, n), n) = x
  <2> DEFINE a == x + n
             d == Word - n
  <2>1. a + d = x + Word /\ a \in Int /\ d \in Int
    BY <1>0
  <2>2. Minus(Plus(x, n), n) = ((a % Word) + d) % Word
    <3>1. (a % Word) + Word - n = (a % Word) + d
      <4> HIDE DEF a
      <4>1. a % Word \in Int
        BY <1>0, <2>1, RemainderLemma
      <4> QED  BY <1>0, <4>1
    <3> QED  BY <3>1 DEF Plus, Minus
  <2> HIDE DEF a, d
  <2>3. ((a % Word) + d) % Word = (a + d) % Word
    BY <1>0, <2>1, RemainderOfSum
  <2> QED  BY <1>2, <2>1, <2>2, <2>3
<1> QED  BY <1>1, <1>3, <1>4 DEF Addr, Plus, Minus

(* The 8 of an interrupt undoes the 4 of the processor and 4 more. *)
LEMMA InterruptOffset ==
    ASSUME NEW x \in Addr
    PROVE  Minus(Plus(x, 4), 8) = Minus(x, 4)
<1> DEFINE a == x + 4
           d == Word - 8
<1>0. Word \in Nat \ {0} /\ x \in Int
  BY AddressAssumption DEF Addr
<1>1. a + d = x + Word - 4 /\ a \in Int /\ d \in Int
  BY <1>0
<1>2. Minus(Plus(x, 4), 8) = ((a % Word) + d) % Word
  <2>1. (a % Word) + Word - 8 = (a % Word) + d
    <3> HIDE DEF a
    <3>1. a % Word \in Int
      BY <1>0, <1>1, RemainderLemma
    <3> QED  BY <1>0, <3>1
  <2> QED  BY <2>1 DEF Plus, Minus
<1> HIDE DEF a, d
<1>3. ((a % Word) + d) % Word = (a + d) % Word
  BY <1>0, <1>1, RemainderOfSum
<1> QED  BY <1>1, <1>2, <1>3 DEF Minus

(* Kernel code that names user mode gets at the user bank. *)
LEMMA UserBankAccess ==
    ASSUME cpsr.mode \in ExceptionModes
    PROVE  accessed("USR") = "USR"
BY DEF accessed, share_register_bank, bank, ExceptionModes

(* A mode handles each kind of exception. *)
LEMMA ModeOfKind ==
    ASSUME NEW kind \in Kinds
    PROVE  mode_of(kind) \in ExceptionModes
BY DEF Kinds, mode_of, ExceptionModes

(* thread_init prepares the registers a new thread starts with. *)
LEMMA ThreadInitType ==
    ASSUME NEW t \in Threads, NEW n \in Addr
    PROVE  /\ thread_init(t, n) \in Contexts
           /\ View(thread_init(t, n)) \in Regs
           /\ Kept(thread_init(t, n), View(thread_init(t, n)))
<1> DEFINE x == Minus(StackTop(t), n)
           y == x - (x % 8)
<1>1. StackTop(t) \in Addr /\ n \in Nat /\ thread_entry \in Addr /\ 0 \in Addr
  BY AddressAssumption DEF Addr
<1>2. x \in Addr
  BY <1>1, AddrClosed
<1>3. y \in Addr
  <2> HIDE DEF x
  <2>1. x \in 0 .. Word - 1 /\ Word \in Nat
    BY <1>2, AddressAssumption DEF Addr
  <2>2. x % 8 \in 0 .. 7 /\ x % 8 <= x
    BY <2>1
  <2> QED  BY <2>1, <2>2 DEF Addr
<1>4. thread_init(t, n) = [r |-> 0, pc |-> thread_entry, lr |-> 0, sp |-> y,
                           cpsr |-> UserPsr(0)]
  BY DEF thread_init
<1> HIDE DEF y, x
<1>5. UserPsr(0) \in Psrs /\ UserPsr(0).flags = 0
  BY DEF UserPsr, Psr, Psrs, Banks
<1>6. thread_init(t, n) \in Contexts
  BY <1>1, <1>3, <1>4, <1>5 DEF Contexts
<1>7. View(thread_init(t, n)) = [r |-> 0, pc |-> thread_entry, lr |-> 0,
                                 sp |-> y, flags |-> 0]
  BY <1>4, <1>5 DEF View
<1>8. View(thread_init(t, n)) \in Regs
  BY <1>1, <1>3, <1>7 DEF Regs
<1>9. Kept(thread_init(t, n), View(thread_init(t, n)))
  BY <1>4, <1>7 DEF Kept
<1> QED  BY <1>6, <1>8, <1>9

-----------------------------------------------------------------------------
(* Before the first thread *)
LEMMA InitCInv == Init => CInv
<1> SUFFICES ASSUME Init PROVE CInv
  OBVIOUS
<1>1. 0 \in Addr /\ KernelValue \in Addr /\ KernelTop \in Addr
  BY AddressAssumption DEF Addr
<1>2. \A t \in Threads :
        /\ thread_init(t, 0) \in Contexts
        /\ View(thread_init(t, 0)) \in Regs
        /\ Kept(thread_init(t, 0), View(thread_init(t, 0)))
  BY <1>1, ThreadInitType
<1>3. Psr("SVC", TRUE, 0) \in Psrs /\ Psr("SVC", TRUE, 0).mode = "SVC"
  BY DEF Psr, Psrs, Banks, ExceptionModes
<1>4. idle_thread \in Threads
  BY DEF Threads
<1>5. CType
  BY <1>1, <1>2, <1>3, <1>4 DEF Init, CType, Banks, NoFrame
<1>6. Suspended
  BY <1>2, <1>4 DEF Init, Suspended
<1>7. InBoot
  BY <1>3 DEF Init, InBoot, StacksEmpty, ExceptionModes
<1> QED  BY <1>4, <1>5, <1>6, <1>7 DEF CInv, Init

(* scheduler_thread_create: the registers of the new thread are in its *)
(* context; the others are left alone.                                 *)
LEMMA CreateKeeps ==
    ASSUME CType, Suspended, scheduler_thread_create, running_thread \in live
    PROVE  /\ CType'
           /\ \A t \in live' : t # running_thread \/ kpc = "boot"
                                => Kept(context'[t], own'[t])
           /\ own'[running_thread] = own[running_thread]
           /\ live \subseteq live'
<1> USE DEF scheduler_thread_create
<1>0. UNCHANGED <<r, pc, cpsr, sp, lr, spsr, exception_frame, running_thread,
                  waiting, trap>>
  BY DEF cpu
<1>1. CASE UNCHANGED <<live, context, own>>
  BY <1>0, <1>1 DEF CType, Suspended
<1>2. ASSUME NEW t \in UserThreads \ live, NEW n \in ArgSizes,
             live' = live \cup {t},
             context' = [context EXCEPT ![t] = thread_init(t, n)],
             own' = [own EXCEPT ![t] = View(thread_init(t, n))]
      PROVE  /\ CType'
             /\ \A u \in live' : u # running_thread \/ kpc = "boot"
                                => Kept(context'[u], own'[u])
             /\ own'[running_thread] = own[running_thread]
             /\ live \subseteq live'
  <2>1. t \in Threads /\ n \in Addr /\ t # running_thread
    BY <1>2, AddressAssumption DEF Threads, Addr
  <2>2. /\ thread_init(t, n) \in Contexts
        /\ View(thread_init(t, n)) \in Regs
        /\ Kept(thread_init(t, n), View(thread_init(t, n)))
    BY <2>1, ThreadInitType
  <2>3. /\ context' \in [Threads -> Contexts] /\ own' \in [Threads -> Regs]
        /\ context'[t] = thread_init(t, n) /\ own'[t] = View(thread_init(t, n))
        /\ \A u \in Threads : u # t => context'[u] = context[u] /\ own'[u] = own[u]
    BY <1>2, <2>1, <2>2 DEF CType
  <2>4. CType'
    BY <1>0, <1>2, <2>1, <2>3 DEF CType
  <2>5. ASSUME NEW u \in live', u # running_thread \/ kpc = "boot"
        PROVE  Kept(context'[u], own'[u])
    <3>1. CASE u = t
      BY <2>2, <2>3, <3>1
    <3>2. CASE u # t
      <4>1. u \in live /\ u \in Threads
        BY <1>2, <3>2 DEF CType
      <4> QED  BY <2>3, <2>5, <3>2, <4>1 DEF Suspended
    <3> QED  BY <3>1, <3>2
  <2> QED  BY <1>2, <2>1, <2>3, <2>4, <2>5 DEF CType
<1> QED  BY <1>1, <1>2

(***************************************************************************)
(* scheduler_run_next inside a handler: the frame, the spsr of the mode    *)
(* and the user bank now hold the registers of the next thread, and the    *)
(* stack of the mode is where it was.                                      *)
(***************************************************************************)
LEMMA RunNextLoads ==
    ASSUME NEW next \in Threads, NEW ctx \in [Threads -> Contexts], NEW o,
           CType, cpsr.mode \in ExceptionModes, o \in Regs,
           Kept(ctx[next], o),
           scheduler_run_next(next, ctx)
    PROVE  /\ context' = ctx /\ running_thread' = next /\ kpc' = "return"
           /\ UNCHANGED <<r, pc, cpsr, trap>>
           /\ exception_frame' = [r |-> o.r, pc |-> Minus(o.pc, 4)]
           /\ exception_frame' \in [r : Addr, pc : Addr]
           /\ lr' \in [Banks -> Addr] /\ lr'["USR"] = o.lr
           /\ sp' \in [Banks -> Addr] /\ sp'["USR"] = o.sp
           /\ \A m \in ExceptionModes : sp'[m] = sp[m]
           /\ spsr' \in [ExceptionModes -> Psrs]
           /\ spsr'[cpsr.mode] = UserPsr(o.flags)
<1> DEFINE x == ctx[next]
<1>1. x \in Contexts /\ x.r = o.r /\ x.pc = o.pc /\ x.lr = o.lr /\ x.sp = o.sp
      /\ x.cpsr = UserPsr(o.flags)
  BY DEF Kept
<1>2. x.cpsr.mode = "USR" /\ x.cpsr \in Psrs
  <2> HIDE DEF x
  <2>1. UserPsr(o.flags).mode = "USR"
    BY DEF UserPsr, Psr
  <2> QED  BY <1>1, <2>1 DEF Contexts
<1>3. accessed("USR") = "USR"
  BY UserBankAccess
<1>4. o.r \in Addr /\ o.pc \in Addr /\ o.lr \in Addr /\ o.sp \in Addr
  BY DEF Regs
<1>5. Minus(o.pc, 4) \in Addr
  BY <1>4, AddrClosed
<1>6. /\ context' = ctx /\ running_thread' = next /\ kpc' = "return"
      /\ UNCHANGED <<r, pc, cpsr, trap>>
      /\ scheduler_replace_irq_context(x)
  BY DEF scheduler_run_next
<1> HIDE DEF x
<1>7. /\ exception_frame' = [r |-> o.r, pc |-> Minus(o.pc, 4)]
      /\ lr' = [lr EXCEPT !["USR"] = o.lr]
      /\ sp' = [sp EXCEPT !["USR"] = o.sp]
      /\ spsr' = [spsr EXCEPT ![cpsr.mode] = UserPsr(o.flags)]
  BY <1>1, <1>2, <1>3, <1>6
  DEF scheduler_replace_irq_context, write_lr_mode, write_sp_mode, write_spsr
<1>8. /\ lr' \in [Banks -> Addr] /\ lr'["USR"] = o.lr
      /\ sp' \in [Banks -> Addr] /\ sp'["USR"] = o.sp
      /\ \A m \in ExceptionModes : sp'[m] = sp[m]
  BY <1>4, <1>7 DEF CType, Banks, ExceptionModes
<1>9. /\ spsr' \in [ExceptionModes -> Psrs]
      /\ spsr'[cpsr.mode] = UserPsr(o.flags)
  BY <1>1, <1>2, <1>7 DEF CType
<1> QED  BY <1>4, <1>5, <1>6, <1>7, <1>8, <1>9

(* scheduler_save_thread_context, in a handler of a call or an interrupt, *)
(* puts the registers of the running thread into its context.             *)
LEMMA SaveKeeps ==
    ASSUME CType, Suspended, kpc = "handler",
           WithFrame(own[running_thread], FALSE)
    PROVE  /\ scheduler_save_thread_context \in [Threads -> Contexts]
           /\ \A t \in live : Kept(scheduler_save_thread_context[t], own[t])
<1> DEFINE o == own[running_thread]
           x == [r |-> exception_frame.r, pc |-> Plus(exception_frame.pc, 4),
                 lr |-> read_lr_mode(read_spsr.mode),
                 sp |-> read_sp_mode(read_spsr.mode), cpsr |-> read_spsr]
<1>1. o \in Regs /\ o.pc \in Addr /\ running_thread \in Threads
  BY DEF CType, Regs
<1>2. /\ cpsr.mode \in ExceptionModes
      /\ read_spsr = UserPsr(o.flags)
      /\ exception_frame.r = o.r
      /\ exception_frame.pc = Minus(o.pc, 4)
      /\ lr["USR"] = o.lr /\ sp["USR"] = o.sp
  BY ModeOfKind DEF WithFrame, InKernel, UserBank, FrameAddress, read_spsr
<1>3. read_spsr.mode = "USR" /\ accessed("USR") = "USR"
  BY <1>2, UserBankAccess DEF UserPsr, Psr
<1>4. Plus(exception_frame.pc, 4) = o.pc
  BY <1>1, <1>2, AddrClosed
<1>5. x = [r |-> o.r, pc |-> o.pc, lr |-> o.lr, sp |-> o.sp,
           cpsr |-> UserPsr(o.flags)]
  BY <1>2, <1>3, <1>4 DEF read_lr_mode, read_sp_mode
<1>6. scheduler_save_thread_context = [context EXCEPT ![running_thread] = x]
  BY DEF scheduler_save_thread_context
<1> HIDE DEF x, o
<1>7. UserPsr(o.flags) \in Psrs
  BY <1>1 DEF Regs, UserPsr, Psr, Psrs, Banks
<1>8. x \in Contexts /\ Kept(x, o)
  BY <1>1, <1>5, <1>7 DEF Contexts, Regs, Kept
<1>9. ASSUME NEW t \in live
      PROVE  Kept(scheduler_save_thread_context[t], own[t])
  <2>1. t \in Threads
    BY DEF CType
  <2>2. CASE t = running_thread
    BY <1>1, <1>6, <1>8, <2>2 DEF CType, o
  <2>3. CASE t # running_thread
    <3>1. scheduler_save_thread_context[t] = context[t]
      BY <1>6, <2>1, <2>3 DEF CType
    <3> QED  BY <2>3, <3>1 DEF Suspended
  <2> QED  BY <2>2, <2>3
<1> QED  BY <1>1, <1>6, <1>8, <1>9 DEF CType

-----------------------------------------------------------------------------
(* One lemma per step: it preserves the invariant. *)

(* start_kernel creates the first thread, or enters it without a frame. *)
LEMMA StartKeeps == CInv /\ start_kernel => CInv'
<1> SUFFICES ASSUME CInv, start_kernel PROVE CInv'
  OBVIOUS
<1>0. CType /\ Suspended /\ InBoot /\ kpc = "boot" /\ running_thread \in live
  BY DEF CInv, start_kernel
<1>1. CASE scheduler_thread_create /\ UNCHANGED kpc
  <2>1. /\ CType'
        /\ \A t \in live' : Kept(context'[t], own'[t])
        /\ live \subseteq live'
    BY <1>0, <1>1, CreateKeeps
  <2>2. InBoot' /\ running_thread' \in live' \ waiting'
    BY <1>0, <1>1, <2>1 DEF CInv, InBoot, StacksEmpty, scheduler_thread_create, cpu
  <2>3. Suspended'
    BY <2>1 DEF Suspended
  <2> QED  BY <1>0, <1>1, <2>1, <2>2, <2>3 DEF CInv
<1>2. ASSUME NEW t \in live \ {idle_thread}, thread_run(t),
             running_thread' = t, kpc' = "user",
             UNCHANGED <<exception_frame, context, live, waiting, trap, own>>
      PROVE  CInv'
  <2> DEFINE x == context[t]
             o == own[t]
  <2>1. t \in Threads /\ x \in Contexts /\ o \in Regs /\ Kept(x, o)
    BY <1>0, <1>2 DEF CType, Suspended
  <2>2. UserPsr(o.flags).mode = "USR" /\ accessed("USR") = "USR"
    BY <1>0, UserBankAccess DEF UserPsr, Psr, InBoot, ExceptionModes
  <2>3. /\ lr' = [lr EXCEPT !["USR"] = x.lr]
        /\ sp' = [sp EXCEPT !["USR"] = x.sp]
        /\ spsr' = [spsr EXCEPT !["SVC"] = x.cpsr]
        /\ r' = x.r /\ pc' = x.pc /\ cpsr' = x.cpsr
    <3>1. context[t].cpsr.mode = "USR"
      BY <2>1, <2>2 DEF Kept
    <3> QED  BY <1>0, <1>2, <2>2, <3>1
             DEF thread_run, write_lr_mode, write_sp_mode, write_spsr, InBoot
  <2> HIDE DEF x, o
  <2>4. CType'
    <3>1. x.r \in Addr /\ x.pc \in Addr /\ x.lr \in Addr /\ x.sp \in Addr
          /\ x.cpsr \in Psrs
      BY <2>1 DEF Contexts
    <3> QED  BY <1>0, <1>2, <2>1, <2>3, <3>1 DEF CType, Banks, ExceptionModes
  <2>5. Suspended'
    BY <1>0, <1>2 DEF Suspended
  <2>6. InUser(own[running_thread])'
    <3>1. own'[running_thread'] = o
      BY <1>2 DEF o
    <3>2. \A m \in ExceptionModes : sp'[m] = sp[m]
      BY <1>0, <2>3 DEF CType, Banks, ExceptionModes
    <3>3. lr'["USR"] = x.lr /\ sp'["USR"] = x.sp
      BY <1>0, <2>3 DEF CType, Banks
    <3> QED  BY <1>0, <2>1, <2>3, <3>1, <3>2, <3>3
             DEF InUser, UserBank, Kept, InBoot, StacksEmpty
  <2> QED  BY <1>0, <1>2, <2>4, <2>5, <2>6 DEF CInv, InBoot
<1> QED  BY <1>1, <1>2 DEF start_kernel

(* User code changes the registers of the running thread only. *)
LEMMA UserCodeKeeps == CInv /\ UserCode => CInv'
<1> SUFFICES ASSUME CInv, UserCode PROVE CInv'
  OBVIOUS
<1>0. /\ CType /\ Suspended /\ kpc = "user"
      /\ InUser(own[running_thread])
      /\ UNCHANGED <<spsr, exception_frame, context, running_thread, live,
                     waiting, trap, kpc>>
  BY DEF CInv, UserCode, sched
<1>1. PICK x \in UserRegs :
         LET regs == [x EXCEPT !.sp = Minus(StackTop(running_thread), x.sp)] IN
         /\ r' = regs.r
         /\ pc' = regs.pc
         /\ cpsr' = [cpsr EXCEPT !.flags = regs.flags]
         /\ lr' = [lr EXCEPT !["USR"] = regs.lr]
         /\ sp' = [sp EXCEPT !["USR"] = regs.sp]
         /\ own' = [own EXCEPT ![running_thread] = regs]
  BY DEF UserCode
<1> DEFINE o == [x EXCEPT !.sp = Minus(StackTop(running_thread), x.sp)]
<1>2. x \in Regs
  BY AddressAssumption DEF Regs, Addr
<1>3. Minus(StackTop(running_thread), x.sp) \in Addr
  <2>1. running_thread \in Threads
    BY <1>0 DEF CType
  <2>2. StackTop(running_thread) \in Addr /\ x.sp \in Nat
    BY <1>2, <2>1, AddressAssumption DEF Addr, Regs
  <2> QED  BY <2>2, AddrClosed
<1>4. o \in Regs
  BY <1>2, <1>3 DEF Regs
<1>5. /\ r' = o.r /\ pc' = o.pc
      /\ cpsr' = [cpsr EXCEPT !.flags = o.flags]
      /\ lr' = [lr EXCEPT !["USR"] = o.lr]
      /\ sp' = [sp EXCEPT !["USR"] = o.sp]
      /\ own' = [own EXCEPT ![running_thread] = o]
  BY <1>1
<1> HIDE DEF o
<1>6. /\ o.r \in Addr /\ o.pc \in Addr /\ o.lr \in Addr /\ o.sp \in Addr
      /\ o.flags \in {0, 1}
  BY <1>4 DEF Regs
<1>7. cpsr' = UserPsr(o.flags) /\ cpsr' \in Psrs
  <2>1. cpsr = [mode |-> "USR", i |-> FALSE, flags |-> own[running_thread].flags]
    BY <1>0 DEF InUser, UserPsr, Psr
  <2> QED  BY <1>5, <1>6, <2>1 DEF UserPsr, Psr, Psrs, Banks
<1>8. CType'
  BY <1>0, <1>4, <1>5, <1>6, <1>7 DEF CType, Banks
<1>9. Suspended'
  <2>1. \A t \in live : t # running_thread => own'[t] = own[t]
    BY <1>0, <1>5 DEF CType
  <2> QED  BY <1>0, <2>1 DEF Suspended
<1>10. InUser(own[running_thread])'
  <2>1. own'[running_thread'] = o
    BY <1>0, <1>5 DEF CType
  <2>2. lr'["USR"] = o.lr /\ sp'["USR"] = o.sp
    BY <1>0, <1>5 DEF CType, Banks
  <2>3. \A m \in ExceptionModes : sp'[m] = sp[m]
    BY <1>0, <1>5 DEF CType, Banks, ExceptionModes
  <2> QED  BY <1>0, <1>5, <1>7, <2>1, <2>2, <2>3 DEF InUser, UserBank, StacksEmpty
<1> QED  BY <1>0, <1>8, <1>9, <1>10 DEF CInv

(***************************************************************************)
(* The processor takes an exception.  What it adds to the link register    *)
(* and what the trampoline will subtract differ from kind to kind; their   *)
(* difference is the address the frame needs.                              *)
(***************************************************************************)
LEMMA TakeExceptionKeeps ==
    ASSUME NEW kind \in Kinds, CInv, TakeException(kind)
    PROVE  CInv'
<1> DEFINE m == mode_of(kind)
           o == own[running_thread]
           o2 == IF kind = "svc" THEN [o EXCEPT !.pc = Plus(@, 4)] ELSE o
<1>0. /\ CType /\ Suspended /\ kpc = "user" /\ InUser(o)
      /\ running_thread \in live \ waiting
      /\ UNCHANGED <<r, pc, sp, exception_frame, context, running_thread, live,
                     waiting>>
      /\ trap' = kind /\ kpc' = "entry"
  BY DEF CInv, TakeException, sched
<1>1. m \in ExceptionModes /\ m # "USR" /\ m \in Banks
  BY ModeOfKind DEF ExceptionModes, Banks
<1>2. o \in Regs /\ o.pc \in Addr /\ running_thread \in Threads
  BY <1>0 DEF CType, Regs
<1>3. /\ spsr' = [spsr EXCEPT ![m] = cpsr]
      /\ lr' = [lr EXCEPT ![m] = Plus(pc, link(kind))]
      /\ cpsr' = Psr(m, TRUE, cpsr.flags)
      /\ own' = IF kind = "svc"
                THEN [own EXCEPT ![running_thread].pc = Plus(@, 4)] ELSE own
  BY DEF TakeException
<1>4. pc = o.pc /\ cpsr = UserPsr(o.flags)
  BY <1>0 DEF InUser
<1>5. Plus(pc, link(kind)) \in Addr /\ Plus(o.pc, 4) \in Addr
  BY <1>2, <1>4, AddrClosed DEF link
<1>6. o2 \in Regs /\ o2.flags = o.flags /\ o2.r = o.r /\ o2.lr = o.lr
      /\ o2.sp = o.sp
      /\ o2.pc = IF kind = "svc" THEN Plus(o.pc, 4) ELSE o.pc
  <2> HIDE DEF o
  <2> QED  BY <1>2, <1>5 DEF Regs
<1>7. own' = [own EXCEPT ![running_thread] = o2]
  BY <1>0, <1>2, <1>3 DEF CType
<1> HIDE DEF m, o, o2
<1>8. own' \in [Threads -> Regs] /\ own'[running_thread'] = o2
      /\ \A t \in Threads : t # running_thread => own'[t] = own[t]
  BY <1>0, <1>2, <1>6, <1>7 DEF CType
<1>9. /\ lr' \in [Banks -> Addr] /\ lr'["USR"] = lr["USR"]
      /\ lr'[m] = Plus(pc, link(kind))
      /\ spsr' \in [ExceptionModes -> Psrs]
      /\ spsr'[m] = cpsr
  BY <1>0, <1>1, <1>3, <1>5 DEF CType, Banks
<1>10. cpsr' \in Psrs /\ cpsr'.mode = m
  <2>1. cpsr.flags \in {0, 1}
    BY <1>0 DEF CType, Psrs
  <2> QED  BY <1>1, <1>3, <2>1 DEF Psr, Psrs
<1>11. CType'
  BY <1>0, <1>8, <1>9, <1>10 DEF CType
<1>12. Suspended'
  BY <1>0, <1>8 DEF Suspended, CType
<1>13. Minus(lr'[m], offset(kind)) = FrameAddress(o2, kind \notin {"svc", "irq"})
  <2>1. CASE kind = "svc"
    BY <1>4, <1>6, <1>9, <2>1 DEF link, offset, FrameAddress
  <2>2. CASE kind = "irq"
    BY <1>2, <1>4, <1>6, <1>9, <2>2, InterruptOffset DEF link, offset, FrameAddress
  <2>3. CASE kind = "data_abort"
    BY <1>2, <1>4, <1>6, <1>9, <2>3, AddrClosed DEF link, offset, FrameAddress
  <2>4. CASE kind \in {"undef", "prefetch_abort"}
    BY <1>2, <1>4, <1>6, <1>9, <2>4, AddrClosed DEF link, offset, FrameAddress
  <2> QED  BY <2>1, <2>2, <2>3, <2>4 DEF Kinds
<1>14. AtEntry(own[running_thread])'
  <2>1. /\ \A n \in ExceptionModes : sp'[n] = KernelTop
        /\ r' = o2.r /\ lr'["USR"] = o2.lr /\ sp'["USR"] = o2.sp
        /\ spsr'[cpsr'.mode] = UserPsr(o2.flags)
    BY <1>0, <1>4, <1>6, <1>9, <1>10 DEF InUser, UserBank, StacksEmpty
  <2>2. cpsr'.mode = mode_of(trap')
    BY <1>0, <1>10 DEF m
  <2> QED  BY <1>0, <1>1, <1>8, <1>10, <1>13, <2>1, <2>2
           DEF AtEntry, InKernel, UserBank, StacksEmpty, Fault
<1> QED  BY <1>0, <1>11, <1>12, <1>14 DEF CInv

(* The trampoline pushes the frame. *)
LEMMA TrampolineKeeps == CInv /\ exception_trampoline => CInv'
<1> SUFFICES ASSUME CInv, exception_trampoline PROVE CInv'
  OBVIOUS
<1> DEFINE m == cpsr.mode
           o == own[running_thread]
<1>0. /\ CType /\ Suspended /\ kpc = "entry" /\ AtEntry(o)
      /\ running_thread \in live \ waiting
      /\ UNCHANGED <<pc, cpsr, spsr, context, running_thread, live, waiting,
                     trap, own>>
      /\ kpc' = "handler" /\ r' = KernelValue
      /\ exception_frame' = [r |-> r, pc |-> Minus(lr[m], offset(trap))]
      /\ sp' = [sp EXCEPT ![m] = Minus(@, frame_size)]
      /\ lr' = [lr EXCEPT ![m] = KernelValue]
  BY DEF CInv, exception_trampoline, sched
<1>1. m \in ExceptionModes /\ m # "USR" /\ m \in Banks
  BY <1>0, ModeOfKind DEF AtEntry, InKernel, ExceptionModes, Banks
<1>2. KernelTop \in Addr /\ KernelValue \in Addr
  BY AddressAssumption DEF Addr
<1>3. sp[m] = KernelTop /\ Minus(KernelTop, frame_size) \in Addr
  BY <1>0, <1>2, AddrClosed DEF AtEntry, frame_size
<1>4. Minus(lr[m], offset(trap)) \in Addr
  <2>1. lr[m] \in Addr
    BY <1>0, <1>1 DEF CType
  <2> QED  BY <2>1, AddrClosed DEF offset
<1> HIDE DEF m, o
<1>5. /\ sp' \in [Banks -> Addr] /\ lr' \in [Banks -> Addr]
      /\ sp'[m] = Minus(KernelTop, frame_size)
      /\ sp'["USR"] = sp["USR"] /\ lr'["USR"] = lr["USR"]
      /\ \A n \in ExceptionModes \ {m} : sp'[n] = sp[n]
  BY <1>0, <1>1, <1>2, <1>3 DEF CType, Banks
<1>6. CType'
  BY <1>0, <1>2, <1>4, <1>5 DEF CType
<1>7. Suspended'
  BY <1>0 DEF Suspended
<1>8. WithFrame(own[running_thread], Fault)'
  <2>1. own'[running_thread'] = o /\ cpsr'.mode = m
    BY <1>0 DEF o, m
  <2>2. exception_frame' = [r |-> o.r, pc |-> FrameAddress(o, Fault)]
    BY <1>0 DEF AtEntry, m
  <2>3. Fault' = Fault
    BY <1>0 DEF Fault
  <2>4. /\ trap' \in Kinds /\ cpsr'.mode = mode_of(trap')
        /\ spsr'[m] = UserPsr(o.flags)
        /\ lr'["USR"] = o.lr /\ sp'["USR"] = o.sp
        /\ \A n \in ExceptionModes \ {m} : sp'[n] = KernelTop
    BY <1>0, <1>5 DEF AtEntry, InKernel, UserBank, StacksEmpty, m
  <2>5. exception_frame' = [r |-> o.r, pc |-> FrameAddress(o, Fault')]
    BY <2>2, <2>3
  <2> QED  BY <1>5, <2>1, <2>4, <2>5
           DEF WithFrame, InKernel, UserBank, StacksEmpty, FrameAddress
<1> QED  BY <1>0, <1>6, <1>7, <1>8 DEF CInv

(* Its second half pops the frame: the thread is on the CPU again. *)
LEMMA ReturnKeeps == CInv /\ exception_return => CInv'
<1> SUFFICES ASSUME CInv, exception_return PROVE CInv'
  OBVIOUS
<1> DEFINE m == cpsr.mode
           o == own[running_thread]
<1>0. /\ CType /\ Suspended /\ kpc = "return" /\ WithFrame(o, FALSE)
      /\ running_thread \in live \ waiting
      /\ UNCHANGED <<lr, spsr, context, running_thread, live, waiting, own>>
      /\ kpc' = "user"
      /\ r' = exception_frame.r
      /\ pc' = Plus(exception_frame.pc, 4)
      /\ sp' = [sp EXCEPT ![m] = Plus(@, frame_size)]
      /\ cpsr' = spsr[m]
      /\ exception_frame' = NoFrame
  BY DEF CInv, exception_return, sched
<1>1. m \in ExceptionModes /\ m # "USR" /\ m \in Banks
  BY <1>0, ModeOfKind DEF WithFrame, InKernel, ExceptionModes, Banks
<1>2. KernelTop \in Addr /\ 0 \in Addr
  BY AddressAssumption DEF Addr
<1>3. Plus(sp[m], frame_size) = KernelTop
  BY <1>0, <1>2, AddrClosed DEF WithFrame, frame_size
<1>4. o \in Regs /\ o.r \in Addr /\ o.pc \in Addr
  BY <1>0 DEF CType, Regs
<1>5. r' = o.r /\ pc' = o.pc
  BY <1>0, <1>4, AddrClosed DEF WithFrame, FrameAddress
<1>6. cpsr' = UserPsr(o.flags)
  BY <1>0 DEF WithFrame, InKernel
<1> HIDE DEF m, o
<1>7. /\ sp' \in [Banks -> Addr]
      /\ sp'[m] = KernelTop
      /\ sp'["USR"] = sp["USR"]
      /\ \A n \in ExceptionModes \ {m} : sp'[n] = sp[n]
  BY <1>0, <1>1, <1>2, <1>3 DEF CType, Banks
<1>8. CType'
  BY <1>0, <1>1, <1>2, <1>4, <1>5, <1>7 DEF CType, NoFrame
<1>9. Suspended'
  BY <1>0 DEF Suspended
<1>10. InUser(own[running_thread])'
  <2>1. own'[running_thread'] = o
    BY <1>0 DEF o
  <2>2. lr'["USR"] = o.lr /\ sp'["USR"] = o.sp
    BY <1>0, <1>7 DEF WithFrame, InKernel, UserBank
  <2>3. \A n \in ExceptionModes : sp'[n] = KernelTop
    BY <1>0, <1>7 DEF WithFrame, InKernel, StacksEmpty, m
  <2> QED  BY <1>5, <1>6, <2>1, <2>2, <2>3 DEF InUser, UserBank, StacksEmpty
<1> QED  BY <1>0, <1>8, <1>9, <1>10 DEF CInv

-----------------------------------------------------------------------------
(***************************************************************************)
(* The invariant after scheduler_run_next has loaded the thread next,      *)
(* whose registers o were in the contexts ctx.                             *)
(***************************************************************************)
LEMMA RunNextKeeps ==
    ASSUME NEW next, NEW ctx \in [Threads -> Contexts],
           CInv, kpc = "handler",
           next \in live, next \in live', next \notin waiting',
           \A t \in live' : Kept(ctx[t], own[t]),
           scheduler_run_next(next, ctx),
           live' \subseteq live, waiting' \subseteq live', own' = own
    PROVE  CInv'
<1> DEFINE o == own[next]
           m == cpsr.mode
<1>0. CType /\ WithFrame(own[running_thread], Fault)
  BY DEF CInv
<1>1. next \in Threads /\ o \in Regs /\ Kept(ctx[next], o)
  BY <1>0 DEF CType
<1>2. m \in ExceptionModes /\ trap \in Kinds /\ m = mode_of(trap)
  BY <1>0, ModeOfKind DEF WithFrame, InKernel
<1>3. /\ context' = ctx /\ running_thread' = next /\ kpc' = "return"
      /\ UNCHANGED <<r, pc, cpsr, trap>>
      /\ exception_frame' = [r |-> o.r, pc |-> Minus(o.pc, 4)]
      /\ exception_frame' \in [r : Addr, pc : Addr]
      /\ lr' \in [Banks -> Addr] /\ lr'["USR"] = o.lr
      /\ sp' \in [Banks -> Addr] /\ sp'["USR"] = o.sp
      /\ \A n \in ExceptionModes : sp'[n] = sp[n]
      /\ spsr' \in [ExceptionModes -> Psrs]
      /\ spsr'[m] = UserPsr(o.flags)
  <2> HIDE DEF o
  <2> QED  BY <1>0, <1>1, <1>2, RunNextLoads
<1> HIDE DEF o, m
<1>4. CType'
  BY <1>0, <1>1, <1>3 DEF CType
<1>5. Suspended'
  BY <1>3 DEF Suspended
<1>6. WithFrame(own[running_thread], FALSE)'
  <2>1. own'[running_thread'] = o /\ cpsr'.mode = m /\ trap' = trap
    BY <1>3 DEF o, m
  <2>2. /\ \A n \in ExceptionModes \ {m} : sp'[n] = KernelTop
        /\ sp'[m] = Minus(KernelTop, frame_size)
    BY <1>0, <1>2, <1>3 DEF WithFrame, InKernel, StacksEmpty, m
  <2> QED  BY <1>2, <1>3, <2>1, <2>2
           DEF WithFrame, InKernel, UserBank, StacksEmpty, FrameAddress
<1> QED  BY <1>3, <1>4, <1>5, <1>6 DEF CInv

(* A switch in the handler of a call or an interrupt; the thread that ran *)
(* may wait now.                                                          *)
LEMMA SwitchKeeps ==
    ASSUME CInv, kpc = "handler", ~Fault, Switches,
           live' = live, own' = own,
           waiting' \in {waiting, waiting \cup {running_thread}}
    PROVE  CInv'
<1>0. CType /\ Suspended /\ running_thread \in live
      /\ WithFrame(own[running_thread], FALSE)
  BY DEF CInv, WithFrame, FrameAddress
<1>1. PICK next \in live \ (waiting \cup {running_thread}) :
            scheduler_run_next(next, scheduler_save_thread_context)
  BY DEF Switches
<1>2. /\ scheduler_save_thread_context \in [Threads -> Contexts]
      /\ \A t \in live : Kept(scheduler_save_thread_context[t], own[t])
  BY <1>0, SaveKeeps
<1>3. waiting' \subseteq live' /\ next \notin waiting'
  BY <1>0, <1>1 DEF CType
<1> QED  BY <1>1, <1>2, <1>3, RunNextKeeps

(* A fault ends the running thread. *)
LEMMA TerminateKeeps ==
    CInv /\ scheduler_thread_terminate_running_from_irq => CInv'
<1> SUFFICES ASSUME CInv, scheduler_thread_terminate_running_from_irq PROVE CInv'
  OBVIOUS
<1>0. /\ CType /\ Suspended /\ kpc = "handler"
      /\ running_thread \in live \ waiting
      /\ live' = live \ {running_thread} /\ UNCHANGED <<waiting, own>>
  BY DEF CInv, scheduler_thread_terminate_running_from_irq
<1>1. PICK next \in live \ (waiting \cup {running_thread}) :
            scheduler_run_next(next, context)
  BY DEF scheduler_thread_terminate_running_from_irq
<1>2. context \in [Threads -> Contexts] /\ waiting' \subseteq live'
  BY <1>0 DEF CType
<1>3. \A t \in live' : Kept(context[t], own[t])
  BY <1>0 DEF Suspended
<1> QED  BY <1>0, <1>1, <1>2, <1>3, RunNextKeeps

(* A handler that does not switch returns to the thread it interrupted. *)
LEMMA StaysKeeps ==
    ASSUME CInv, kpc = "handler", ~Fault, Stays, own' = own
    PROVE  CInv'
<1>0. /\ CType /\ Suspended
      /\ WithFrame(own[running_thread], Fault)
      /\ kpc' = "return"
      /\ UNCHANGED <<r, pc, cpsr, sp, lr, spsr, exception_frame, context,
                     running_thread, live, waiting, trap, own>>
  BY DEF CInv, Stays, cpu, sched
<1>1. CType'
  BY <1>0 DEF CType
<1>2. Suspended'
  BY <1>0 DEF Suspended
<1>3. WithFrame(own[running_thread], FALSE)'
  BY <1>0 DEF WithFrame, InKernel, UserBank, StacksEmpty, FrameAddress
<1> QED  BY <1>0, <1>1, <1>2, <1>3 DEF CInv

(* The value for a waiting thread goes to the place its r0 is at. *)
LEMMA NotifyKeeps == CInv /\ scheduler_notify_one_from_irq => CInv'
<1> SUFFICES ASSUME CInv, scheduler_notify_one_from_irq PROVE CInv'
  OBVIOUS
<1>0. /\ CType /\ Suspended /\ kpc = "handler"
      /\ running_thread \in live \ waiting
      /\ WithFrame(own[running_thread], Fault)
      /\ UNCHANGED <<r, pc, cpsr, sp, lr, spsr, exception_frame,
                     running_thread, live, trap, kpc>>
  BY DEF CInv, scheduler_notify_one_from_irq, cpu
<1>1. PICK t \in waiting, value \in Results :
         /\ waiting' = waiting \ {t}
         /\ context' = [context EXCEPT ![t].r = value]
         /\ own' = [own EXCEPT ![t].r = value]
  BY DEF scheduler_notify_one_from_irq
<1>2. t \in live /\ t \in Threads /\ t # running_thread
      /\ context[t] \in Contexts /\ own[t] \in Regs
  BY <1>0 DEF CType
<1>3. Kept(context[t], own[t])
  BY <1>0, <1>2 DEF Suspended
<1>4. value \in Addr
  BY AddressAssumption DEF Addr
<1> DEFINE x == [context[t] EXCEPT !.r = value]
           o == [own[t] EXCEPT !.r = value]
<1>5. x \in Contexts
  BY <1>2, <1>4 DEF Contexts
<1>6. o \in Regs
  BY <1>2, <1>4 DEF Regs
<1>7. Kept(x, o)
  BY <1>2, <1>3 DEF Kept, Contexts, Regs
<1>8. context' = [context EXCEPT ![t] = x] /\ own' = [own EXCEPT ![t] = o]
  BY <1>0, <1>1 DEF CType
<1> HIDE DEF x, o
<1>9. CType'
  BY <1>0, <1>1, <1>5, <1>6, <1>8 DEF CType
<1>10. Suspended'
  <2>1. ASSUME NEW u \in live, u # running_thread
        PROVE  Kept(context'[u], own'[u])
    <3>1. CASE u = t
      <4>1. context'[u] = x /\ own'[u] = o
        BY <1>0, <1>2, <1>8, <3>1 DEF CType
      <4> QED  BY <1>7, <4>1
    <3>2. CASE u # t
      <4>1. context'[u] = context[u] /\ own'[u] = own[u]
        BY <1>0, <1>8, <3>2 DEF CType
      <4> QED  BY <1>0, <2>1, <4>1 DEF Suspended
    <3> QED  BY <3>1, <3>2
  <2> QED  BY <1>0, <2>1 DEF Suspended
<1>11. WithFrame(own[running_thread], Fault)'
  <2>1. own'[running_thread'] = own[running_thread]
    BY <1>0, <1>2, <1>8 DEF CType
  <2> QED  BY <1>0, <2>1
           DEF WithFrame, InKernel, UserBank, StacksEmpty, FrameAddress, Fault
<1> QED  BY <1>0, <1>1, <1>9, <1>10, <1>11 DEF CInv

(* sys_create_thread *)
LEMMA SysCreateKeeps == CInv /\ sys_create_thread => CInv'
<1> SUFFICES ASSUME CInv, sys_create_thread PROVE CInv'
  OBVIOUS
<1>0. /\ CType /\ Suspended /\ kpc = "handler" /\ ~Fault /\ kpc' = "return"
      /\ running_thread \in live \ waiting
      /\ WithFrame(own[running_thread], Fault)
      /\ scheduler_thread_create
      /\ UNCHANGED <<r, pc, cpsr, sp, lr, spsr, exception_frame,
                     running_thread, waiting, trap>>
  BY DEF CInv, sys_create_thread, InSvc, scheduler_thread_create, cpu, Fault
<1>1. /\ CType'
      /\ \A t \in live' : t # running_thread => Kept(context'[t], own'[t])
      /\ own'[running_thread] = own[running_thread]
      /\ live \subseteq live'
  BY <1>0, CreateKeeps
<1>2. Suspended'
  BY <1>0, <1>1 DEF Suspended
<1>3. WithFrame(own[running_thread], FALSE)'
  BY <1>0, <1>1 DEF WithFrame, InKernel, UserBank, StacksEmpty, FrameAddress
<1> QED  BY <1>0, <1>1, <1>2, <1>3 DEF CInv

(* uart_user_getc with a stored character writes it to r0 of the frame. *)
LEMMA GetcStoredKeeps ==
    ASSUME NEW value \in Results, CInv, InSvc,
           exception_frame' = [exception_frame EXCEPT !.r = value],
           own' = [own EXCEPT ![running_thread].r = value],
           kpc' = "return",
           UNCHANGED <<cpu, context, sched, trap>>
    PROVE  CInv'
<1> DEFINE o == own[running_thread]
           o2 == [o EXCEPT !.r = value]
<1>0. /\ CType /\ Suspended /\ kpc = "handler" /\ ~Fault
      /\ running_thread \in live \ waiting
      /\ WithFrame(o, Fault)
      /\ UNCHANGED <<r, pc, cpsr, sp, lr, spsr, context, running_thread, live,
                     waiting, trap>>
  BY DEF CInv, InSvc, cpu, sched, Fault
<1>1. value \in Addr /\ o \in Regs /\ running_thread \in Threads
  BY <1>0, AddressAssumption DEF CType, Addr
<1>2. /\ o2 \in Regs /\ o2.r = value /\ o2.pc = o.pc /\ o2.lr = o.lr
      /\ o2.sp = o.sp /\ o2.flags = o.flags
  <2> HIDE DEF o
  <2> QED  BY <1>1 DEF Regs
<1>3. own' = [own EXCEPT ![running_thread] = o2]
  BY <1>0 DEF CType
<1> HIDE DEF o, o2
<1>4. exception_frame' = [r |-> o2.r, pc |-> Minus(o2.pc, 4)]
  BY <1>0, <1>2 DEF WithFrame, FrameAddress
<1>5. /\ own' \in [Threads -> Regs] /\ own'[running_thread'] = o2
      /\ \A t \in Threads : t # running_thread => own'[t] = own[t]
  BY <1>0, <1>1, <1>2, <1>3 DEF CType
<1>6. CType'
  BY <1>0, <1>1, <1>5 DEF CType
<1>7. Suspended'
  BY <1>0, <1>5 DEF Suspended, CType
<1>8. WithFrame(own[running_thread], FALSE)'
  BY <1>0, <1>2, <1>4, <1>5
  DEF WithFrame, InKernel, UserBank, StacksEmpty, FrameAddress
<1> QED  BY <1>0, <1>6, <1>7, <1>8 DEF CInv

(* The handlers *)
LEMMA HandlerKeeps == CInv /\ Handler => CInv'
<1> SUFFICES ASSUME CInv, Handler PROVE CInv'
  OBVIOUS
<1>1. CASE scheduler_notify_one_from_irq
  BY <1>1, NotifyKeeps
<1>2. CASE scheduler_tick_from_irq
  BY <1>2, SwitchKeeps, StaysKeeps DEF scheduler_tick_from_irq, Fault
<1>3. CASE scheduler_thread_terminate_running_from_irq
  BY <1>3, TerminateKeeps
<1>4. CASE sys_create_thread
  BY <1>4, SysCreateKeeps
<1>5. CASE sys_sleep
  BY <1>5, SwitchKeeps DEF sys_sleep, InSvc, Fault
<1>6. CASE sys_putc
  BY <1>6, StaysKeeps DEF sys_putc, InSvc, Fault
<1>7. CASE uart_user_getc
  <2>1. CASE Switches /\ waiting' = waiting \cup {running_thread}
             /\ UNCHANGED <<live, own>>
    BY <1>7, <2>1, SwitchKeeps DEF uart_user_getc, InSvc, Fault
  <2>2. ASSUME NEW value \in Results,
               exception_frame' = [exception_frame EXCEPT !.r = value],
               own' = [own EXCEPT ![running_thread].r = value],
               kpc' = "return",
               UNCHANGED <<cpu, context, sched, trap>>
        PROVE  CInv'
    BY <1>7, <2>2, GetcStoredKeeps DEF uart_user_getc
  <2> QED  BY <1>7, <2>1, <2>2 DEF uart_user_getc
<1> QED  BY <1>1, <1>2, <1>3, <1>4, <1>5, <1>6, <1>7 DEF Handler

(* Every step preserves the invariant. *)
LEMMA NextKeeps == CInv /\ [Next]_vars => CInv'
<1> SUFFICES ASSUME CInv, [Next]_vars PROVE CInv'
  OBVIOUS
<1>1. CASE start_kernel
  BY <1>1, StartKeeps
<1>2. CASE UserCode
  BY <1>2, UserCodeKeeps
<1>3. ASSUME NEW kind \in Kinds, TakeException(kind) PROVE CInv'
  BY <1>3, TakeExceptionKeeps
<1>4. CASE exception_trampoline
  BY <1>4, TrampolineKeeps
<1>5. CASE Handler
  BY <1>5, HandlerKeeps
<1>6. CASE exception_return
  BY <1>6, ReturnKeeps
<1>7. CASE UNCHANGED vars
  BY <1>7 DEF vars, cpu, sched, CInv, CType, Suspended, InBoot, InUser, AtEntry,
              WithFrame, InKernel, UserBank, StacksEmpty, FrameAddress, Fault
<1> QED  BY <1>1, <1>2, <1>3, <1>4, <1>5, <1>6, <1>7 DEF Next

(***************************************************************************)
(* At every step of an exception, from the vector to the return, the       *)
(* registers of each live thread are where the next step looks for them.   *)
(***************************************************************************)
THEOREM RegistersInPlace == Spec => []CInv
BY InitCInv, NextKeeps, PTL DEF Spec

(***************************************************************************)
(* Whatever exceptions and switches lie between, a thread continues with   *)
(* the registers it had and the results the kernel owes it.                *)
(***************************************************************************)
THEOREM ThreadsResumeExactly == Spec => []ResumesExactly
<1>1. CInv => ResumesExactly
  <2> SUFFICES ASSUME CInv, kpc = "user"
               PROVE  [r |-> r, pc |-> pc, lr |-> lr["USR"], sp |-> sp["USR"],
                       flags |-> cpsr.flags] = own[running_thread]
    BY DEF ResumesExactly
  <2> DEFINE o == own[running_thread]
  <2>1. o \in Regs /\ InUser(o)
    BY DEF CInv, CType
  <2> HIDE DEF o
  <2>2. cpsr.flags = o.flags
    BY <2>1 DEF InUser, UserPsr, Psr
  <2>3. [r |-> r, pc |-> pc, lr |-> lr["USR"], sp |-> sp["USR"],
         flags |-> cpsr.flags] = o
    BY <2>1, <2>2 DEF InUser, UserBank, Regs
  <2> QED  BY <2>3 DEF o
<1> QED  BY <1>1, RegistersInPlace, PTL

(***************************************************************************)
(* Threads run in user mode with interrupts enabled and the stacks of all  *)
(* exception modes empty: no handler leaves a frame behind, whichever      *)
(* thread it returns to.                                                   *)
(***************************************************************************)
THEOREM AlwaysBackInUserMode == Spec => []BackInUserMode
<1>1. CInv => BackInUserMode
  BY DEF CInv, InUser, StacksEmpty, UserPsr, Psr, BackInUserMode
<1> QED  BY <1>1, RegistersInPlace, PTL

(***************************************************************************)
(* When a handler of a fault prints its report, the frame, the user bank   *)
(* and the spsr it shows are those of the instruction that faulted.        *)
(***************************************************************************)
THEOREM FaultsReported == Spec => []ReportsFaultingThread
<1>1. CInv => ReportsFaultingThread
  <2> SUFFICES ASSUME CInv, kpc = "handler",
                      trap \in {"undef", "prefetch_abort", "data_abort"}
               PROVE  LET shown == print_exception_infos
                          thread == own[running_thread] IN
                      /\ shown.address = thread.pc
                      /\ shown.r = thread.r
                      /\ shown.lr["USR"] = thread.lr
                      /\ shown.sp["USR"] = thread.sp
                      /\ shown.spsr[mode_of(trap)] = UserPsr(thread.flags)
    BY DEF ReportsFaultingThread
  <2> DEFINE o == own[running_thread]
  <2>1. WithFrame(o, TRUE)
    BY DEF CInv, Fault, WithFrame, FrameAddress
  <2> HIDE DEF o
  <2>2. /\ exception_frame.pc = o.pc /\ exception_frame.r = o.r
        /\ lr["USR"] = o.lr /\ sp["USR"] = o.sp
        /\ mode_of(trap) \in ExceptionModes /\ cpsr.mode = mode_of(trap)
        /\ spsr[cpsr.mode] = UserPsr(o.flags)
    BY <2>1, ModeOfKind DEF WithFrame, InKernel, UserBank, FrameAddress
  <2>3. /\ read_lr_mode("USR") = o.lr /\ read_sp_mode("USR") = o.sp
        /\ read_spsr_mode(mode_of(trap)) = UserPsr(o.flags)
    BY <2>2, UserBankAccess DEF read_lr_mode, read_sp_mode, read_spsr_mode, read_spsr
  <2> QED  BY <2>2, <2>3 DEF print_exception_infos, o
<1> QED  BY <1>1, RegistersInPlace, PTL
=============================================================================
