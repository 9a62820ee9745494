------------------------------- MODULE Memory -------------------------------
(***************************************************************************)
(* lib/mem.c on a memory of bytes, one step per round of a loop, and the   *)
(* use thread_init makes of it: the argument of a new thread is copied to  *)
(* the top of its stack.                                                   *)
(*                                                                         *)
(* A behaviour is one call.  Arguments are such that the C standard gives  *)
(* the call a meaning: the blocks lie in memory, and those of memcpy,      *)
(* whose parameters are `restrict', do not overlap.                        *)
(***************************************************************************)
EXTENDS Integers, FiniteSetsExt

CONSTANTS
    MemSize,             \* cells are 0 .. MemSize - 1
    Contents,            \* what the memory may hold before the call
    Fills,               \* arguments c of memset, any int
    stack,               \* address of a thread's stack
    THREAD_STACK_SIZE,
    Align                \* stack alignment, 8

Cells == 0 .. MemSize - 1

Bytes == 0 .. 255

ASSUME MemoryAssumption ==
    /\ MemSize \in Nat /\ THREAD_STACK_SIZE \in Nat
    /\ Contents \subseteq [Cells -> Bytes]
    /\ Fills \subseteq Int
    /\ Align \in Nat \ {0} /\ stack % Align = 0 /\ THREAD_STACK_SIZE % Align = 0
    /\ stack \in Nat /\ stack + THREAD_STACK_SIZE <= MemSize

VARIABLES
    mem,
    call, old,     \* the function with its arguments, and the memory then
    str1, str2, n, \* the variables of the function
    res,           \* memcmp: the difference found
    mpc            \* "loop" or "done"

mvars == <<mem, call, old, str1, str2, n, res, mpc>>

Block(a, size) == a .. a + size - 1

Fits(a, size) == a \in 0 .. MemSize /\ a + size <= MemSize

Calls ==
    [fn : {"memcmp", "memcpy", "memmove", "memset", "thread_init"},
     s1 : 0 .. MemSize, s2 : 0 .. MemSize, c : Fills, n : 0 .. MemSize]

(* Mutant: the stack pointer is rounded up. *)
round_up(arg_size) ==
    LET sp == stack + THREAD_STACK_SIZE - arg_size IN sp + ((-sp) % Align)

(***************************************************************************)
(* thread_init: the stack pointer below the argument, rounded down, where  *)
(* memcpy puts the copy.  arg_size, which sys_create_thread takes from a   *)
(* register of the caller, is nowhere compared with the size of a stack.   *)
(***************************************************************************)
initial_sp(arg_size) ==
    LET sp == stack + THREAD_STACK_SIZE - arg_size IN sp - (sp % Align)

(***************************************************************************)
(* The calls to which the C standard gives a meaning.  thread_init calls   *)
(* memcpy, with arguments of any size.                                     *)
(***************************************************************************)
Legal(k) ==
    /\ Fits(k.s1, k.n) /\ Fits(k.s2, k.n)
    /\ k.fn \in {"memcpy", "thread_init"}
         => Block(k.s1, k.n) \cap Block(k.s2, k.n) = {}
    /\ k.fn = "memset" => k.s2 = k.s1
    /\ k.fn # "memset" => k.c = Min(Fills)
    /\ k.fn = "thread_init" => k.s1 = initial_sp(k.n)

MInit ==
    /\ call \in {k \in Calls : Legal(k)}
    /\ old \in Contents
    /\ mem = old
    /\ str1 = call.s1 /\ str2 = call.s2 /\ n = call.n
    /\ res = 0
    /\ mpc = "loop"

-----------------------------------------------------------------------------
Return == mpc' = "done" /\ UNCHANGED <<mem, call, old, str1, str2, n, res>>

(* The round of a loop that goes up through both blocks. *)
up == str1' = str1 + 1 /\ str2' = str2 + 1 /\ n' = n - 1 /\ UNCHANGED <<call, old, mpc>>

(* Mutant: bytes are compared as signed. *)
signed(b) == IF b > 127 THEN b - 256 ELSE b

compare_signed ==
    \/ /\ n > 0 /\ res = 0
       /\ res' = signed(mem[str1]) - signed(mem[str2])
       /\ up /\ UNCHANGED mem
    \/ (n = 0 \/ res # 0) /\ Return

memcmp ==
    \/ /\ n > 0 /\ res = 0
       /\ res' = mem[str1] - mem[str2]
       /\ up /\ UNCHANGED mem
    \/ (n = 0 \/ res # 0) /\ Return

memcpy ==
    \/ n > 0 /\ mem' = [mem EXCEPT ![str1] = mem[str2]] /\ up /\ UNCHANGED res
    \/ n = 0 /\ Return

(* The addresses stay in the second loop: the offset n counts down. *)
memmove ==
    \/ /\ call.s1 < call.s2
       /\ memcpy
    \/ /\ call.s1 >= call.s2
       /\ \/ /\ n > 0
             /\ n' = n - 1
             /\ mem' = [mem EXCEPT ![str1 + n - 1] = mem[str2 + n - 1]]
             /\ UNCHANGED <<call, old, str1, str2, res, mpc>>
          \/ n = 0 /\ Return

(* (unsigned char)c *)
memset ==
    \/ n > 0 /\ mem' = [mem EXCEPT ![str1] = call.c % 256] /\ up /\ UNCHANGED res
    \/ n = 0 /\ Return

MNext ==
    \/ /\ mpc = "loop"
       /\ \/ call.fn = "memcmp" /\ memcmp
          \/ call.fn \in {"memcpy", "thread_init"} /\ memcpy
          \/ call.fn = "memmove" /\ memmove
          \/ call.fn = "memset" /\ memset
    \/ mpc = "done" /\ UNCHANGED mvars

MSpec == MInit /\ [][MNext]_mvars

-----------------------------------------------------------------------------
(***************************************************************************)
(* What the copying functions promise on return: the destination holds     *)
(* what the source held at the call, also where memmove has overwritten    *)
(* the source, and no byte outside the destination has changed.            *)
(***************************************************************************)
Expected(a) ==
    IF a \notin Block(call.s1, call.n) \/ call.fn = "memcmp" THEN old[a]
    ELSE IF call.fn = "memset" THEN call.c % 256
    ELSE old[call.s2 + (a - call.s1)]

CopiesExactly == mpc = "done" => \A a \in Cells : mem[a] = Expected(a)

(***************************************************************************)
(* The result of memcmp has the sign of the first difference, bytes taken  *)
(* as unsigned.                                                            *)
(***************************************************************************)
ComparesFirstDifference ==
    mpc = "done" /\ call.fn = "memcmp" =>
        LET Differing == {k \in 0 .. call.n - 1 :
                            old[call.s1 + k] # old[call.s2 + k]} IN
        /\ res = 0 <=> Differing = {}
        /\ Differing # {} =>
             (res < 0 <=> old[call.s1 + Min(Differing)]
                            < old[call.s2 + Min(Differing)])

(***************************************************************************)
(* mem.c does what the callers, which the compiler adds too, rely on, for  *)
(* every overlap and every length.                                         *)
(***************************************************************************)
MemFunctionsCorrect == CopiesExactly /\ ComparesFirstDifference

(***************************************************************************)
(* thread_init gives the thread an aligned stack pointer to its copy of    *)
(* the argument, and writes nothing above its stack, where the next thread *)
(* is.  Below the stack is the thread's list node.  THREAD_STACK_SIZE is   *)
(* just the limit up to which the stack pointer is in the stack and the    *)
(* memory below it unchanged, whatever is lost by rounding; the code does  *)
(* not test it, so the callers have to keep it.                            *)
(***************************************************************************)
ArgumentOnOwnStack ==
    mpc = "done" /\ call.fn = "thread_init" =>
        /\ call.s1 % Align = 0
        /\ \A k \in 0 .. call.n - 1 : mem[call.s1 + k] = old[call.s2 + k]
        /\ \A a \in Cells : a >= stack + THREAD_STACK_SIZE => mem[a] = old[a]
        /\ call.s1 >= stack <=> call.n <= THREAD_STACK_SIZE
        /\ call.n <= THREAD_STACK_SIZE =>
             \A a \in Cells : a < stack => mem[a] = old[a]
=============================================================================
