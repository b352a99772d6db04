------------------------------- MODULE Context -------------------------------
(***************************************************************************)
(* What a PROC is made of: its stack and its saved registers, which the    *)
(* context switch of src/src/context.c (for x86-64) works on, and its      *)
(* arguments (proc_setargs of src/src/proc.c and proxc_argn).              *)
(*                                                                         *)
(* Memory is counted in words.  An address is <<w, i>>: word i of the      *)
(* stack of w, where proc->stack.ptr is word 0 and word -1 lies just below *)
(* the stack, in memory that is not the PROC's.  Words below the stack     *)
(* pointer may change at any time (a signal handler runs there); they are  *)
(* Garbage.                                                                *)
(***************************************************************************)
EXTENDS Integers, Sequences, FiniteSets, SequencesExt

CONSTANTS
  Proc,        \* the Proc structs malloc can hand out
  Sched,       \* the pthread's own stack, on which scheduler_run executes
  NULL,
  Garbage,     \* the content of memory nobody has initialised
  StackSize,   \* proc->stack.size, in words
  PageSize,    \* sched->page_size, in words
  Code,        \* places in the code of a PROC
  Val,         \* values a PROC keeps in callee-saved registers
  ArgLists,    \* the argument lists programs pass to PROC
  ARGS_N       \* the size of tmp_args in proc_setargs

ASSUME ContextAssumption ==
  /\ IsFiniteSet(Proc)
  /\ Sched \notin Proc
  /\ StackSize \in Nat /\ StackSize >= 6
  /\ PageSize \in Nat \ {0}
  /\ ARGS_N \in Nat \ {0}
  /\ \A l \in ArgLists : l \in Seq(ToSet(l))
  /\ {"proc_mainfxn", "fxn_returned", "_trampoline", "scheduler_run"} \cap Code = {}

VARIABLES
  cpu,       \* the registers of the processor; reg are the callee-saved ones
  ctx,       \* proc->ctx and sched->ctx
  mem,       \* the words of the stacks
  used,      \* proc->stack.used
  args,      \* the array proc->args
  curr,      \* sched->curr_proc
  life,      \* of each PROC: free, new (never run), used, ended
  pc,        \* where scheduler_run is: loop, madvise, switch, or panic
  given      \* history: the arguments PROC was called with

vars == <<cpu, ctx, mem, used, args, curr, life, pc, given>>

Co == Proc \cup {Sched}
Word == -1..StackSize - 1
Addr == Co \X Word

\* rbx stands for rbx and r12 to r15, which are treated alike.
Reg == {"rbx", "rbp"}

Shift(a, n) == <<a[1], a[2] + n>>

-----------------------------------------------------------------------------
(* context.c *)

\* ctx_init: the top of the stack, rounded down to 16 bytes.
StackTop == StackSize - (StackSize % 2)

\* ctx_init, after _ctx_get has filled in the caller's registers: the first
\* switch to w pops the address of proc_mainfxn, which then finds the address
\* of _trampoline where its return address belongs.
ctx_init(w) ==
  LET sp == <<w, StackTop - 4>> IN
  /\ mem' = [a \in Addr |-> IF a[1] # w THEN mem[a]
                            ELSE IF a = Shift(sp, 1) THEN "_trampoline"
                            ELSE Garbage]
  /\ ctx' = [ctx EXCEPT ![w] = [reg |-> [cpu.reg EXCEPT !["rbp"] = Shift(sp, 1)],
                                rsp |-> sp, rip |-> "proc_mainfxn", rdi |-> w]]

\* What ctx_switch(from, ...) leaves in *from: the call has pushed the return
\* address, to which rsp points; rdi is not saved.
Saved(from) == [reg |-> cpu.reg, rsp |-> Shift(cpu.rsp, -1), rip |-> cpu.rip,
                rdi |-> ctx[from].rdi]

\* Mutant: rdi, the first argument, is left as it is.
LoadsNoArg(to) == [reg |-> ctx[to].reg, rsp |-> Shift(ctx[to].rsp, 1),
                   rip |-> ctx[to].rip, rdi |-> cpu.rdi]

\* What ctx_switch(..., to) loads: rip goes where rsp points and ret pops it.
Loaded(to) == [reg |-> ctx[to].reg, rsp |-> Shift(ctx[to].rsp, 1),
               rip |-> ctx[to].rip, rdi |-> ctx[to].rdi]

ctx_switch(from, to) ==
  /\ ctx' = [ctx EXCEPT ![from] = Saved(from)]
  /\ mem' = [mem EXCEPT ![Shift(cpu.rsp, -1)] = cpu.rip,
                        ![ctx[to].rsp] = Garbage]
  /\ cpu' = Loaded(to)

page_floor(x) == x - (x % PageSize)

\* Mutant: the whole stack is given back.
DiscardsAll(unused) == page_floor(StackSize)

\* The number of words from the bottom of the stack that madvise discards.
Discarded(unused) == page_floor(unused)

\* Mutant: the stack pointer is not compared with the stack.
NeverOverflows(w) == FALSE

\* The PANIC of ctx_madvise.
Overflows(w) == ctx[w].rsp[2] < 0

ctx_madvise(w) ==
  LET unused == ctx[w].rsp[2]
      used_stack == StackSize - unused
  IN
  \/ /\ Overflows(w)
     /\ pc' = "panic"
     /\ UNCHANGED <<mem, used>>
  \/ /\ ~Overflows(w)
     /\ pc' = "switch"
     /\ mem' = IF page_floor(used_stack) + PageSize < page_floor(used[w])
               THEN [a \in Addr |-> IF a[1] = w /\ a[2] \in 0..Discarded(unused) - 1
                                    THEN Garbage ELSE mem[a]]
               ELSE mem
     /\ used' = [used EXCEPT ![w] = used_stack]

-----------------------------------------------------------------------------
(* Arguments *)

\* Mutant: the last, partly filled chunk is not copied.
FullChunks(l) == SubSeq(l, 1, Len(l) - (Len(l) % ARGS_N))

\* proc_setargs: the loop over the arguments, which go to tmp_args first and from
\* there to args whenever tmp_args is full (_proc_copyargs), and at the end.
proc_setargs(l) ==
  LET copy(s) == [args |-> s.args \o SubSeq(s.tmp, 1, s.n), tmp |-> s.tmp, n |-> 0]
      add(s, x) == [args |-> s.args, tmp |-> [s.tmp EXCEPT ![s.n + 1] = x], n |-> s.n + 1]
      loop[i \in 0..Len(l)] ==
        IF i = 0 THEN [args |-> <<>>, tmp |-> [k \in 1..ARGS_N |-> Garbage], n |-> 0]
        ELSE LET s == add(loop[i - 1], l[i]) IN IF s.n = ARGS_N THEN copy(s) ELSE s
      end == loop[Len(l)]
  IN  IF end.n > 0 THEN copy(end).args ELSE end.args

\* proxc_argn, called by curr_proc.
proxc_argn(n) == IF n < Len(args[curr]) THEN args[curr][n + 1] ELSE NULL

-----------------------------------------------------------------------------
(* The life of a PROC *)

\* Whose stack the processor is on.
Running == cpu.rsp[1]

\* PROC(f, ...) in a PROC, or proxc_start for the main PROC.
Create(w, l) ==
  /\ \/ pc = "proc"
     \/ pc = "loop" /\ \A x \in Proc : life[x] = "free"
  /\ life[w] = "free"
  /\ ctx_init(w)
  /\ used' = [used EXCEPT ![w] = 0]
  /\ args' = [args EXCEPT ![w] = proc_setargs(l)]
  /\ given' = [given EXCEPT ![w] = l]
  /\ life' = [life EXCEPT ![w] = "new"]
  /\ UNCHANGED <<cpu, curr, pc>>

\* scheduler_run resumes w.
Dispatch(w) ==
  /\ pc = "loop"
  /\ life[w] \in {"new", "used"}
  /\ curr' = w
  /\ life' = [life EXCEPT ![w] = "used"]
  /\ ctx_switch(Sched, w)
  /\ pc' = "proc"
  /\ UNCHANGED <<used, args, given>>

\* proc_yield: in a PROC that goes on later, or in proc_mainfxn when the PROC has
\* ended.
proc_yield(l) ==
  /\ pc = "proc"
  /\ cpu.rip \in IF l = "ended" THEN {"fxn_returned"} ELSE Code
  /\ cpu.rsp[2] > -1
  /\ life' = [life EXCEPT ![curr] = l]
  /\ ctx_switch(curr, Sched)
  /\ pc' = "madvise"
  /\ UNCHANGED <<used, args, curr, given>>

Madvise ==
  /\ pc = "madvise"
  /\ ctx_madvise(curr)
  /\ UNCHANGED <<cpu, ctx, args, curr, life, given>>

\* The rest of the loop: proc_free of a PROC that has ended.
AfterSwitch ==
  /\ pc = "switch"
  /\ life' = [life EXCEPT ![curr] = IF @ = "ended" THEN "free" ELSE @]
  /\ curr' = NULL
  /\ pc' = "loop"
  /\ UNCHANGED <<cpu, ctx, mem, used, args, given>>

\* The code of the running PROC: it keeps a value in a register, ...
Assign(v) ==
  /\ pc = "proc"
  /\ cpu' = [cpu EXCEPT !.reg["rbx"] = v]
  /\ UNCHANGED <<ctx, mem, used, args, curr, life, pc, given>>

\* ... calls a function, which may overflow the stack by a word (the bound), ...
\* proc_mainfxn calls one, the PROC's.
CallFunction(f) ==
  /\ pc = "proc"
  /\ cpu.rsp[2] > -1
  /\ cpu.rip # "fxn_returned"
  /\ mem' = [mem EXCEPT ![Shift(cpu.rsp, -1)] =
               IF cpu.rip = "proc_mainfxn" THEN "fxn_returned" ELSE cpu.rip]
  /\ cpu' = [cpu EXCEPT !.rsp = Shift(@, -1), !.rip = f]
  /\ UNCHANGED <<ctx, used, args, curr, life, pc, given>>

\* ... or returns from one.  proc_mainfxn does not return, it yields for good.
Return ==
  /\ pc = "proc"
  /\ cpu.rip \in Code
  /\ cpu' = [cpu EXCEPT !.rsp = Shift(@, 1), !.rip = mem[cpu.rsp]]
  /\ mem' = [mem EXCEPT ![cpu.rsp] = Garbage]
  /\ UNCHANGED <<ctx, used, args, curr, life, pc, given>>

Panicked == pc = "panic" /\ UNCHANGED vars

\* scheduler_create: ctx_init(&sched->ctx, NULL) saves what is overwritten before
\* it is used.
ContextInit ==
  /\ cpu = [reg |-> [r \in Reg |-> Garbage], rsp |-> <<Sched, StackTop - 1>>,
            rip |-> "scheduler_run", rdi |-> Garbage]
  /\ ctx = [w \in Co |-> [reg |-> [r \in Reg |-> Garbage],
                          rsp |-> <<Sched, 0>>,
                          rip |-> Garbage, rdi |-> Garbage]]
  /\ mem = [a \in Addr |-> Garbage]
  /\ used = [w \in Proc |-> 0]
  /\ args = [w \in Proc |-> <<>>]
  /\ curr = NULL
  /\ life = [w \in Proc |-> "free"]
  /\ pc = "loop"
  /\ given = [w \in Proc |-> <<>>]

ContextNext ==
  \/ \E w \in Proc, l \in ArgLists : Create(w, l)
  \/ \E w \in Proc : Dispatch(w)
  \/ \E l \in {"used", "ended"} : proc_yield(l)
  \/ Madvise
  \/ AfterSwitch
  \/ \E v \in Val : Assign(v)
  \/ \E f \in Code : CallFunction(f)
  \/ Return
  \/ Panicked

ContextSpec == ContextInit /\ [][ContextNext]_vars

-----------------------------------------------------------------------------
(* Properties *)

\* The stack from address a up.
StackFrom(a) == [i \in 0..StackSize - 1 - a[2] |-> mem[Shift(a, i)]]

\* The machine of w, as far as the calling convention keeps it across a call:
\* in the processor while w runs, otherwise as the return from ctx_switch will
\* find it.
MachineOf(w) ==
  IF w = Running
  THEN [reg |-> cpu.reg, rip |-> cpu.rip, rsp |-> cpu.rsp, stack |-> StackFrom(cpu.rsp)]
  ELSE IF w # Sched /\ life[w] = "free" THEN NULL
  ELSE [reg |-> ctx[w].reg, rip |-> ctx[w].rip, rsp |-> Shift(ctx[w].rsp, 1),
        stack |-> StackFrom(Shift(ctx[w].rsp, 1))]

\* The machines there can be; NULL is none.
Place == Code \cup {"proc_mainfxn", "fxn_returned", "_trampoline", "scheduler_run",
                    Garbage}
Machine == [reg : [Reg -> Val \cup Addr \cup {Garbage}], rip : Place, rsp : Addr,
            stack : UNION {[0..n -> Place] : n \in 0..StackSize}]

ASSUME MachineAssumption == NULL \notin Machine

AtEntry(m, w) == m # NULL /\ m.rip = "proc_mainfxn" /\ m.rsp[1] = w

Own == INSTANCE Coroutines
         WITH running <- Running, machine <- [w \in Co |-> MachineOf(w)],
              None <- NULL

\* A PROC finds its callee-saved registers, its stack and its place in the code
\* as it left them, whoever ran in between, whatever they did to theirs and
\* whichever pages of its stack ctx_madvise has given back.
ImplementsCoroutines == Own!CoSpec

\* A PROC starts in proc_mainfxn with itself as the argument, on its own stack,
\* with the stack pointer where the calling convention wants it (16 n + 8) and
\* room for the return address, which is _trampoline.
EntersMain ==
  [][\A w \in Proc : life[w] = "new" /\ life'[w] = "used" =>
       /\ cpu'.rip = "proc_mainfxn"
       /\ cpu'.rdi = w
       /\ cpu'.rsp \in {w} \X {i \in 0..StackSize - 1 : i % 2 = 1}
       /\ mem'[cpu'.rsp] = "_trampoline"]_vars

\* No PROC is resumed after it has been seen to leave its stack, and none was
\* seen outside of it while another one runs: the check in ctx_madvise comes
\* before anything else happens.
OverflowStops ==
  pc \in {"loop", "switch", "proc"} =>
    \A w \in Proc : life[w] \in {"new", "used"} => ctx[w].rsp[2] >= 0

\* ARGN gives a running PROC the arguments it was created with, in their order,
\* and NULL beyond them, however the list falls into chunks.
ArgsArrive ==
  pc = "proc" => \A n \in 0..Len(given[curr]) + 1 :
                   proxc_argn(n) = IF n < Len(given[curr]) THEN given[curr][n + 1] ELSE NULL
=============================================================================
