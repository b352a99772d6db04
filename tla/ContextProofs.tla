---------------------------- MODULE ContextProofs ----------------------------
(***************************************************************************)
(* What the context switch promises for any number of PROCs, any stack and *)
(* page size and any code: a PROC starts where it should, finds its        *)
(* machine as it left it, and is not resumed once it has left its stack.   *)
(***************************************************************************)
EXTENDS Context, Loops, SequenceTheorems, TLAPS

-----------------------------------------------------------------------------
(* The invariant *)

Values == Val \cup Addr \cup {Garbage}
Registers == [reg : [Reg -> Values], rsp : Addr, rip : Place, rdi : Co \cup {Garbage}]

\* Every variable the switch works on has its type.
CtxTypes ==
  /\ cpu \in Registers
  /\ ctx \in [Co -> Registers]
  /\ mem \in [Addr -> Place]
  /\ life \in [Proc -> {"free", "new", "used", "ended"}]
  /\ pc \in {"loop", "proc", "madvise", "switch", "panic"}

\* The stack, in memory m, of a PROC whose stack pointer is at word r and that is at place p of
\* its code: proc_mainfxn runs at the top, below it lies one frame for each call.
Frames(m, w, r, p) ==
  /\ p \in Code \cup {"proc_mainfxn", "fxn_returned"}
  /\ p \notin Code => r = StackTop - 3
  /\ p \in Code => /\ r <= StackTop - 4
                   /\ m[<<w, StackTop - 4>>] = "fxn_returned"
                   /\ \A i \in r..StackTop - 5 : m[<<w, i>>] \in Code

\* Who runs at each point of scheduler_run.
WhoRuns ==
  /\ pc = "proc" => curr \in Proc /\ Running = curr /\ life[curr] = "used"
  /\ pc # "proc" => cpu.rsp = <<Sched, StackTop - 1>> /\ cpu.rip = "scheduler_run"
  /\ pc = "proc" => ctx[Sched].rsp = <<Sched, StackTop - 2>> /\ ctx[Sched].rip = "scheduler_run"
  /\ pc \in {"madvise", "switch", "panic"} => curr \in Proc /\ life[curr] \in {"used", "ended"}
  /\ \A w \in Proc : life[w] = "ended" => w = curr /\ pc \in {"madvise", "switch", "panic"}

\* Each PROC has its own stack, with its frames on it.
OwnStack ==
  /\ pc = "proc" => Frames(mem, curr, cpu.rsp[2], cpu.rip)
  /\ \A w \in Proc : life[w] # "free" /\ w # Running =>
       ctx[w].rsp[1] = w /\ Frames(mem, w, ctx[w].rsp[2] + 1, ctx[w].rip)

\* A PROC that has not run yet is as ctx_init has left it.
Fresh ==
  \A w \in Proc : life[w] = "new" =>
    /\ ctx[w].rsp = <<w, StackTop - 4>>
    /\ ctx[w].rip = "proc_mainfxn"
    /\ ctx[w].rdi = w
    /\ mem[<<w, StackTop - 3>>] = "_trampoline"

\* A stack pointer below the stack is not kept past ctx_madvise.
InStack ==
  \A w \in Proc : life[w] \in {"new", "used"} /\ ~(w = curr /\ pc \in {"madvise", "panic"})
    => ctx[w].rsp[2] >= 0

\* The inductive invariant.
CtxInv == CtxTypes /\ WhoRuns /\ OwnStack /\ Fresh /\ InStack

-----------------------------------------------------------------------------
(* Addresses *)

\* The room that ctx_init counts on.
LEMMA TopFacts ==
  /\ StackTop \in Int /\ StackTop % 2 = 0
  /\ 6 <= StackTop /\ StackTop <= StackSize /\ StackSize \in Int
<1> DEFINE r == StackSize % 2
           q == StackSize \div 2
<1>1. StackSize \in Int /\ 6 <= StackSize
  BY ContextAssumption
<1>2. r \in {0, 1} /\ q \in Int /\ StackSize = 2 * q + r
  BY <1>1
<1>3. StackTop = StackSize - r
  BY DEF StackTop
<1> HIDE DEF r, q
<1>4. StackTop = 2 * q
  BY <1>2, <1>3
<1>5. StackTop % 2 = 0
  BY <1>2, <1>4
<1> QED BY <1>1, <1>2, <1>3, <1>4, <1>5

\* Addresses are pairs.
LEMMA AddrFacts ==
  /\ \A a \in Addr : a = <<a[1], a[2]>> /\ a[1] \in Co /\ a[2] \in Word /\ a[2] \in Int
  /\ \A w \in Co, i \in Word : <<w, i>> \in Addr
  /\ \A i : i \in Word <=> i \in Int /\ -1 <= i /\ i < StackSize
<1>1. StackSize \in Int
  BY TopFacts
<1>2. \A i : i \in Word <=> i \in Int /\ -1 <= i /\ i < StackSize
  BY <1>1 DEF Word
<1> QED BY <1>2 DEF Addr

\* Two memories that agree from word r up hold the same frames there.
LEMMA FramesKept ==
  ASSUME NEW m, NEW n, NEW w, NEW r \in Int, -1 <= r, NEW p, Frames(m, w, r, p),
         \A i \in Word : r <= i => n[<<w, i>>] = m[<<w, i>>]
  PROVE  Frames(n, w, r, p)
<1>1. \A i \in Int : r <= i /\ i <= StackTop - 4 => i \in Word
  BY TopFacts, AddrFacts
<1>2. \A i \in r..StackTop - 5 : n[<<w, i>>] = m[<<w, i>>]
  BY <1>1, TopFacts
<1>3. r <= StackTop - 4 => n[<<w, StackTop - 4>>] = m[<<w, StackTop - 4>>]
  BY <1>1, TopFacts
<1> QED BY <1>2, <1>3 DEF Frames

\* The state scheduler_create sets up.
LEMMA ContextStart == ContextInit => CtxInv
<1> SUFFICES ASSUME ContextInit PROVE CtxInv
  OBVIOUS
<1>1. Sched \in Co /\ 0 \in Word /\ StackTop - 1 \in Word
  BY TopFacts, AddrFacts DEF Co
<1>2. <<Sched, 0>> \in Addr /\ <<Sched, StackTop - 1>> \in Addr
  BY <1>1, AddrFacts
<1>3. CtxTypes
  BY <1>2 DEF ContextInit, CtxTypes, Registers, Values, Place
<1>4. WhoRuns
  BY DEF ContextInit, WhoRuns
<1>5. OwnStack /\ Fresh /\ InStack
  BY DEF ContextInit, OwnStack, Fresh, InStack
<1> QED BY <1>3, <1>4, <1>5 DEF CtxInv

-----------------------------------------------------------------------------
(* What each step does *)

\* PROC(f, ...): only the new PROC's context and stack are written.
LEMMA CreateEffect ==
  ASSUME CtxInv, NEW w \in Proc, NEW l, Create(w, l)
  PROVE  /\ pc \in {"proc", "loop"}
         /\ w # Running
         /\ w # curr \/ pc = "loop"
         /\ life[w] = "free" /\ life' = [life EXCEPT ![w] = "new"]
         /\ UNCHANGED <<cpu, curr, pc>>
         /\ ctx' \in [Co -> Registers] /\ mem' \in [Addr -> Place]
         /\ ctx'[w].rsp = <<w, StackTop - 4>> /\ ctx'[w].rip = "proc_mainfxn"
         /\ ctx'[w].rdi = w
         /\ mem'[<<w, StackTop - 3>>] = "_trampoline"
         /\ \A x \in Co \ {w} : ctx'[x] = ctx[x]
         /\ \A a \in Addr : a[1] # w => mem'[a] = mem[a]
<1> DEFINE sp == <<w, StackTop - 4>>
           c == [reg |-> [cpu.reg EXCEPT !["rbp"] = Shift(sp, 1)],
                 rsp |-> sp, rip |-> "proc_mainfxn", rdi |-> w]
<1>1. /\ life[w] = "free" /\ pc \in {"proc", "loop"} /\ UNCHANGED <<cpu, curr, pc>>
      /\ life' = [life EXCEPT ![w] = "new"]
      /\ ctx' = [ctx EXCEPT ![w] = c]
      /\ mem' = [a \in Addr |-> IF a[1] # w THEN mem[a]
                                ELSE IF a = Shift(sp, 1) THEN "_trampoline"
                                ELSE Garbage]
  BY DEF Create, ctx_init
<1>2. w \in Co /\ StackTop - 4 \in Word /\ StackTop - 3 \in Word /\ StackTop - 4 + 1 = StackTop - 3
  BY TopFacts, AddrFacts DEF Co
<1>3. sp \in Addr /\ <<w, StackTop - 3>> \in Addr /\ Shift(sp, 1) = <<w, StackTop - 3>>
  BY <1>2, AddrFacts DEF Shift
<1>4. cpu \in Registers /\ ctx \in [Co -> Registers] /\ mem \in [Addr -> Place]
  BY DEF CtxInv, CtxTypes
<1>5. cpu.reg \in [Reg -> Values]
  BY <1>4 DEF Registers
<1>6. [cpu.reg EXCEPT !["rbp"] = Shift(sp, 1)] \in [Reg -> Values]
  <2>1. Shift(sp, 1) \in Values
    BY <1>3 DEF Values
  <2> HIDE DEF sp
  <2> QED BY <1>5, <2>1
<1>7. c \in Registers
  BY <1>2, <1>3, <1>6 DEF Registers, Place
<1>8. /\ c.rsp = <<w, StackTop - 4>> /\ c.rip = "proc_mainfxn" /\ c.rdi = w
  OBVIOUS
<1> HIDE DEF c, sp
<1>9. /\ ctx' \in [Co -> Registers] /\ ctx'[w] = c
      /\ \A x \in Co \ {w} : ctx'[x] = ctx[x]
  BY <1>1, <1>2, <1>4, <1>7
<1>10. /\ mem' \in [Addr -> Place] /\ \A a \in Addr : a[1] # w => mem'[a] = mem[a]
  BY <1>1, <1>4 DEF Place
<1>11. mem'[<<w, StackTop - 3>>] = "_trampoline"
  <2>1. <<w, StackTop - 3>>[1] = w
    OBVIOUS
  <2> QED BY <1>1, <1>3, <2>1
<1>12. w # Running /\ (w # curr \/ pc = "loop")
  BY <1>1, ContextAssumption DEF CtxInv, WhoRuns, Running
<1> QED BY <1>1, <1>8, <1>9, <1>10, <1>11, <1>12

\* ctx_switch writes one word below each of the two stack pointers, saves the
\* registers of the one and loads those of the other.
LEMMA SwitchEffect ==
  ASSUME CtxTypes, NEW from \in Co, NEW to \in Co, ctx_switch(from, to), from # to,
         cpu.rsp[1] = from, ctx[to].rsp[1] = to,
         cpu.rsp[2] >= 0, ctx[to].rsp[2] < StackSize - 1
  PROVE  /\ cpu' \in Registers /\ ctx' \in [Co -> Registers] /\ mem' \in [Addr -> Place]
         /\ cpu'.rsp = <<to, ctx[to].rsp[2] + 1>>
         /\ cpu'.rsp[1] = to /\ cpu'.rsp[2] = ctx[to].rsp[2] + 1
         /\ cpu'.rip = ctx[to].rip /\ cpu'.reg = ctx[to].reg /\ cpu'.rdi = ctx[to].rdi
         /\ ctx'[from].rsp = <<from, cpu.rsp[2] - 1>>
         /\ ctx'[from].rsp[1] = from /\ ctx'[from].rsp[2] = cpu.rsp[2] - 1
         /\ ctx'[from].rip = cpu.rip /\ ctx'[from].reg = cpu.reg
         /\ \A x \in Co \ {from} : ctx'[x] = ctx[x]
         /\ \A i \in Word : cpu.rsp[2] <= i => mem'[<<from, i>>] = mem[<<from, i>>]
         /\ \A i \in Word : ctx[to].rsp[2] + 1 <= i => mem'[<<to, i>>] = mem[<<to, i>>]
         /\ \A a \in Addr : a[1] \notin {from, to} => mem'[a] = mem[a]
<1>1. /\ cpu \in Registers /\ ctx \in [Co -> Registers] /\ mem \in [Addr -> Place]
      /\ ctx[from] \in Registers /\ ctx[to] \in Registers
  BY DEF CtxTypes
<1>2. /\ cpu.rsp \in Addr /\ cpu.rip \in Place /\ cpu.reg \in [Reg -> Values]
      /\ ctx[from].rdi \in Co \cup {Garbage} /\ ctx[to].rdi \in Co \cup {Garbage}
      /\ ctx[to].rsp \in Addr /\ ctx[to].rip \in Place /\ ctx[to].reg \in [Reg -> Values]
  BY <1>1 DEF Registers
<1>3. /\ cpu.rsp[2] \in Int /\ cpu.rsp[2] < StackSize /\ StackSize \in Int
      /\ ctx[to].rsp[2] \in Int /\ -1 <= ctx[to].rsp[2]
  BY <1>2, AddrFacts, TopFacts
<1>4. Shift(cpu.rsp, -1) \in Addr /\ Shift(cpu.rsp, -1) = <<from, cpu.rsp[2] - 1>>
  <2>1. cpu.rsp[2] + (-1) = cpu.rsp[2] - 1 /\ cpu.rsp[2] - 1 \in Word
    BY <1>3, AddrFacts
  <2>2. Shift(cpu.rsp, -1) = <<from, cpu.rsp[2] - 1>>
    BY <2>1 DEF Shift
  <2> QED BY <2>1, <2>2, AddrFacts
<1>5. Shift(ctx[to].rsp, 1) \in Addr /\ Shift(ctx[to].rsp, 1) = <<to, ctx[to].rsp[2] + 1>>
  <2>1. ctx[to].rsp[2] + 1 \in Word
    BY <1>3, AddrFacts
  <2>2. Shift(ctx[to].rsp, 1) = <<to, ctx[to].rsp[2] + 1>>
    BY DEF Shift
  <2> QED BY <2>1, <2>2, AddrFacts
<1>6. /\ Saved(from) \in Registers /\ Saved(from).rsp = <<from, cpu.rsp[2] - 1>>
      /\ Saved(from).rip = cpu.rip /\ Saved(from).reg = cpu.reg
  BY <1>2, <1>4 DEF Saved, Registers
<1>7. /\ Loaded(to) \in Registers /\ Loaded(to).rsp = <<to, ctx[to].rsp[2] + 1>>
      /\ Loaded(to).rip = ctx[to].rip /\ Loaded(to).reg = ctx[to].reg
      /\ Loaded(to).rdi = ctx[to].rdi
  BY <1>2, <1>5 DEF Loaded, Registers
<1>8. /\ ctx' \in [Co -> Registers] /\ ctx'[from] = Saved(from) /\ cpu' = Loaded(to)
      /\ \A x \in Co \ {from} : ctx'[x] = ctx[x]
  BY <1>1, <1>6 DEF ctx_switch
<1>9. ctx[to].rsp = <<to, ctx[to].rsp[2]>>
  BY <1>2, AddrFacts
<1>10. mem' = [mem EXCEPT ![<<from, cpu.rsp[2] - 1>>] = cpu.rip, ![<<to, ctx[to].rsp[2]>>] = Garbage]
  BY <1>4, <1>9 DEF ctx_switch
<1>11. mem' \in [Addr -> Place]
  BY <1>1, <1>2, <1>10 DEF Place
<1>12. \A a \in Addr : a # <<from, cpu.rsp[2] - 1>> /\ a # <<to, ctx[to].rsp[2]>> => mem'[a] = mem[a]
  BY <1>1, <1>10
<1>13. /\ \A i \in Word : cpu.rsp[2] <= i => mem'[<<from, i>>] = mem[<<from, i>>]
       /\ \A i \in Word : ctx[to].rsp[2] + 1 <= i => mem'[<<to, i>>] = mem[<<to, i>>]
  BY <1>3, <1>12, AddrFacts
<1>14. \A a \in Addr : a[1] \notin {from, to} => mem'[a] = mem[a]
  BY <1>12
<1>15. /\ <<to, ctx[to].rsp[2] + 1>>[1] = to /\ <<to, ctx[to].rsp[2] + 1>>[2] = ctx[to].rsp[2] + 1
       /\ <<from, cpu.rsp[2] - 1>>[1] = from /\ <<from, cpu.rsp[2] - 1>>[2] = cpu.rsp[2] - 1
  OBVIOUS
<1> QED BY <1>6, <1>7, <1>8, <1>11, <1>13, <1>14, <1>15

-----------------------------------------------------------------------------
(* Every step keeps the invariant *)

\* Where a PROC that does not run was stopped, and what its frames need.
LEMMA StackKept ==
  ASSUME CtxInv, NEW x \in Proc, life[x] # "free", x # Running,
         \A i \in Word : ctx[x].rsp[2] + 1 <= i => mem'[<<x, i>>] = mem[<<x, i>>]
  PROVE  /\ ctx[x].rsp[1] = x /\ ctx[x].rsp[2] \in Int
         /\ -1 <= ctx[x].rsp[2] /\ ctx[x].rsp[2] <= StackTop - 4
         /\ Frames(mem', x, ctx[x].rsp[2] + 1, ctx[x].rip)
<1>1. ctx[x].rsp[1] = x /\ Frames(mem, x, ctx[x].rsp[2] + 1, ctx[x].rip)
  BY DEF CtxInv, OwnStack
<1>2. ctx[x].rsp \in Addr
  BY DEF CtxInv, CtxTypes, Registers, Co
<1>3. ctx[x].rsp[2] \in Int /\ -1 <= ctx[x].rsp[2]
  BY <1>2, AddrFacts
<1>4. ctx[x].rsp[2] + 1 \in Int /\ -1 <= ctx[x].rsp[2] + 1
  BY <1>3
<1>5. ctx[x].rsp[2] + 1 <= StackTop - 3
  BY <1>1, <1>4, TopFacts DEF Frames
<1>6. Frames(mem', x, ctx[x].rsp[2] + 1, ctx[x].rip)
  BY <1>1, <1>4, FramesKept
<1> QED BY <1>1, <1>3, <1>5, <1>6, TopFacts

\* The same of the running PROC.
LEMMA CurrKept ==
  ASSUME CtxInv, pc = "proc",
         \A i \in Word : cpu.rsp[2] <= i => mem'[<<curr, i>>] = mem[<<curr, i>>]
  PROVE  /\ curr \in Proc /\ curr # Sched /\ Running = curr /\ life[curr] = "used"
         /\ cpu.rsp \in Addr /\ cpu.rsp = <<curr, cpu.rsp[2]>>
         /\ cpu.rsp[2] \in Int /\ -1 <= cpu.rsp[2] /\ cpu.rsp[2] <= StackTop - 3
         /\ Frames(mem', curr, cpu.rsp[2], cpu.rip)
<1>1. curr \in Proc /\ Running = curr /\ life[curr] = "used" /\ Frames(mem, curr, cpu.rsp[2], cpu.rip)
  BY DEF CtxInv, OwnStack, WhoRuns
<1>2. cpu.rsp \in Addr
  BY DEF CtxInv, CtxTypes, Registers
<1>3. cpu.rsp[2] \in Int /\ -1 <= cpu.rsp[2] /\ cpu.rsp = <<curr, cpu.rsp[2]>>
  BY <1>1, <1>2, AddrFacts DEF Running
<1>4. cpu.rsp[2] <= StackTop - 3
  BY <1>1, <1>3, TopFacts DEF Frames
<1>5. Frames(mem', curr, cpu.rsp[2], cpu.rip)
  BY <1>1, <1>3, FramesKept
<1> QED BY <1>1, <1>2, <1>3, <1>4, <1>5, ContextAssumption

\* A new PROC.
LEMMA CreateStep ==
  ASSUME CtxInv, NEW w \in Proc, NEW l, Create(w, l)
  PROVE  CtxInv'
<1>1. /\ pc \in {"proc", "loop"}
      /\ w # Running
      /\ w # curr \/ pc = "loop"
      /\ life[w] = "free" /\ life' = [life EXCEPT ![w] = "new"]
      /\ UNCHANGED <<cpu, curr, pc>>
      /\ ctx' \in [Co -> Registers] /\ mem' \in [Addr -> Place]
      /\ ctx'[w].rsp = <<w, StackTop - 4>> /\ ctx'[w].rip = "proc_mainfxn"
      /\ ctx'[w].rdi = w
      /\ mem'[<<w, StackTop - 3>>] = "_trampoline"
      /\ \A x \in Co \ {w} : ctx'[x] = ctx[x]
      /\ \A a \in Addr : a[1] # w => mem'[a] = mem[a]
  BY CreateEffect
<1>2. \A x \in Co \ {w}, i \in Word : mem'[<<x, i>>] = mem[<<x, i>>]
  BY <1>1, AddrFacts
<1>3. /\ cpu \in Registers /\ life \in [Proc -> {"free", "new", "used", "ended"}]
      /\ Sched \in Co \ {w} /\ \A x \in Proc : x \in Co
  BY ContextAssumption DEF CtxInv, CtxTypes, Co
<1>4. CtxTypes'
  BY <1>1, <1>3 DEF CtxInv, CtxTypes
<1>5. WhoRuns'
  BY <1>1, <1>3 DEF CtxInv, WhoRuns, Running
<1>6. OwnStack'
  <2>1. ASSUME pc = "proc" PROVE Frames(mem', curr, cpu.rsp[2], cpu.rip)
    <3>1. curr \in Co \ {w}
      BY <1>1, <1>3, <2>1 DEF CtxInv, WhoRuns
    <3> QED BY <1>2, <2>1, <3>1, CurrKept
  <2>2. ASSUME NEW x \in Proc, life'[x] # "free", x # Running
        PROVE  ctx'[x].rsp[1] = x /\ Frames(mem', x, ctx'[x].rsp[2] + 1, ctx'[x].rip)
    <3>1. CASE x = w
      <4>1. ctx'[x].rsp[1] = x /\ ctx'[x].rsp[2] + 1 = StackTop - 3
        BY <1>1, <3>1, TopFacts
      <4> QED BY <1>1, <3>1, <4>1, ContextAssumption DEF Frames
    <3>2. CASE x # w
      <4>1. x \in Co \ {w} /\ life[x] # "free" /\ ctx'[x] = ctx[x]
        BY <1>1, <1>3, <2>2, <3>2
      <4> QED BY <1>2, <2>2, <4>1, StackKept
    <3> QED BY <3>1, <3>2
  <2> QED BY <1>1, <2>1, <2>2 DEF OwnStack, Running
<1>7. Fresh'
  <2>1. StackTop - 3 \in Word
    BY TopFacts, AddrFacts
  <2> QED BY <1>1, <1>2, <1>3, <2>1 DEF CtxInv, Fresh
<1>8. InStack'
  <2>1. ctx'[w].rsp[2] >= 0
    BY <1>1, TopFacts
  <2> QED BY <1>1, <1>3, <2>1 DEF CtxInv, InStack
<1> QED BY <1>4, <1>5, <1>6, <1>7, <1>8 DEF CtxInv

\* What SwitchEffect needs when the scheduler resumes w.
LEMMA DispatchEffect ==
  ASSUME CtxInv, NEW w \in Proc, Dispatch(w)
  PROVE  /\ pc = "loop" /\ life[w] \in {"new", "used"} /\ w # Sched
         /\ Sched \in Co /\ w \in Co
         /\ cpu.rsp = <<Sched, StackTop - 1>> /\ cpu.rip = "scheduler_run"
         /\ cpu.rsp[1] = Sched /\ cpu.rsp[2] = StackTop - 1 /\ cpu.rsp[2] >= 0
         /\ ctx[w].rsp[1] = w /\ ctx[w].rsp[2] \in Int /\ -1 <= ctx[w].rsp[2]
         /\ ctx[w].rsp[2] < StackSize - 1
         /\ Frames(mem, w, ctx[w].rsp[2] + 1, ctx[w].rip)
         /\ ctx_switch(Sched, w) /\ CtxTypes
         /\ curr' = w /\ pc' = "proc" /\ life' = [life EXCEPT ![w] = "used"]
<1>1. /\ pc = "loop" /\ life[w] \in {"new", "used"} /\ ctx_switch(Sched, w)
      /\ curr' = w /\ pc' = "proc" /\ life' = [life EXCEPT ![w] = "used"]
  BY DEF Dispatch
<1>2. cpu.rsp = <<Sched, StackTop - 1>> /\ cpu.rip = "scheduler_run"
  BY <1>1 DEF CtxInv, WhoRuns
<1>3. w # Running /\ life[w] # "free" /\ w # Sched /\ w \in Co /\ Sched \in Co
  BY <1>1, <1>2, ContextAssumption DEF Running, Co
<1>4. ctx[w].rsp[1] = w /\ Frames(mem, w, ctx[w].rsp[2] + 1, ctx[w].rip)
  BY <1>3 DEF CtxInv, OwnStack
<1>5. ctx[w].rsp \in Addr
  BY <1>3 DEF CtxInv, CtxTypes, Registers
<1>6. ctx[w].rsp[2] \in Int /\ -1 <= ctx[w].rsp[2]
  BY <1>5, AddrFacts
<1>7. ctx[w].rsp[2] < StackSize - 1
  BY <1>4, <1>6, TopFacts DEF Frames
<1>8. cpu.rsp[1] = Sched /\ cpu.rsp[2] = StackTop - 1 /\ cpu.rsp[2] >= 0
  BY <1>2, TopFacts
<1> QED BY <1>1, <1>2, <1>3, <1>4, <1>6, <1>7, <1>8 DEF CtxInv

\* scheduler_run switches to a PROC.
LEMMA DispatchStep ==
  ASSUME CtxInv, NEW w \in Proc, Dispatch(w)
  PROVE  CtxInv'
<1>1. /\ pc = "loop" /\ life[w] \in {"new", "used"} /\ w # Sched
      /\ Sched \in Co /\ w \in Co
      /\ cpu.rip = "scheduler_run"
      /\ cpu.rsp[1] = Sched /\ cpu.rsp[2] = StackTop - 1 /\ cpu.rsp[2] >= 0
      /\ ctx[w].rsp[1] = w /\ ctx[w].rsp[2] \in Int /\ -1 <= ctx[w].rsp[2]
      /\ ctx[w].rsp[2] < StackSize - 1
      /\ Frames(mem, w, ctx[w].rsp[2] + 1, ctx[w].rip)
      /\ ctx_switch(Sched, w) /\ CtxTypes
      /\ curr' = w /\ pc' = "proc" /\ life' = [life EXCEPT ![w] = "used"]
  BY DispatchEffect
<1>2. /\ cpu' \in Registers /\ ctx' \in [Co -> Registers] /\ mem' \in [Addr -> Place]
      /\ cpu'.rsp[1] = w /\ cpu'.rsp[2] = ctx[w].rsp[2] + 1 /\ cpu'.rip = ctx[w].rip
      /\ ctx'[Sched].rsp = <<Sched, cpu.rsp[2] - 1>> /\ ctx'[Sched].rip = cpu.rip
      /\ \A x \in Co \ {Sched} : ctx'[x] = ctx[x]
      /\ \A i \in Word : ctx[w].rsp[2] + 1 <= i => mem'[<<w, i>>] = mem[<<w, i>>]
      /\ \A a \in Addr : a[1] \notin {Sched, w} => mem'[a] = mem[a]
  BY <1>1, SwitchEffect
<1>3. \A x \in Proc : /\ x \in Co \ {Sched}
                      /\ x # w => \A i \in Word : mem'[<<x, i>>] = mem[<<x, i>>]
  BY <1>1, <1>2, AddrFacts, ContextAssumption DEF Co
<1>4. life \in [Proc -> {"free", "new", "used", "ended"}]
  BY DEF CtxInv, CtxTypes
<1>5. CtxTypes'
  BY <1>1, <1>2, <1>4 DEF CtxTypes
<1>6. WhoRuns'
  <2>1. ctx'[Sched].rsp = <<Sched, StackTop - 2>>
    BY <1>1, <1>2, TopFacts
  <2>2. \A x \in Proc : life[x] # "ended"
    BY <1>1 DEF CtxInv, WhoRuns
  <2> QED BY <1>1, <1>2, <1>4, <2>1, <2>2 DEF WhoRuns, Running
<1>7. OwnStack'
  <2>1. Frames(mem', w, cpu'.rsp[2], cpu'.rip)
    <3>1. ctx[w].rsp[2] + 1 \in Int /\ -1 <= ctx[w].rsp[2] + 1
      BY <1>1
    <3>2. Frames(mem', w, ctx[w].rsp[2] + 1, ctx[w].rip)
      BY <1>1, <1>2, <3>1, FramesKept
    <3> QED BY <1>2, <3>2
  <2>2. ASSUME NEW x \in Proc, life'[x] # "free", x # w
        PROVE  ctx'[x].rsp[1] = x /\ Frames(mem', x, ctx'[x].rsp[2] + 1, ctx'[x].rip)
    <3>1. life[x] # "free" /\ x # Running /\ ctx'[x] = ctx[x]
      BY <1>1, <1>2, <1>3, <1>4, <2>2, ContextAssumption DEF Running
    <3> QED BY <1>3, <2>2, <3>1, StackKept
  <2> QED BY <1>1, <1>2, <2>1, <2>2 DEF OwnStack, Running
<1>8. Fresh'
  <2>1. StackTop - 3 \in Word
    BY TopFacts, AddrFacts
  <2> QED BY <1>1, <1>2, <1>3, <1>4, <2>1 DEF CtxInv, Fresh
<1>9. InStack'
  BY <1>1, <1>2, <1>3, <1>4 DEF CtxInv, InStack
<1> QED BY <1>5, <1>6, <1>7, <1>8, <1>9 DEF CtxInv

\* What SwitchEffect needs when a PROC yields.
LEMMA YieldEffect ==
  ASSUME CtxInv, NEW l \in {"used", "ended"}, proc_yield(l)
  PROVE  /\ pc = "proc" /\ pc' = "madvise" /\ curr' = curr
         /\ curr \in Proc /\ curr \in Co /\ Sched \in Co /\ curr # Sched
         /\ life[curr] = "used" /\ life' = [life EXCEPT ![curr] = l]
         /\ cpu.rsp[1] = curr /\ cpu.rsp[2] \in Int /\ cpu.rsp[2] >= 0
         /\ Frames(mem, curr, cpu.rsp[2], cpu.rip)
         /\ ctx[Sched].rsp[1] = Sched /\ ctx[Sched].rsp[2] = StackTop - 2
         /\ ctx[Sched].rip = "scheduler_run" /\ ctx[Sched].rsp[2] < StackSize - 1
         /\ ctx_switch(curr, Sched) /\ CtxTypes
<1>1. /\ pc = "proc" /\ pc' = "madvise" /\ curr' = curr /\ cpu.rsp[2] > -1
      /\ life' = [life EXCEPT ![curr] = l] /\ ctx_switch(curr, Sched)
  BY DEF proc_yield
<1>2. /\ curr \in Proc /\ Running = curr /\ life[curr] = "used"
      /\ ctx[Sched].rsp = <<Sched, StackTop - 2>> /\ ctx[Sched].rip = "scheduler_run"
      /\ Frames(mem, curr, cpu.rsp[2], cpu.rip)
  BY <1>1 DEF CtxInv, WhoRuns, OwnStack
<1>3. cpu.rsp \in Addr
  BY DEF CtxInv, CtxTypes, Registers
<1>4. cpu.rsp[2] \in Int /\ cpu.rsp[2] >= 0
  BY <1>1, <1>3, AddrFacts
<1>5. /\ ctx[Sched].rsp[1] = Sched /\ ctx[Sched].rsp[2] = StackTop - 2
      /\ ctx[Sched].rsp[2] < StackSize - 1
  BY <1>2, TopFacts
<1> QED BY <1>1, <1>2, <1>4, <1>5, ContextAssumption DEF Running, Co, CtxInv

\* A PROC switches back.
LEMMA YieldStep ==
  ASSUME CtxInv, NEW l \in {"used", "ended"}, proc_yield(l)
  PROVE  CtxInv'
<1>1. /\ pc = "proc" /\ pc' = "madvise" /\ curr' = curr
      /\ curr \in Proc /\ curr \in Co /\ Sched \in Co /\ curr # Sched
      /\ life[curr] = "used" /\ life' = [life EXCEPT ![curr] = l]
      /\ cpu.rsp[1] = curr /\ cpu.rsp[2] \in Int /\ cpu.rsp[2] >= 0
      /\ Frames(mem, curr, cpu.rsp[2], cpu.rip)
      /\ ctx[Sched].rsp[1] = Sched /\ ctx[Sched].rsp[2] = StackTop - 2
      /\ ctx[Sched].rip = "scheduler_run" /\ ctx[Sched].rsp[2] < StackSize - 1
      /\ ctx_switch(curr, Sched) /\ CtxTypes
  BY YieldEffect
<1>2. /\ cpu' \in Registers /\ ctx' \in [Co -> Registers] /\ mem' \in [Addr -> Place]
      /\ cpu'.rsp = <<Sched, ctx[Sched].rsp[2] + 1>> /\ cpu'.rip = ctx[Sched].rip
      /\ ctx'[curr].rsp[1] = curr /\ ctx'[curr].rsp[2] = cpu.rsp[2] - 1
      /\ ctx'[curr].rip = cpu.rip
      /\ \A x \in Co \ {curr} : ctx'[x] = ctx[x]
      /\ \A i \in Word : cpu.rsp[2] <= i => mem'[<<curr, i>>] = mem[<<curr, i>>]
      /\ \A a \in Addr : a[1] \notin {curr, Sched} => mem'[a] = mem[a]
  BY <1>1, SwitchEffect
<1>3. \A x \in Proc : /\ x \in Co
                      /\ x # curr => \A i \in Word : mem'[<<x, i>>] = mem[<<x, i>>]
  BY <1>1, <1>2, AddrFacts, ContextAssumption DEF Co
<1>4. life \in [Proc -> {"free", "new", "used", "ended"}]
  BY DEF CtxInv, CtxTypes
<1>5. cpu'.rsp = <<Sched, StackTop - 1>> /\ cpu'.rip = "scheduler_run"
  BY <1>1, <1>2, TopFacts
<1>6. CtxTypes'
  BY <1>1, <1>2, <1>4 DEF CtxTypes
<1>7. WhoRuns'
  <2>1. \A x \in Proc : life[x] # "ended"
    BY <1>1 DEF CtxInv, WhoRuns
  <2> QED BY <1>1, <1>4, <1>5, <2>1 DEF WhoRuns
<1>8. OwnStack'
  <2>1. ASSUME NEW x \in Proc, life'[x] # "free"
        PROVE  ctx'[x].rsp[1] = x /\ Frames(mem', x, ctx'[x].rsp[2] + 1, ctx'[x].rip)
    <3>1. CASE x = curr
      <4>1. Frames(mem', curr, cpu.rsp[2], cpu.rip)
        BY <1>1, <1>2, CurrKept
      <4>2. cpu.rsp[2] - 1 + 1 = cpu.rsp[2]
        BY <1>1
      <4> QED BY <1>2, <3>1, <4>1, <4>2
    <3>2. CASE x # curr
      <4>1. life[x] # "free" /\ x # Running /\ ctx'[x] = ctx[x]
        BY <1>1, <1>2, <1>3, <1>4, <2>1, <3>2 DEF Running
      <4> QED BY <1>3, <3>2, <4>1, StackKept
    <3> QED BY <3>1, <3>2
  <2> QED BY <1>1, <2>1 DEF OwnStack
<1>9. Fresh'
  <2>1. StackTop - 3 \in Word
    BY TopFacts, AddrFacts
  <2> QED BY <1>1, <1>2, <1>3, <1>4, <2>1 DEF CtxInv, Fresh
<1>10. InStack'
  BY <1>1, <1>2, <1>3, <1>4 DEF CtxInv, InStack
<1> QED BY <1>6, <1>7, <1>8, <1>9, <1>10 DEF CtxInv

\* What the code of a PROC does: it stays on its own stack and keeps its frames
\* in order.
LEMMA ComputeEffect ==
  ASSUME CtxInv, (\E v \in Val : Assign(v)) \/ (\E f \in Code : CallFunction(f)) \/ Return
  PROVE  /\ pc = "proc" /\ UNCHANGED <<ctx, curr, life, pc>>
         /\ cpu' \in Registers /\ mem' \in [Addr -> Place]
         /\ cpu'.rsp[1] = curr
         /\ Frames(mem', curr, cpu'.rsp[2], cpu'.rip)
         /\ \A a \in Addr : a[1] # curr => mem'[a] = mem[a]
<1>1. pc = "proc" /\ UNCHANGED <<ctx, curr, life, pc>>
  BY DEF Assign, CallFunction, Return
<1>2. /\ cpu \in Registers /\ mem \in [Addr -> Place] /\ curr \in Proc /\ curr \in Co
      /\ cpu.rsp[1] = curr /\ Frames(mem, curr, cpu.rsp[2], cpu.rip)
  BY <1>1 DEF CtxInv, CtxTypes, WhoRuns, OwnStack, Running, Co
<1>3. /\ cpu.rsp \in Addr /\ cpu.reg \in [Reg -> Values] /\ cpu.rip \in Place
      /\ cpu.rdi \in Co \cup {Garbage}
      /\ cpu = [reg |-> cpu.reg, rsp |-> cpu.rsp, rip |-> cpu.rip, rdi |-> cpu.rdi]
  BY <1>2 DEF Registers
<1>4. /\ cpu.rsp[2] \in Int /\ -1 <= cpu.rsp[2] /\ cpu.rsp[2] < StackSize
      /\ cpu.rsp = <<curr, cpu.rsp[2]>>
  BY <1>2, <1>3, AddrFacts
<1>5. ASSUME NEW v \in Val, Assign(v)
      PROVE  /\ cpu' \in Registers /\ mem' = mem
             /\ cpu'.rsp = cpu.rsp /\ cpu'.rip = cpu.rip
  <2>1. [cpu.reg EXCEPT !["rbx"] = v] \in [Reg -> Values]
    BY <1>3 DEF Values
  <2>2. cpu' = [cpu EXCEPT !.reg = [cpu.reg EXCEPT !["rbx"] = v]] /\ mem' = mem
    BY <1>5 DEF Assign
  <2> QED BY <1>2, <1>3, <2>1, <2>2 DEF Registers
<1>6. ASSUME NEW f \in Code, CallFunction(f)
      PROVE  /\ cpu' \in Registers /\ mem' \in [Addr -> Place] /\ cpu'.rsp[1] = curr
             /\ Frames(mem', curr, cpu'.rsp[2], cpu'.rip)
             /\ \A a \in Addr : a[1] # curr => mem'[a] = mem[a]
  <2> DEFINE r == cpu.rsp[2] - 1
             back == IF cpu.rip = "proc_mainfxn" THEN "fxn_returned" ELSE cpu.rip
  <2>1. cpu.rsp[2] > -1 /\ cpu.rip # "fxn_returned"
    BY <1>6 DEF CallFunction
  <2>2. r \in Word /\ r \in Int /\ cpu.rsp[2] + (-1) = r
    BY <1>4, <2>1, AddrFacts, TopFacts
  <2>3. Shift(cpu.rsp, -1) = <<curr, r>> /\ <<curr, r>> \in Addr
    BY <1>2, <2>2, AddrFacts DEF Shift
  <2>4. cpu' = [cpu EXCEPT !.rsp = <<curr, r>>, !.rip = f] /\ mem' = [mem EXCEPT ![<<curr, r>>] = back]
    BY <1>6, <2>3 DEF CallFunction
  <2>5. back \in Place /\ f \in Place
    BY <1>3 DEF Place
  <2>6. cpu' \in Registers /\ cpu'.rsp = <<curr, r>> /\ cpu'.rip = f
    <3> HIDE DEF r
    <3> QED BY <1>2, <1>3, <2>3, <2>4, <2>5 DEF Registers
  <2>7. mem' \in [Addr -> Place] /\ \A a \in Addr : mem'[a] = IF a = <<curr, r>> THEN back ELSE mem[a]
    <3> HIDE DEF r, back
    <3> QED BY <1>2, <2>3, <2>4, <2>5
  <2>8. \A i \in Word : mem'[<<curr, i>>] = IF i = r THEN back ELSE mem[<<curr, i>>]
    <3> HIDE DEF r, back
    <3> QED BY <1>2, <2>7, AddrFacts
  <2>9. \A i \in Int : r <= i /\ i <= StackTop - 4 => i \in Word
    <3>1. -1 <= r
      BY <1>4, <2>1
    <3> HIDE DEF r
    <3> QED BY <2>2, <3>1, TopFacts, AddrFacts
  <2>10. Frames(mem', curr, r, f)
    <3>1. CASE cpu.rip = "proc_mainfxn"
      <4>1. r = StackTop - 4 /\ back = "fxn_returned"
        BY <1>2, <3>1, TopFacts, ContextAssumption DEF Frames
      <4>2. mem'[<<curr, StackTop - 4>>] = "fxn_returned" /\ r..StackTop - 5 = {}
        BY <2>2, <2>8, <4>1, TopFacts
      <4> HIDE DEF r, back
      <4> QED BY <4>1, <4>2, TopFacts DEF Frames
    <3>2. CASE cpu.rip # "proc_mainfxn"
      <4>1. cpu.rip \in Code /\ back = cpu.rip
        BY <1>2, <2>1, <3>2 DEF Frames
      <4>2. /\ cpu.rsp[2] <= StackTop - 4 /\ mem[<<curr, StackTop - 4>>] = "fxn_returned"
            /\ \A i \in cpu.rsp[2]..StackTop - 5 : mem[<<curr, i>>] \in Code
        BY <1>2, <4>1 DEF Frames
      <4>3. r <= StackTop - 5 /\ StackTop - 4 \in Word
        BY <1>4, <2>9, <4>2, TopFacts
      <4>4. mem'[<<curr, StackTop - 4>>] = "fxn_returned"
        BY <2>2, <2>8, <4>2, <4>3, TopFacts
      <4>5. ASSUME NEW i \in r..StackTop - 5 PROVE mem'[<<curr, i>>] \in Code
        <5>1. i \in Int /\ i \in Word
          BY <2>2, <2>9, TopFacts
        <5>2. CASE i = r
          BY <2>8, <4>1, <5>1, <5>2
        <5>3. CASE i # r
          <6>1. i \in cpu.rsp[2]..StackTop - 5
            BY <1>4, <5>1, <5>3, TopFacts
          <6> QED BY <2>8, <4>2, <5>1, <5>3, <6>1
        <5> QED BY <5>2, <5>3
      <4> HIDE DEF r, back
      <4> QED BY <2>2, <4>3, <4>4, <4>5, TopFacts DEF Frames
    <3> QED BY <3>1, <3>2
  <2>11. cpu'.rsp[1] = curr /\ cpu'.rsp[2] = r
    BY <2>6
  <2>12. \A a \in Addr : a[1] # curr => mem'[a] = mem[a]
    BY <2>7
  <2> QED BY <2>6, <2>7, <2>10, <2>11, <2>12
<1>7. ASSUME Return
      PROVE  /\ cpu' \in Registers /\ mem' \in [Addr -> Place] /\ cpu'.rsp[1] = curr
             /\ Frames(mem', curr, cpu'.rsp[2], cpu'.rip)
             /\ \A a \in Addr : a[1] # curr => mem'[a] = mem[a]
  <2> DEFINE s == cpu.rsp[2]
             r == cpu.rsp[2] + 1
  <2>1. cpu.rip \in Code
    BY <1>7 DEF Return
  <2>2. /\ s <= StackTop - 4 /\ mem[<<curr, StackTop - 4>>] = "fxn_returned"
        /\ \A i \in s..StackTop - 5 : mem[<<curr, i>>] \in Code
    BY <1>2, <2>1 DEF Frames
  <2>3. s \in Int /\ r \in Int /\ r \in Word /\ s < r /\ r <= StackTop - 3 /\ -1 <= s
    BY <1>4, <2>2, TopFacts, AddrFacts
  <2>4. Shift(cpu.rsp, 1) = <<curr, r>> /\ <<curr, r>> \in Addr
    BY <1>2, <2>3, AddrFacts DEF Shift
  <2>5. mem[cpu.rsp] \in Place /\ mem[cpu.rsp] = mem[<<curr, s>>]
    BY <1>2, <1>3, <1>4
  <2>6. /\ cpu' = [cpu EXCEPT !.rsp = <<curr, r>>, !.rip = mem[<<curr, s>>]]
        /\ mem' = [mem EXCEPT ![<<curr, s>>] = Garbage]
    BY <1>4, <1>7, <2>4, <2>5 DEF Return
  <2>7. cpu' \in Registers /\ cpu'.rsp = <<curr, r>> /\ cpu'.rip = mem[<<curr, s>>]
    <3> HIDE DEF r, s
    <3> QED BY <1>2, <1>3, <2>4, <2>5, <2>6 DEF Registers
  <2>8. mem' \in [Addr -> Place] /\ \A a \in Addr : a # <<curr, s>> => mem'[a] = mem[a]
    <3> HIDE DEF r, s
    <3> QED BY <1>2, <2>6 DEF Place
  <2>9. \A i \in Word : i # s => mem'[<<curr, i>>] = mem[<<curr, i>>]
    <3> HIDE DEF r, s
    <3> QED BY <1>2, <2>8, AddrFacts
  <2>10. Frames(mem', curr, r, mem[<<curr, s>>])
    <3>1. CASE s = StackTop - 4
      <4>1. r = StackTop - 3 /\ mem[<<curr, s>>] = "fxn_returned"
        BY <2>2, <3>1, TopFacts
      <4> HIDE DEF r, s
      <4> QED BY <4>1, ContextAssumption DEF Frames
    <3>2. CASE s # StackTop - 4
      <4>1. s \in s..StackTop - 5 /\ r <= StackTop - 4
        BY <2>2, <2>3, <3>2, TopFacts
      <4>2. mem[<<curr, s>>] \in Code
        BY <2>2, <4>1
      <4>3. StackTop - 4 \in Word /\ \A i \in r..StackTop - 5 : i \in Word /\ i # s /\ i \in s..StackTop - 5
        <5> HIDE DEF r, s
        <5> QED BY <2>3, <4>1, TopFacts, AddrFacts
      <4>4. mem'[<<curr, StackTop - 4>>] = "fxn_returned"
        BY <2>2, <2>9, <3>2, <4>3
      <4>5. \A i \in r..StackTop - 5 : mem'[<<curr, i>>] \in Code
        <5> HIDE DEF r, s
        <5> QED BY <2>2, <2>9, <4>3
      <4> HIDE DEF r, s
      <4> QED BY <4>1, <4>2, <4>4, <4>5 DEF Frames
    <3> QED BY <3>1, <3>2
  <2>11. cpu'.rsp[1] = curr /\ cpu'.rsp[2] = r
    BY <2>7
  <2>12. \A a \in Addr : a[1] # curr => mem'[a] = mem[a]
    BY <2>8
  <2> QED BY <2>7, <2>8, <2>10, <2>11, <2>12
<1> QED BY <1>1, <1>2, <1>5, <1>6, <1>7

\* The code of the running PROC.
LEMMA ComputeStep ==
  ASSUME CtxInv, (\E v \in Val : Assign(v)) \/ (\E f \in Code : CallFunction(f)) \/ Return
  PROVE  CtxInv'
<1>1. /\ pc = "proc" /\ UNCHANGED <<ctx, curr, life, pc>>
      /\ cpu' \in Registers /\ mem' \in [Addr -> Place]
      /\ cpu'.rsp[1] = curr
      /\ Frames(mem', curr, cpu'.rsp[2], cpu'.rip)
      /\ \A a \in Addr : a[1] # curr => mem'[a] = mem[a]
  BY ComputeEffect
<1>2. \A x \in Proc : x # curr => \A i \in Word : mem'[<<x, i>>] = mem[<<x, i>>]
  BY <1>1, AddrFacts DEF Co
<1>3. curr \in Proc /\ Running = curr /\ life[curr] = "used"
  BY <1>1 DEF CtxInv, WhoRuns
<1>4. CtxTypes'
  BY <1>1 DEF CtxInv, CtxTypes
<1>5. WhoRuns'
  BY <1>1 DEF CtxInv, WhoRuns, Running
<1>6. OwnStack'
  <2>1. ASSUME NEW x \in Proc, life[x] # "free", x # curr
        PROVE  ctx[x].rsp[1] = x /\ Frames(mem', x, ctx[x].rsp[2] + 1, ctx[x].rip)
    BY <1>2, <1>3, <2>1, StackKept
  <2> QED BY <1>1, <2>1 DEF OwnStack, Running
<1>7. Fresh'
  <2>1. StackTop - 3 \in Word
    BY TopFacts, AddrFacts
  <2> QED BY <1>1, <1>2, <1>3, <2>1 DEF CtxInv, Fresh
<1>8. InStack'
  BY <1>1 DEF CtxInv, InStack
<1> QED BY <1>4, <1>5, <1>6, <1>7, <1>8 DEF CtxInv

\* ctx_madvise gives back words below the stack pointer only, and goes on only if
\* that points into the stack.
LEMMA MadviseEffect ==
  ASSUME CtxInv, Madvise
  PROVE  /\ pc = "madvise" /\ pc' \in {"panic", "switch"}
         /\ UNCHANGED <<cpu, ctx, curr, life>>
         /\ curr \in Proc /\ ctx[curr].rsp[2] \in Int
         /\ pc' = "switch" => ctx[curr].rsp[2] >= 0
         /\ mem' \in [Addr -> Place]
         /\ \A a \in Addr : a[1] # curr \/ ctx[curr].rsp[2] <= a[2] => mem'[a] = mem[a]
<1> DEFINE unused == ctx[curr].rsp[2]
           gone == Discarded(unused)
<1>1. /\ pc = "madvise" /\ UNCHANGED <<cpu, ctx, curr, life>>
      /\ \/ pc' = "panic" /\ mem' = mem
         \/ /\ pc' = "switch" /\ ~(unused < 0)
            /\ \/ mem' = mem
               \/ mem' = [a \in Addr |-> IF a[1] = curr /\ a[2] \in 0..gone - 1
                                         THEN Garbage ELSE mem[a]]
  BY DEF Madvise, ctx_madvise, Overflows
<1>2. curr \in Proc /\ mem \in [Addr -> Place] /\ ctx[curr].rsp \in Addr
  BY <1>1 DEF CtxInv, CtxTypes, WhoRuns, Registers, Co
<1>3. unused \in Int
  BY <1>2, AddrFacts
<1>4. ASSUME unused >= 0 PROVE gone \in Int /\ gone <= unused
  <2> HIDE DEF unused
  <2>1. PageSize \in Nat \ {0}
    BY ContextAssumption
  <2>2. unused % PageSize \in Int /\ 0 <= unused % PageSize
    BY <1>3, <1>4, <2>1
  <2>3. gone = unused - (unused % PageSize)
    BY DEF Discarded, page_floor
  <2> HIDE DEF gone
  <2> QED BY <1>3, <2>2, <2>3
<1>5. pc' = "switch" => unused >= 0
  BY <1>1, <1>3
<1>6. /\ mem' \in [Addr -> Place]
      /\ \A a \in Addr : a[1] # curr \/ unused <= a[2] => mem'[a] = mem[a]
  <2>1. CASE mem' = mem
    BY <1>2, <2>1
  <2>2. CASE mem' # mem
    <3>1. unused >= 0 /\ mem' = [a \in Addr |-> IF a[1] = curr /\ a[2] \in 0..gone - 1
                                                THEN Garbage ELSE mem[a]]
      BY <1>1, <1>3, <2>2
    <3>2. gone \in Int /\ gone <= unused
      BY <1>4, <3>1
    <3> HIDE DEF gone, unused
    <3>3. mem' \in [Addr -> Place]
      BY <1>2, <3>1 DEF Place
    <3>4. \A a \in Addr : unused <= a[2] => a[2] \notin 0..gone - 1
      BY <1>3, <3>2, AddrFacts
    <3> QED BY <3>1, <3>3, <3>4
  <2> QED BY <2>1, <2>2
<1> QED BY <1>1, <1>2, <1>3, <1>5, <1>6

\* The check and the release of pages after a PROC has yielded.
LEMMA MadviseStep ==
  ASSUME CtxInv, Madvise
  PROVE  CtxInv'
<1>1. /\ pc = "madvise" /\ pc' \in {"panic", "switch"}
      /\ UNCHANGED <<cpu, ctx, curr, life>>
      /\ curr \in Proc /\ ctx[curr].rsp[2] \in Int
      /\ pc' = "switch" => ctx[curr].rsp[2] >= 0
      /\ mem' \in [Addr -> Place]
      /\ \A a \in Addr : a[1] # curr \/ ctx[curr].rsp[2] <= a[2] => mem'[a] = mem[a]
  BY MadviseEffect
<1>2. \A x \in Proc, i \in Word :
        x # curr \/ ctx[x].rsp[2] + 1 <= i => mem'[<<x, i>>] = mem[<<x, i>>]
  <2> TAKE x \in Proc, i \in Word
  <2>1. <<x, i>> \in Addr /\ <<x, i>>[1] = x /\ <<x, i>>[2] = i /\ i \in Int
    BY AddrFacts DEF Co
  <2>2. x = curr /\ ctx[x].rsp[2] + 1 <= i => ctx[curr].rsp[2] <= i
    BY <1>1, <2>1
  <2> QED BY <1>1, <2>1, <2>2
<1>3. CtxTypes'
  BY <1>1 DEF CtxInv, CtxTypes
<1>4. WhoRuns'
  BY <1>1 DEF CtxInv, WhoRuns
<1>5. OwnStack'
  <2>1. ASSUME NEW x \in Proc, life[x] # "free", x # Running
        PROVE  ctx[x].rsp[1] = x /\ Frames(mem', x, ctx[x].rsp[2] + 1, ctx[x].rip)
    BY <1>2, <2>1, StackKept
  <2> QED BY <1>1, <2>1 DEF OwnStack, Running
<1>6. Fresh'
  <2>1. StackTop - 3 \in Word /\ life[curr] # "new"
    BY <1>1, TopFacts, AddrFacts DEF CtxInv, WhoRuns
  <2> QED BY <1>1, <1>2, <2>1 DEF CtxInv, Fresh
<1>7. InStack'
  BY <1>1 DEF CtxInv, InStack
<1> QED BY <1>3, <1>4, <1>5, <1>6, <1>7 DEF CtxInv

\* The end of the turn of the loop.
LEMMA AfterSwitchStep ==
  ASSUME CtxInv, AfterSwitch
  PROVE  CtxInv'
<1>1. /\ pc = "switch" /\ pc' = "loop" /\ UNCHANGED <<cpu, ctx, mem>>
      /\ life' = [life EXCEPT ![curr] = IF life[curr] = "ended" THEN "free" ELSE life[curr]]
  BY DEF AfterSwitch
<1>2. life \in [Proc -> {"free", "new", "used", "ended"}] /\ curr \in Proc
  BY <1>1 DEF CtxInv, CtxTypes, WhoRuns
<1>3. \A x \in Proc : life'[x] = IF life[x] = "ended" THEN "free" ELSE life[x]
  BY <1>1, <1>2 DEF CtxInv, WhoRuns
<1>4. CtxTypes'
  BY <1>1, <1>2 DEF CtxInv, CtxTypes
<1>5. WhoRuns'
  BY <1>1, <1>3 DEF CtxInv, WhoRuns
<1>6. OwnStack'
  BY <1>1, <1>2, <1>3 DEF CtxInv, OwnStack, Running
<1>7. Fresh' /\ InStack'
  BY <1>1, <1>2, <1>3 DEF CtxInv, Fresh, InStack
<1> QED BY <1>4, <1>5, <1>6, <1>7 DEF CtxInv

\* Every step keeps the invariant.
LEMMA ContextStep == CtxInv /\ [ContextNext]_vars => CtxInv'
<1>1. ASSUME CtxInv, UNCHANGED vars PROVE CtxInv'
  BY <1>1 DEF vars, CtxInv, CtxTypes, WhoRuns, OwnStack, Fresh, InStack, Running
<1> QED
  BY <1>1, CreateStep, DispatchStep, YieldStep, ComputeStep, MadviseStep, AfterSwitchStep
     DEF ContextNext, Panicked

-----------------------------------------------------------------------------
(* The refinement *)

\* The stack in memory m from address a up, and the machine that has its stack
\* pointer there.
StackIn(m, a) == [i \in 0..StackSize - 1 - a[2] |-> m[Shift(a, i)]]
MachineAt(g, p, a, m) == [reg |-> g, rip |-> p, rsp |-> a, stack |-> StackIn(m, a)]

\* A machine depends on the words above its stack pointer only.
LEMMA StackSame ==
  ASSUME NEW m, NEW n, NEW a \in Addr,
         \A i \in Word : a[2] <= i => n[<<a[1], i>>] = m[<<a[1], i>>]
  PROVE  StackIn(n, a) = StackIn(m, a)
<1>1. a[2] \in Int /\ -1 <= a[2] /\ StackSize \in Int
  BY AddrFacts, TopFacts
<1>2. ASSUME NEW i \in 0..StackSize - 1 - a[2] PROVE n[Shift(a, i)] = m[Shift(a, i)]
  <2>1. i \in Int /\ a[2] <= a[2] + i /\ a[2] + i \in Word
    BY <1>1, AddrFacts
  <2> QED BY <2>1 DEF Shift
<1> QED BY <1>2 DEF StackIn

\* A machine with a stack is one of Machine, so it is not NULL.
LEMMA MachineTyped ==
  ASSUME NEW g \in [Reg -> Values], NEW p \in Place, NEW a \in Addr, NEW m \in [Addr -> Place]
  PROVE  MachineAt(g, p, a, m) \in Machine /\ MachineAt(g, p, a, m) # NULL
<1> DEFINE n == StackSize - 1 - a[2]
<1>1. a[1] \in Co /\ a[2] \in Int /\ -1 <= a[2] /\ a[2] < StackSize /\ StackSize \in Int
  BY AddrFacts, TopFacts
<1>2. n \in 0..StackSize
  BY <1>1
<1>3. ASSUME NEW i \in 0..n PROVE m[Shift(a, i)] \in Place
  <2>1. i \in Int /\ a[2] + i \in Word
    BY <1>1, AddrFacts
  <2>2. Shift(a, i) \in Addr
    BY <1>1, <2>1, AddrFacts DEF Shift
  <2> QED BY <2>2
<1>4. StackIn(m, a) \in [0..n -> Place]
  BY <1>3 DEF StackIn
<1> HIDE DEF n
<1>5. StackIn(m, a) \in UNION {[0..k -> Place] : k \in 0..StackSize}
  BY <1>2, <1>4
<1>6. MachineAt(g, p, a, m) \in Machine
  BY <1>5 DEF MachineAt, Machine, Values
<1> QED BY <1>6, MachineAssumption

\* The machines there are, in one form.
LEMMA MachineForms ==
  /\ MachineOf(Running) = MachineAt(cpu.reg, cpu.rip, cpu.rsp, mem)
  /\ \A x : x # Running /\ (x = Sched \/ life[x] # "free") =>
       MachineOf(x) = MachineAt(ctx[x].reg, ctx[x].rip, Shift(ctx[x].rsp, 1), mem)
  /\ \A x : x # Running /\ x # Sched /\ life[x] = "free" => MachineOf(x) = NULL
BY DEF MachineOf, MachineAt, StackIn, StackFrom

\* Whoever does not run has room above its saved stack pointer.
LEMMA SavedPointer ==
  ASSUME CtxInv, NEW x \in Co, x # Running, x = Sched \/ life[x] # "free"
  PROVE  /\ ctx[x].rsp[1] = x /\ ctx[x].rsp[2] \in Int
         /\ Shift(ctx[x].rsp, 1) = <<x, ctx[x].rsp[2] + 1>>
         /\ Shift(ctx[x].rsp, 1) \in Addr
         /\ ctx[x].reg \in [Reg -> Values] /\ ctx[x].rip \in Place
<1>1. ctx[x].rsp \in Addr /\ ctx[x].reg \in [Reg -> Values] /\ ctx[x].rip \in Place
  BY DEF CtxInv, CtxTypes, Registers
<1>2. ctx[x].rsp[2] \in Int /\ -1 <= ctx[x].rsp[2]
  BY <1>1, AddrFacts
<1>3. ctx[x].rsp[1] = x /\ ctx[x].rsp[2] <= StackTop - 2
  <2>1. CASE x = Sched
    <3>1. pc = "proc"
      BY <2>1 DEF CtxInv, WhoRuns, Running
    <3>2. ctx[x].rsp = <<Sched, StackTop - 2>>
      BY <2>1, <3>1 DEF CtxInv, WhoRuns
    <3> QED BY <2>1, <3>2, TopFacts
  <2>2. CASE x # Sched
    <3>1. x \in Proc /\ life[x] # "free"
      BY <2>2 DEF Co
    <3>2. ctx[x].rsp[1] = x /\ Frames(mem, x, ctx[x].rsp[2] + 1, ctx[x].rip)
      BY <3>1 DEF CtxInv, OwnStack
    <3> QED BY <1>2, <3>2, TopFacts DEF Frames
  <2> QED BY <2>1, <2>2
<1>4. ctx[x].rsp[2] + 1 \in Word
  BY <1>2, <1>3, TopFacts, AddrFacts
<1>5. Shift(ctx[x].rsp, 1) = <<x, ctx[x].rsp[2] + 1>>
  BY <1>3 DEF Shift
<1> QED BY <1>1, <1>2, <1>3, <1>4, <1>5, AddrFacts

\* The scheduler and every PROC that exists have a machine.
AllHaveMachines ==
  \A x \in Co : x = Running \/ x = Sched \/ life[x] # "free" => MachineOf(x) # NULL

\* The invariant gives them one, before a step as after it.
LEMMA MachineExists == CtxInv => AllHaveMachines
<1> SUFFICES ASSUME CtxInv, NEW x \in Co, x = Running \/ x = Sched \/ life[x] # "free"
             PROVE  MachineOf(x) # NULL
  BY DEF AllHaveMachines
<1>1. mem \in [Addr -> Place]
  BY DEF CtxInv, CtxTypes
<1>2. CASE x = Running
  <2>1. cpu.rsp \in Addr /\ cpu.reg \in [Reg -> Values] /\ cpu.rip \in Place
    BY DEF CtxInv, CtxTypes, Registers
  <2> QED BY <1>1, <1>2, <2>1, MachineForms, MachineTyped
<1>3. CASE x # Running
  BY <1>1, <1>3, MachineForms, MachineTyped, SavedPointer
<1> QED BY <1>2, <1>3

\* A step leaves a machine alone that does not run before or after it, if it keeps
\* its context and the words above its stack pointer.
LEMMA MachineKept ==
  ASSUME CtxInv, NEW x \in Co, x # Running, x # Running', ctx'[x] = ctx[x],
         x # Sched => (life[x] = "free" <=> life'[x] = "free"),
         x = Sched \/ life[x] # "free" =>
           \A i \in Word : ctx[x].rsp[2] + 1 <= i => mem'[<<x, i>>] = mem[<<x, i>>]
  PROVE  MachineOf(x)' = MachineOf(x)
<1>1. CASE x # Sched /\ life[x] = "free"
  BY <1>1 DEF MachineOf
<1>2. CASE x = Sched \/ life[x] # "free"
  <2> DEFINE a == Shift(ctx[x].rsp, 1)
  <2>1. a \in Addr /\ a = <<x, ctx[x].rsp[2] + 1>>
    BY <1>2, SavedPointer
  <2>2. a[1] = x /\ a[2] = ctx[x].rsp[2] + 1
    BY <2>1
  <2>3. \A i \in Word : a[2] <= i => mem'[<<a[1], i>>] = mem[<<a[1], i>>]
    BY <1>2, <2>2
  <2>4. StackIn(mem', a) = StackIn(mem, a)
    <3> HIDE DEF a
    <3> QED BY <2>1, <2>3, StackSame
  <2>5. MachineOf(x) = MachineAt(ctx[x].reg, ctx[x].rip, a, mem)
    BY <1>2, MachineForms
  <2>6. MachineOf(x)' = MachineAt(ctx[x].reg, ctx[x].rip, a, mem')
    BY <1>2 DEF MachineOf, MachineAt, StackIn, StackFrom
  <2> QED BY <2>4, <2>5, <2>6 DEF MachineAt
<1> QED BY <1>1, <1>2

\* A switch changes neither of the two machines.
LEMMA SwitchKeeps ==
  ASSUME CtxInv, NEW from \in Co, NEW to \in Co, ctx_switch(from, to), from # to,
         cpu.rsp[1] = from, ctx[to].rsp[1] = to,
         cpu.rsp[2] >= 0, ctx[to].rsp[2] < StackSize - 1,
         to = Sched \/ life[to] # "free", from = Sched \/ life'[from] # "free",
         \A x \in Proc : life[x] = "free" <=> life'[x] = "free"
  PROVE  /\ Running = from /\ Running' = to
         /\ \A x \in Co : MachineOf(x)' = MachineOf(x)
<1>1. /\ cpu'.rsp = <<to, ctx[to].rsp[2] + 1>> /\ cpu'.rsp[1] = to
      /\ cpu'.rip = ctx[to].rip /\ cpu'.reg = ctx[to].reg
      /\ ctx'[from].rsp = <<from, cpu.rsp[2] - 1>>
      /\ ctx'[from].rsp[1] = from /\ ctx'[from].rsp[2] = cpu.rsp[2] - 1
      /\ ctx'[from].rip = cpu.rip /\ ctx'[from].reg = cpu.reg
      /\ \A x \in Co \ {from} : ctx'[x] = ctx[x]
      /\ \A i \in Word : cpu.rsp[2] <= i => mem'[<<from, i>>] = mem[<<from, i>>]
      /\ \A i \in Word : ctx[to].rsp[2] + 1 <= i => mem'[<<to, i>>] = mem[<<to, i>>]
      /\ \A a \in Addr : a[1] \notin {from, to} => mem'[a] = mem[a]
  BY SwitchEffect DEF CtxInv
<1>2. Running = from /\ Running' = to
  BY <1>1 DEF Running
<1>3. MachineOf(from)' = MachineOf(from)
  <2>1. cpu.rsp \in Addr
    BY DEF CtxInv, CtxTypes, Registers
  <2>2. cpu.rsp = <<from, cpu.rsp[2]>> /\ cpu.rsp[2] \in Int
    BY <2>1, AddrFacts
  <2>3. Shift(ctx'[from].rsp, 1) = cpu.rsp
    <3>1. cpu.rsp[2] - 1 + 1 = cpu.rsp[2]
      BY <2>2
    <3> QED BY <1>1, <2>2, <3>1 DEF Shift
  <2>4. StackIn(mem', cpu.rsp) = StackIn(mem, cpu.rsp)
    BY <1>1, <2>1, StackSame
  <2>5. MachineOf(from) = MachineAt(cpu.reg, cpu.rip, cpu.rsp, mem)
    BY <1>2, MachineForms
  <2>6. MachineOf(from)' = MachineAt(cpu.reg, cpu.rip, Shift(ctx'[from].rsp, 1), mem')
    BY <1>1, <1>2 DEF MachineOf, MachineAt, StackIn, StackFrom
  <2> QED BY <2>3, <2>4, <2>5, <2>6 DEF MachineAt
<1>4. MachineOf(to)' = MachineOf(to)
  <2> DEFINE a == Shift(ctx[to].rsp, 1)
  <2>1. a \in Addr /\ a = <<to, ctx[to].rsp[2] + 1>>
    BY <1>2, SavedPointer
  <2>2. a[1] = to /\ a[2] = ctx[to].rsp[2] + 1 /\ cpu'.rsp = a
    BY <1>1, <2>1
  <2>3. MachineOf(to) = MachineAt(ctx[to].reg, ctx[to].rip, a, mem)
    BY <1>2, MachineForms
  <2>4. MachineOf(to)' = MachineAt(cpu'.reg, cpu'.rip, cpu'.rsp, mem')
    BY <1>2 DEF MachineOf, MachineAt, StackIn, StackFrom, Running
  <2>5. StackIn(mem', a) = StackIn(mem, a)
    <3> HIDE DEF a
    <3>1. \A i \in Word : a[2] <= i => mem'[<<a[1], i>>] = mem[<<a[1], i>>]
      BY <1>1, <2>2
    <3> QED BY <2>1, <3>1, StackSame
  <2> HIDE DEF a
  <2> QED BY <1>1, <2>2, <2>3, <2>4, <2>5 DEF MachineAt
<1>5. ASSUME NEW x \in Co, x # from, x # to PROVE MachineOf(x)' = MachineOf(x)
  <2>1. \A i \in Word : mem'[<<x, i>>] = mem[<<x, i>>]
    BY <1>1, <1>5, AddrFacts
  <2>2. x # Sched => (life[x] = "free" <=> life'[x] = "free")
    BY DEF Co
  <2> QED BY <1>1, <1>2, <1>5, <2>1, <2>2, MachineKept
<1> QED BY <1>2, <1>3, <1>4, <1>5

\* PROC(f, ...) makes a machine and touches no other one.
LEMMA CreateRefines ==
  ASSUME CtxInv, CtxInv', NEW w \in Proc, NEW l, Create(w, l)
  PROVE  Own!CoNext
<1>1. /\ w # Running /\ life[w] = "free" /\ life' = [life EXCEPT ![w] = "new"]
      /\ UNCHANGED <<cpu, curr, pc>>
      /\ ctx'[w].rsp = <<w, StackTop - 4>> /\ ctx'[w].rip = "proc_mainfxn"
      /\ \A x \in Co \ {w} : ctx'[x] = ctx[x]
      /\ \A a \in Addr : a[1] # w => mem'[a] = mem[a]
  BY CreateEffect
<1>2. /\ life \in [Proc -> {"free", "new", "used", "ended"}]
      /\ w \in Co /\ w # Sched /\ Running' = Running
  BY <1>1, ContextAssumption DEF CtxInv, CtxTypes, Co, Running
<1>3. MachineOf(w) = NULL
  BY <1>1, <1>2, MachineForms
<1>4. AtEntry(MachineOf(w)', w)
  <2>1. life'[w] = "new"
    BY <1>1, <1>2
  <2>2. MachineOf(w)' # NULL
    <3>1. AllHaveMachines'
      BY MachineExists, PTL
    <3> QED BY <1>2, <2>1, <3>1 DEF AllHaveMachines
  <2>3. MachineOf(w)'.rip = "proc_mainfxn" /\ MachineOf(w)'.rsp = Shift(ctx'[w].rsp, 1)
    BY <1>1, <1>2, <2>1 DEF MachineOf
  <2>4. Shift(ctx'[w].rsp, 1)[1] = w
    BY <1>1 DEF Shift
  <2> QED BY <2>2, <2>3, <2>4 DEF AtEntry
<1>5. ASSUME NEW x \in Co \ {w} PROVE MachineOf(x)' = MachineOf(x)
  <2>1. \A i \in Word : mem'[<<x, i>>] = mem[<<x, i>>]
    BY <1>1, AddrFacts
  <2>2. CASE x = Running
    <3>1. cpu.rsp \in Addr
      BY DEF CtxInv, CtxTypes, Registers
    <3>2. StackIn(mem', cpu.rsp) = StackIn(mem, cpu.rsp)
      BY <2>1, <2>2, <3>1, StackSame DEF Running
    <3>3. MachineOf(x) = MachineAt(cpu.reg, cpu.rip, cpu.rsp, mem)
      BY <2>2, MachineForms
    <3>4. MachineOf(x)' = MachineAt(cpu.reg, cpu.rip, cpu.rsp, mem')
      BY <1>1, <1>2, <2>2 DEF MachineOf, MachineAt, StackIn, StackFrom
    <3> QED BY <3>2, <3>3, <3>4 DEF MachineAt
  <2>3. CASE x # Running
    <3>1. x # Sched => life'[x] = life[x]
      BY <1>1, <1>2 DEF Co
    <3> QED BY <1>1, <1>2, <2>1, <2>3, <3>1, MachineKept
  <2> QED BY <2>2, <2>3
<1>6. Own!Create(w)
  BY <1>1, <1>2, <1>3, <1>4, <1>5 DEF Own!Create
<1> QED BY <1>2, <1>6 DEF Own!CoNext

\* A switch in either direction changes who runs.
LEMMA SwitchRefines ==
  ASSUME CtxInv, (\E w \in Proc : Dispatch(w)) \/ (\E l \in {"used", "ended"} : proc_yield(l))
  PROVE  Own!CoNext
<1>1. life \in [Proc -> {"free", "new", "used", "ended"}]
  BY DEF CtxInv, CtxTypes
<1>2. ASSUME NEW w \in Proc, Dispatch(w) PROVE Own!CoNext
  <2>1. /\ life[w] \in {"new", "used"} /\ w # Sched /\ Sched \in Co /\ w \in Co
        /\ cpu.rsp[1] = Sched /\ cpu.rsp[2] >= 0
        /\ ctx[w].rsp[1] = w /\ ctx[w].rsp[2] < StackSize - 1
        /\ ctx_switch(Sched, w) /\ life' = [life EXCEPT ![w] = "used"]
    BY <1>2, DispatchEffect
  <2>2. \A x \in Proc : life[x] = "free" <=> life'[x] = "free"
    BY <1>1, <2>1
  <2>3. Running = Sched /\ Running' = w /\ \A x \in Co : MachineOf(x)' = MachineOf(x)
    BY <2>1, <2>2, SwitchKeeps
  <2>4. MachineOf(w) # NULL
    BY <2>1, MachineExists DEF AllHaveMachines
  <2>5. Own!Switch(w)
    BY <2>1, <2>3, <2>4 DEF Own!Switch
  <2> QED BY <2>1, <2>5 DEF Own!CoNext
<1>3. ASSUME NEW l \in {"used", "ended"}, proc_yield(l) PROVE Own!CoNext
  <2>1. /\ curr \in Proc /\ curr \in Co /\ Sched \in Co /\ curr # Sched
        /\ life[curr] = "used" /\ life' = [life EXCEPT ![curr] = l]
        /\ cpu.rsp[1] = curr /\ cpu.rsp[2] >= 0
        /\ ctx[Sched].rsp[1] = Sched /\ ctx[Sched].rsp[2] < StackSize - 1
        /\ ctx_switch(curr, Sched)
    BY <1>3, YieldEffect
  <2>2. /\ \A x \in Proc : life[x] = "free" <=> life'[x] = "free"
        /\ life'[curr] # "free"
    BY <1>1, <2>1
  <2>3. Running = curr /\ Running' = Sched /\ \A x \in Co : MachineOf(x)' = MachineOf(x)
    BY <2>1, <2>2, SwitchKeeps
  <2>4. MachineOf(Sched) # NULL
    BY <2>1, MachineExists DEF AllHaveMachines
  <2>5. Own!Switch(Sched)
    BY <2>1, <2>3, <2>4 DEF Own!Switch
  <2> QED BY <2>1, <2>5 DEF Own!CoNext
<1> QED BY <1>2, <1>3

\* The code of a PROC works on its own machine.
LEMMA ComputeRefines ==
  ASSUME CtxInv, CtxInv',
         (\E v \in Val : Assign(v)) \/ (\E f \in Code : CallFunction(f)) \/ Return
  PROVE  Own!CoNext
<1>1. /\ pc = "proc" /\ UNCHANGED <<ctx, curr, life, pc>> /\ cpu'.rsp[1] = curr
      /\ \A a \in Addr : a[1] # curr => mem'[a] = mem[a]
  BY ComputeEffect
<1>2. Running = curr /\ Running' = curr /\ curr \in Co
  BY <1>1 DEF CtxInv, WhoRuns, Running, Co
<1>3. ASSUME NEW x \in Co \ {Running} PROVE MachineOf(x)' = MachineOf(x)
  <2>1. \A i \in Word : mem'[<<x, i>>] = mem[<<x, i>>]
    BY <1>1, <1>2, AddrFacts
  <2> QED BY <1>1, <1>2, <2>1, MachineKept
<1>4. ASSUME NEW x \in Co, x = Running' PROVE MachineOf(x)' # NULL
  <2>1. AllHaveMachines'
    BY MachineExists, PTL
  <2> QED BY <1>4, <2>1 DEF AllHaveMachines
<1>5. Own!Compute
  BY <1>2, <1>3, <1>4 DEF Own!Compute
<1> QED BY <1>5 DEF Own!CoNext

\* What ctx_madvise gives back belongs to no machine.
LEMMA MadviseRefines ==
  ASSUME CtxInv, Madvise
  PROVE  Running' = Running /\ \A x \in Co : MachineOf(x)' = MachineOf(x)
<1>1. /\ pc = "madvise" /\ UNCHANGED <<cpu, ctx, curr, life>>
      /\ curr \in Proc /\ ctx[curr].rsp[2] \in Int
      /\ \A a \in Addr : a[1] # curr \/ ctx[curr].rsp[2] <= a[2] => mem'[a] = mem[a]
  BY MadviseEffect
<1>2. Running = Sched /\ Running' = Running /\ curr # Sched
  BY <1>1, ContextAssumption DEF CtxInv, WhoRuns, Running
<1>3. ASSUME NEW x \in Co PROVE MachineOf(x)' = MachineOf(x)
  <2>1. CASE x = Sched
    <3>1. cpu.rsp \in Addr /\ cpu.rsp[1] = Sched
      BY <1>2 DEF CtxInv, CtxTypes, Registers, Running
    <3>2. \A i \in Word : mem'[<<Sched, i>>] = mem[<<Sched, i>>]
      BY <1>1, <1>2, <2>1, AddrFacts
    <3>3. StackIn(mem', cpu.rsp) = StackIn(mem, cpu.rsp)
      BY <3>1, <3>2, StackSame
    <3>4. MachineOf(x) = MachineAt(cpu.reg, cpu.rip, cpu.rsp, mem)
      BY <1>2, <2>1, MachineForms
    <3>5. MachineOf(x)' = MachineAt(cpu.reg, cpu.rip, cpu.rsp, mem')
      BY <1>1, <1>2, <2>1 DEF MachineOf, MachineAt, StackIn, StackFrom
    <3> QED BY <3>3, <3>4, <3>5 DEF MachineAt
  <2>2. CASE x # Sched
    <3>1. ASSUME life[x] # "free", NEW i \in Word, ctx[x].rsp[2] + 1 <= i
          PROVE  mem'[<<x, i>>] = mem[<<x, i>>]
      <4>1. <<x, i>> \in Addr /\ <<x, i>>[1] = x /\ <<x, i>>[2] = i /\ i \in Int
        BY AddrFacts
      <4>2. x = curr => ctx[curr].rsp[2] <= i
        BY <1>1, <3>1, <4>1
      <4> QED BY <1>1, <4>1, <4>2
    <3> QED BY <1>1, <1>2, <2>2, <3>1, MachineKept
  <2> QED BY <2>1, <2>2
<1> QED BY <1>2, <1>3

\* proc_free ends a machine; a PROC that goes on keeps its own.
LEMMA AfterSwitchRefines ==
  ASSUME CtxInv, AfterSwitch
  PROVE  \/ Own!CoNext
         \/ Running' = Running /\ \A x \in Co : MachineOf(x)' = MachineOf(x)
<1>1. /\ pc = "switch" /\ UNCHANGED <<cpu, ctx, mem>>
      /\ life' = [life EXCEPT ![curr] = IF life[curr] = "ended" THEN "free" ELSE life[curr]]
  BY DEF AfterSwitch
<1>2. /\ life \in [Proc -> {"free", "new", "used", "ended"}] /\ curr \in Proc /\ curr \in Co
      /\ Running = Sched /\ Running' = Sched /\ curr # Sched /\ life[curr] \in {"used", "ended"}
  BY <1>1, ContextAssumption DEF CtxInv, CtxTypes, WhoRuns, Running, Co
<1>3. ASSUME NEW x \in Co, x = Sched \/ life'[x] = life[x] PROVE MachineOf(x)' = MachineOf(x)
  <2>1. x = Sched => MachineOf(x)' = MachineOf(x)
    BY <1>1, <1>2 DEF MachineOf, StackFrom
  <2>2. x # Sched => MachineOf(x)' = MachineOf(x)
    BY <1>1, <1>2, <1>3 DEF MachineOf, StackFrom
  <2> QED BY <2>1, <2>2
<1>4. CASE life[curr] = "ended"
  <2> PICK w \in Co : w = curr
    BY <1>2
  <2>1. life'[w] = "free" /\ \A x \in Proc : x # w => life'[x] = life[x]
    BY <1>1, <1>2, <1>4
  <2>2. MachineOf(w)' = NULL
    BY <1>2, <2>1 DEF MachineOf
  <2>3. \A x \in Co : x # w => MachineOf(x)' = MachineOf(x)
    BY <1>3, <2>1 DEF Co
  <2>4. [x \in Co |-> MachineOf(x)]' = [[x \in Co |-> MachineOf(x)] EXCEPT ![w] = NULL]
    BY <2>2, <2>3
  <2>5. Own!Free(w)
    BY <1>2, <2>4 DEF Own!Free
  <2> QED BY <2>5 DEF Own!CoNext
<1>5. CASE life[curr] # "ended"
  <2>1. life' = life
    BY <1>1, <1>2, <1>5
  <2> QED BY <1>2, <1>3, <2>1
<1> QED BY <1>4, <1>5

-----------------------------------------------------------------------------
(* The theorems *)

\* No PROC that has been seen outside of its stack is ever resumed: whatever the
\* sizes of stacks and pages, ctx_madvise checks each PROC that yields before
\* another one runs.
THEOREM OverflowsAreCaught == ContextSpec => []OverflowStops
<1>1. CtxInv => OverflowStops
  BY DEF CtxInv, InStack, OverflowStops
<1> QED BY <1>1, ContextStart, ContextStep, PTL DEF ContextSpec

\* A PROC's first instruction is that of proc_mainfxn, with the PROC itself as the
\* argument, with the alignment the calling convention wants, and with _trampoline
\* as the return address, whatever ran on the processor before.
THEOREM StartsInMain == ContextSpec => EntersMain
<1> DEFINE Enters ==
             \A w \in Proc : life[w] = "new" /\ life'[w] = "used" =>
               /\ cpu'.rip = "proc_mainfxn"
               /\ cpu'.rdi = w
               /\ cpu'.rsp \in {w} \X {i \in 0..StackSize - 1 : i % 2 = 1}
               /\ mem'[cpu'.rsp] = "_trampoline"
<1>1. CtxInv /\ [ContextNext]_vars => [Enters]_vars
  <2> SUFFICES ASSUME CtxInv, ContextNext, NEW w \in Proc,
                      life[w] = "new", life'[w] = "used"
               PROVE  /\ cpu'.rip = "proc_mainfxn"
                      /\ cpu'.rdi = w
                      /\ cpu'.rsp \in {w} \X {i \in 0..StackSize - 1 : i % 2 = 1}
                      /\ mem'[cpu'.rsp] = "_trampoline"
    OBVIOUS
  <2>1. life \in [Proc -> {"free", "new", "used", "ended"}]
    BY DEF CtxInv, CtxTypes
  <2>2. Dispatch(w)
    <3>1. ASSUME NEW x \in Proc, NEW l, Create(x, l) PROVE FALSE
      BY <2>1, <3>1 DEF Create
    <3>2. ASSUME NEW x \in Proc, Dispatch(x) PROVE x = w
      BY <2>1, <3>2 DEF Dispatch
    <3>3. ASSUME NEW l \in {"used", "ended"}, proc_yield(l) PROVE FALSE
      <4>1. curr # w /\ life' = [life EXCEPT ![curr] = l]
        BY <3>3, YieldEffect
      <4> QED BY <2>1, <4>1
    <3>4. ASSUME AfterSwitch PROVE FALSE
      BY <2>1, <3>4 DEF AfterSwitch
    <3>5. ASSUME life' = life PROVE FALSE
      BY <3>5
    <3> QED
      BY <3>1, <3>2, <3>3, <3>4, <3>5
         DEF ContextNext, Madvise, Assign, CallFunction, Return, Panicked, vars
  <2>3. /\ w # Sched /\ Sched \in Co /\ w \in Co /\ cpu.rsp[1] = Sched /\ cpu.rsp[2] >= 0
        /\ ctx[w].rsp[1] = w /\ ctx[w].rsp[2] < StackSize - 1
        /\ ctx_switch(Sched, w) /\ CtxTypes
    BY <2>2, DispatchEffect
  <2>4. /\ cpu'.rsp = <<w, ctx[w].rsp[2] + 1>> /\ cpu'.rip = ctx[w].rip
        /\ cpu'.rdi = ctx[w].rdi
        /\ \A i \in Word : ctx[w].rsp[2] + 1 <= i => mem'[<<w, i>>] = mem[<<w, i>>]
    BY <2>3, SwitchEffect
  <2>5. /\ ctx[w].rsp = <<w, StackTop - 4>> /\ ctx[w].rip = "proc_mainfxn"
        /\ ctx[w].rdi = w /\ mem[<<w, StackTop - 3>>] = "_trampoline"
    BY DEF CtxInv, Fresh
  <2>6. ctx[w].rsp[2] + 1 = StackTop - 3 /\ StackTop - 3 \in Word
    BY <2>5, TopFacts, AddrFacts
  <2>7. (StackTop - 3) % 2 = 1 /\ StackTop - 3 \in 0..StackSize - 1
    <3>1. PICK k \in Int : StackTop = 2 * k
      BY TopFacts
    <3>2. StackTop - 3 = 2 * (k - 2) + 1 /\ k - 2 \in Int
      BY <3>1
    <3>3. (2 * (k - 2) + 1) % 2 = 1
      BY <3>1
    <3> QED BY <3>2, <3>3, TopFacts
  <2>8. cpu'.rsp = <<w, StackTop - 3>> /\ mem'[<<w, StackTop - 3>>] = "_trampoline"
    BY <2>4, <2>5, <2>6, TopFacts
  <2> QED BY <2>4, <2>5, <2>7, <2>8
<1> QED BY <1>1, ContextStart, ContextStep, PTL DEF ContextSpec, EntersMain

\* Whoever runs in between, whatever they do to their registers and stacks and
\* whichever pages ctx_madvise has given back: a PROC finds its callee-saved
\* registers, its stack and its place in the code as it left them.
THEOREM SwitchesKeepMachines == ContextSpec => ImplementsCoroutines
<1>1. ContextInit => Own!CoInit
  BY ContextAssumption DEF Own!CoInit, MachineOf, ContextInit, Running, Co
<1>2. CtxInv /\ CtxInv' /\ [ContextNext]_vars
        => [Own!CoNext]_<<Running, [w \in Co |-> MachineOf(w)]>>
  <2> SUFFICES ASSUME CtxInv, CtxInv', [ContextNext]_vars
               PROVE  \/ Own!CoNext
                      \/ Running' = Running /\ \A x \in Co : MachineOf(x)' = MachineOf(x)
    OBVIOUS
  <2>1. ASSUME UNCHANGED vars
        PROVE  Running' = Running /\ \A x \in Co : MachineOf(x)' = MachineOf(x)
    BY <2>1 DEF vars, Running, MachineOf, StackFrom
  <2> QED
    BY <2>1, CreateRefines, SwitchRefines, ComputeRefines, MadviseRefines, AfterSwitchRefines
       DEF ContextNext, Panicked
<1> QED
  BY <1>1, <1>2, ContextStart, ContextStep, PTL
     DEF ContextSpec, ImplementsCoroutines, Own!CoSpec

-----------------------------------------------------------------------------
(* Arguments *)

\* The state of the loop in proc_setargs over arguments from S: args, tmp_args and
\* curr_n, which is below ARGS_N between two rounds.
Loop(S) == [args : Seq(S), tmp : [1..ARGS_N -> S], n : 0..ARGS_N - 1]

\* The arguments it has taken so far.
Taken(s) == s.args \o SubSeq(s.tmp, 1, s.n)

CopyArgs(s) == [args |-> s.args \o SubSeq(s.tmp, 1, s.n), tmp |-> s.tmp, n |-> 0]
AddArg(s, x) == [args |-> s.args, tmp |-> [s.tmp EXCEPT ![s.n + 1] = x], n |-> s.n + 1]
Round(s, x) == IF AddArg(s, x).n = ARGS_N THEN CopyArgs(AddArg(s, x)) ELSE AddArg(s, x)

\* A round takes its argument, whether or not it fills tmp_args.
LEMMA RoundTakes ==
  ASSUME NEW S, NEW s \in Loop(S), NEW x \in S
  PROVE  Round(s, x) \in Loop(S) /\ Taken(Round(s, x)) = Append(Taken(s), x)
<1> DEFINE t == [s.tmp EXCEPT ![s.n + 1] = x]
           m == s.n + 1
<1>1. ARGS_N \in Nat /\ ARGS_N # 0
  BY ContextAssumption
<1>2. s.args \in Seq(S) /\ s.tmp \in [1..ARGS_N -> S] /\ s.n \in 0..ARGS_N - 1
  BY DEF Loop
<1>3. m \in 1..ARGS_N /\ t \in [1..ARGS_N -> S]
  BY <1>1, <1>2
<1>4. /\ t \in Seq(S) /\ Len(t) = ARGS_N /\ s.tmp \in Seq(S) /\ Len(s.tmp) = ARGS_N
  <2> HIDE DEF t
  <2> QED BY <1>1, <1>2, <1>3, LenProperties
<1>5. SubSeq(t, 1, m) = Append(SubSeq(s.tmp, 1, s.n), x)
  <2> DEFINE a == SubSeq(t, 1, m)
             b == SubSeq(s.tmp, 1, s.n)
  <2>0. \A i \in 1..ARGS_N : t[i] = IF i = m THEN x ELSE s.tmp[i]
    BY <1>2
  <2> HIDE DEF t, m
  <2>1. a \in Seq(S) /\ Len(a) = m /\ \A i \in 1..m : a[i] = t[i]
    BY <1>3, <1>4
  <2>2. b \in Seq(S) /\ Len(b) = s.n /\ \A i \in 1..s.n : b[i] = s.tmp[i]
    BY <1>2, <1>4
  <2> HIDE DEF a, b
  <2>3. m = s.n + 1 /\ s.n \in Nat
    BY <1>2 DEF m
  <2>4. /\ Append(b, x) \in Seq(S) /\ Len(Append(b, x)) = m
        /\ \A i \in 1..m : Append(b, x)[i] = IF i = m THEN x ELSE b[i]
    BY <2>2, <2>3
  <2>5. \A i \in 1..m : a[i] = Append(b, x)[i]
    <3> TAKE i \in 1..m
    <3>1. i \in 1..ARGS_N /\ (i # m => i \in 1..s.n)
      BY <1>1, <1>3, <2>3
    <3> QED BY <2>0, <2>1, <2>2, <2>4, <3>1
  <2>6. a = Append(b, x)
    BY <2>1, <2>4, <2>5, SeqEqual
  <2> QED BY <2>6 DEF a, b
<1>6. SubSeq(t, 1, m) \in Seq(S) /\ SubSeq(s.tmp, 1, s.n) \in Seq(S)
  BY <1>2, <1>3, <1>4
<1>7. s.args \o SubSeq(t, 1, m) = Append(Taken(s), x)
  <2> DEFINE b == SubSeq(s.tmp, 1, s.n)
  <2>1. b \in Seq(S)
    BY <1>6
  <2> HIDE DEF b
  <2>2. s.args \o Append(b, x) = Append(s.args \o b, x)
    <3>1. s.args \o b \in Seq(S) /\ <<x>> \in Seq(S)
      BY <1>2, <2>1
    <3>2. Append(b, x) = b \o <<x>> /\ Append(s.args \o b, x) = (s.args \o b) \o <<x>>
      BY <2>1, <3>1, AppendIsConcat
    <3>3. (s.args \o b) \o <<x>> = s.args \o (b \o <<x>>)
      <4> DEFINE p == s.args
                 u == <<x>>
      <4>1. p \in Seq(S) /\ u \in Seq(S)
        BY <1>2, <3>1
      <4> HIDE DEF p, u
      <4>2. (p \o b) \o u = p \o (b \o u)
        BY <2>1, <4>1, ConcatAssociative
      <4> QED BY <4>2 DEF p, u
    <3> QED BY <3>2, <3>3
  <2> QED BY <1>5, <2>2 DEF Taken, b
<1>8. AddArg(s, x) = [args |-> s.args, tmp |-> t, n |-> m]
  BY DEF AddArg
<1> HIDE DEF t, m
<1>9. CASE m = ARGS_N
  <2>1. Round(s, x) = [args |-> s.args \o SubSeq(t, 1, m), tmp |-> t, n |-> 0]
    BY <1>8, <1>9 DEF Round, CopyArgs
  <2>2. s.args \o SubSeq(t, 1, m) \in Seq(S)
    BY <1>2, <1>6, ConcatProperties
  <2>3. Round(s, x) \in Loop(S)
    BY <1>1, <1>3, <2>1, <2>2 DEF Loop
  <2>4. SubSeq(t, 1, 0) = <<>>
    BY <1>4
  <2>5. Taken(Round(s, x)) = (s.args \o SubSeq(t, 1, m)) \o <<>>
    <3>1. /\ Round(s, x).args = s.args \o SubSeq(t, 1, m)
          /\ Round(s, x).tmp = t /\ Round(s, x).n = 0
      <4> DEFINE c == s.args \o SubSeq(t, 1, m)
      <4>1. Round(s, x) = [args |-> c, tmp |-> t, n |-> 0]
        BY <2>1
      <4> HIDE DEF c
      <4>2. Round(s, x).args = c /\ Round(s, x).tmp = t /\ Round(s, x).n = 0
        BY <4>1
      <4> QED BY <4>2 DEF c
    <3> QED BY <2>4, <3>1, Zenon DEF Taken
  <2> QED BY <1>7, <2>2, <2>3, <2>5, ConcatEmptySeq
<1>10. CASE m # ARGS_N
  <2>1. Round(s, x) = [args |-> s.args, tmp |-> t, n |-> m]
    BY <1>8, <1>10 DEF Round
  <2>2. m \in 0..ARGS_N - 1
    BY <1>1, <1>3, <1>10
  <2>3. Round(s, x) \in Loop(S)
    BY <1>2, <1>3, <2>1, <2>2 DEF Loop
  <2>4. Round(s, x).args = s.args /\ Round(s, x).tmp = t /\ Round(s, x).n = m
    BY <2>1
  <2>5. Taken(Round(s, x)) = s.args \o SubSeq(t, 1, m)
    BY <2>4, Zenon DEF Taken
  <2> QED BY <1>7, <2>3, <2>5
<1> QED BY <1>9, <1>10

\* The copy that proc_setargs makes is the list it was given, however the list
\* falls into chunks.
LEMMA SetArgsCopies ==
  ASSUME NEW V, NEW l \in Seq(V)
  PROVE  proc_setargs(l) = l
<1> DEFINE S == V \cup {Garbage}
           n == Len(l)
           a == [args |-> <<>>, tmp |-> [k \in 1..ARGS_N |-> Garbage], n |-> 0]
           g == [i \in 1..n |-> [s \in Loop(S) |-> Round(s, l[i])]]
           loop[i \in 0..n] == IF i = 0 THEN a ELSE Round(loop[i - 1], l[i])
<1>1. n \in Nat /\ l \in Seq(S) /\ \A i \in 1..n : l[i] \in S
  OBVIOUS
<1>2. a \in Loop(S)
  BY ContextAssumption DEF Loop
<1>3. g \in [1..n -> [Loop(S) -> Loop(S)]]
  BY <1>1, RoundTakes
<1> HIDE DEF S, n, a, g
<1>4. PICK f : Records(f, Loop(S), a, n, g)
  BY <1>1, <1>2, <1>3, Iterates
<1>5. f \in [0..n -> Loop(S)] /\ f[0] = a /\ \A i \in 1..n : f[i] = Round(f[i - 1], l[i])
  <2>1. f \in [0..n -> Loop(S)] /\ f[0] = a /\ \A i \in 1..n : f[i] = g[i][f[i - 1]]
    BY <1>4 DEF Records
  <2>2. \A i \in 1..n : i - 1 \in 0..n
    BY <1>1
  <2> QED BY <2>1, <2>2 DEF g
<1>6. f = [i \in 0..n |-> IF i = 0 THEN a ELSE Round(f[i - 1], l[i])]
  <2>1. \A i \in 0..n : f[i] = IF i = 0 THEN a ELSE Round(f[i - 1], l[i])
    BY <1>1, <1>5
  <2>2. f = [i \in 0..n |-> f[i]]
    BY <1>5
  <2> QED BY <2>1, <2>2, Zenon
<1>7. loop = [i \in 0..n |-> IF i = 0 THEN a ELSE Round(loop[i - 1], l[i])]
  BY <1>6
<1>8. proc_setargs(l) = IF loop[n].n > 0 THEN CopyArgs(loop[n]).args ELSE loop[n].args
  BY DEF proc_setargs, Round, CopyArgs, AddArg, a, n
<1> HIDE DEF loop
<1>9. \A i \in 0..n : loop[i] \in Loop(S) /\ Taken(loop[i]) = SubSeq(l, 1, i)
  <2> DEFINE Bad == {i \in 0..n : ~(loop[i] \in Loop(S) /\ Taken(loop[i]) = SubSeq(l, 1, i))}
  <2> SUFFICES ASSUME Bad # {} PROVE FALSE
    OBVIOUS
  <2>1. PICK m \in Bad : \A k \in Bad : m <= k
    <3>1. Bad \in SUBSET Nat
      BY <1>1
    <3> QED BY <3>1, NatMin
  <2>2. m \in 0..n /\ ~(loop[m] \in Loop(S) /\ Taken(loop[m]) = SubSeq(l, 1, m))
    OBVIOUS
  <2>3. CASE m = 0
    <3>1. loop[0] = a
      BY <1>1, <1>7
    <3>2. SubSeq(l, 1, 0) = <<>> /\ SubSeq(a.tmp, 1, 0) = <<>>
      BY <1>1, ContextAssumption DEF a
    <3>3. Taken(a) = <<>>
      BY <3>2 DEF Taken, a
    <3> QED BY <1>2, <2>2, <2>3, <3>1, <3>2, <3>3
  <2>4. CASE m # 0
    <3>1. m \in 1..n /\ m - 1 \in 0..n /\ ~(m <= m - 1)
      BY <1>1, <2>2, <2>4
    <3>2. loop[m - 1] \in Loop(S) /\ Taken(loop[m - 1]) = SubSeq(l, 1, m - 1)
      BY <2>1, <3>1
    <3>3. loop[m] = Round(loop[m - 1], l[m])
      BY <1>1, <1>7, <3>1
    <3>4. loop[m] \in Loop(S) /\ Taken(loop[m]) = Append(SubSeq(l, 1, m - 1), l[m])
      BY <1>1, <3>1, <3>2, <3>3, RoundTakes
    <3>5. Append(SubSeq(l, 1, m - 1), l[m]) = SubSeq(l, 1, m)
      BY <1>1, <3>1 DEF n
    <3> QED BY <2>2, <3>4, <3>5
  <2> QED BY <2>3, <2>4
<1>10. loop[n] \in Loop(S) /\ Taken(loop[n]) = l
  <2>1. SubSeq(l, 1, n) = l
    BY <1>1 DEF n
  <2> QED BY <1>1, <1>9, <2>1
<1>11. CopyArgs(loop[n]).args = l
  BY <1>10 DEF CopyArgs, Taken
<1>12. CASE loop[n].n > 0
  BY <1>8, <1>11, <1>12
<1>13. CASE ~(loop[n].n > 0)
  <2>1. loop[n].n = 0 /\ loop[n].args \in Seq(S) /\ loop[n].tmp \in [1..ARGS_N -> S]
    BY <1>10, <1>13, ContextAssumption DEF Loop
  <2>2. SubSeq(loop[n].tmp, 1, 0) = <<>>
    <3>1. loop[n].tmp \in Seq(S)
      BY <2>1, ContextAssumption, LenProperties
    <3> QED BY <3>1
  <2>3. loop[n].args \o <<>> = l
    BY <1>10, <2>1, <2>2 DEF Taken
  <2> QED BY <1>8, <1>13, <2>1, <2>3, ConcatEmptySeq
<1> QED BY <1>12, <1>13

\* Every PROC ever created has the arguments PROC was called with, and ARGN, which
\* reads them in the PROC that runs, gives it those: for any number of arguments
\* and any size of tmp_args.
THEOREM ArgumentsArrive == ContextSpec => []ArgsArrive
<1> DEFINE Copied == args = given
<1>1. ContextInit => Copied
  BY DEF ContextInit
<1>2. Copied /\ [ContextNext]_vars => Copied'
  <2> SUFFICES ASSUME args = given, [ContextNext]_vars PROVE args' = given'
    OBVIOUS
  <2>1. CASE \E w \in Proc, l \in ArgLists : Create(w, l)
    <3>1. PICK w \in Proc, l \in ArgLists : Create(w, l)
      BY <2>1
    <3>2. l \in Seq(ToSet(l))
      BY ContextAssumption
    <3>3. proc_setargs(l) = l
      BY <3>2, SetArgsCopies
    <3> QED BY <3>1, <3>3 DEF Create
  <2>2. CASE UNCHANGED <<args, given>>
    BY <2>2
  <2> QED
    BY <2>1, <2>2 DEF ContextNext, vars, Dispatch, proc_yield, Madvise, AfterSwitch,
       Assign, CallFunction, Return, Panicked
<1>3. Copied => ArgsArrive
  BY DEF ArgsArrive, proxc_argn
<1> QED BY <1>1, <1>2, <1>3, PTL DEF ContextSpec
=============================================================================
