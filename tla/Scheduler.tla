------------------------------ MODULE Scheduler ------------------------------
(***************************************************************************)
(* The cooperative scheduler of libproxc: src/src/scheduler.c, the life    *)
(* cycle of a PROC in src/src/proc.c, and YIELD, SLEEP, GO(PROC(f)) and    *)
(* proxc_exit of src/src/proxc.c.                                          *)
(*                                                                         *)
(* One pthread runs everything.  `pc' says where it is: in the code of     *)
(* curr_proc ("proc"), or at a point of scheduler_run or scheduler_free.   *)
(* A PROC gives the pthread away only by proc_yield, so one action is one  *)
(* library call up to its proc_yield, or one step of the scheduler loop.   *)
(* What a PROC calls next is arbitrary.                                    *)
(*                                                                         *)
(* Channels, ALT and PAR/SEQ use the scheduler through Create, Readies and *)
(* Block.  Their modules EXTEND this one, and each of them is checked to   *)
(* keep to SchedNext, where waking a PROC has AddReady's preconditions.    *)
(***************************************************************************)
EXTENDS Naturals, Sequences, FiniteSets, Functions

CONSTANTS
  Proc,      \* the Proc structs malloc can hand out
  Main,      \* sched->main_proc
  NULL,
  Delay,     \* the usec arguments (> 0) programs pass to SLEEP
  MaxTime,   \* bound: the clock stops here
  TimeMod,   \* 2^64, the modulus of uint64_t time stamps
  MaxTries,  \* MAX_TRIES of scheduler_addsleep
  NDEBUG     \* TRUE when ASSERT is compiled out (the CMake build)

ASSUME SchedAssumption ==
  /\ Main \in Proc
  /\ NULL \notin Proc
  /\ IsFiniteSet(Proc)
  /\ Delay \subseteq Nat \ {0}
  /\ MaxTime \in Nat
  /\ TimeMod \in Nat \ {0}
  /\ MaxTries \in Nat
  /\ NDEBUG \in BOOLEAN

VARIABLES
  pc,         \* where the pthread is executing
  state,      \* proc->state; "FREE" when the struct is not allocated
  curr_proc,  \* sched->curr_proc
  totalQ,     \* sched->totalQ
  readyQ,     \* sched->readyQ
  sleepRB,    \* the PROCs in sched->sleep.RB
  sleep_us,   \* proc->sleep_us, the key of sleep.RB
  is_exit,    \* sched->is_exit
  freeing,    \* the argument of the proc_free in progress
  clock,      \* what gettimestamp() returns
  now_us,     \* the local now_us of _scheduler_wakeup
  started,    \* history: PROCs that have been made ready since their creation
  due         \* history: the time each sleeper asked to sleep to

schedVars == <<pc, state, curr_proc, totalQ, readyQ, sleepRB, sleep_us,
               is_exit, freeing, clock, now_us, started, due>>

ProcState == {"FREE", "READY", "RUNNING", "SLEEPING", "ENDED",
              "CHANWAIT", "RUNWAIT", "ALTWAIT"}

\* The states in which a PROC waits for another PROC to call scheduler_addready.
Blocked == {"CHANWAIT", "RUNWAIT", "ALTWAIT"}

\* scheduler_run: "loop" is the top of the while, "wakeup" is inside
\* _scheduler_wakeup, "next" picks a PROC, "proc" is after ctx_switch to it,
\* "switch" is after ctx_switch back, "free" is inside proc_free.
\* scheduler_free: "teardown" is its while, "tfree" its proc_free.
Control == {"loop", "wakeup", "next", "proc", "switch", "free",
            "teardown", "tfree", "end", "abort"}

\* scheduler_run has neither returned nor aborted.
Live == pc \in {"loop", "wakeup", "next", "proc", "switch", "free"}

-----------------------------------------------------------------------------
(* Helpers *)

\* Mutant: the first element goes, whichever x is.
RemovesHead(q, x) == Tail(q)

\* The sequence q without its element at the (first) position of x.
TAILQ_REMOVE(q, x) ==
  LET i == CHOOSE j \in 1..Len(q) : q[j] = x
  IN  [j \in 1..Len(q) - 1 |-> IF j < i THEN q[j] ELSE q[j + 1]]

\* Mutant: TAILQ_INSERT_HEAD.
AddReadyAtHead(s) ==
  /\ readyQ' = s \o readyQ
  /\ state' = [p \in Proc |-> IF p \in Range(s) THEN "READY" ELSE state[p]]
  /\ started' = started \cup Range(s)

\* scheduler_addready on each PROC of s in turn.
scheduler_addready(s) ==
  /\ readyQ' = readyQ \o s
  /\ state' = [p \in Proc |-> IF p \in Range(s) THEN "READY" ELSE state[p]]
  /\ started' = started \cup Range(s)

\* PROCs a caller may hand to scheduler_addready: blocked, or built and not
\* dispatched yet.
Parked == {p \in Range(totalQ) :
             /\ p # freeing
             /\ state[p] \in Blocked \/ p \notin started}

\* The keys in use in sched->sleep.RB.
SleepKeys == {sleep_us[p] : p \in sleepRB}

\* The sleeper RB_MIN returns.
IsFirstSleeper(p) ==
  /\ p \in sleepRB
  /\ \A q \in sleepRB : sleep_us[p] <= sleep_us[q]

\* The number of key collisions before RB_INSERT of a wake-up time t succeeds.
FreeSlot(t, k) ==
  /\ (t + k) % TimeMod \notin SleepKeys
  /\ \A j \in 0..k - 1 : (t + j) % TimeMod \in SleepKeys

\* Mutant: no retry after a collision.
FirstTryOnly(t) == {k \in {0} : FreeSlot(t, k)}

\* The number of increments after which the loop of scheduler_addsleep succeeds,
\* none when it gives up.
Tries(t) == {k \in 0..MaxTries : FreeSlot(t, k)}

\* Mutant: an off-by-one on the time read.
ExpiresSoon(p) == sleep_us[p] <= now_us + 1

\* The comparison of _scheduler_wakeup.
Expired(p) == sleep_us[p] <= now_us

\* Mutant: the loop goes on after proxc_exit.
IgnoresExit == totalQ # <<>>

\* _scheduler_running
Running == ~is_exit /\ totalQ # <<>>

-----------------------------------------------------------------------------
(* Calls made by the running PROC *)

\* proxc_yield, and proxc_sleep(0): the PROC stays PROC_RUNNING.
Yield ==
  /\ pc = "proc"
  /\ pc' = "switch"
  /\ UNCHANGED <<state, curr_proc, totalQ, readyQ, sleepRB, sleep_us, is_exit,
                 freeing, clock, now_us, started, due>>

\* proxc_sleep(u) with scheduler_addsleep.  Every collision of RB_INSERT
\* increments the key; the loop gives up after MaxTries increments, and the
\* ASSERT after it wants fewer than MaxTries.  A sum that wraps to 0 is taken
\* for "not sleeping".
Sleep(u) ==
  LET wake == (clock + u) % TimeMod
      tries == Tries(wake)
      last == IF tries = {} THEN MaxTries ELSE CHOOSE k \in tries : TRUE
      failed == tries = {} \/ last = MaxTries
  IN
  /\ pc = "proc"
  /\ wake + last <= MaxTime
  /\ \/ /\ wake = 0
        /\ pc' = "switch"
        /\ UNCHANGED <<state, sleepRB, sleep_us, due>>
     \/ /\ wake # 0
        /\ pc' = IF failed /\ ~NDEBUG THEN "abort" ELSE "switch"
        /\ state' = [state EXCEPT ![curr_proc] = "SLEEPING"]
        /\ sleepRB' = IF tries = {} THEN sleepRB ELSE sleepRB \cup {curr_proc}
        /\ sleep_us' = [sleep_us EXCEPT ![curr_proc] = (wake + last) % TimeMod]
        /\ due' = [due EXCEPT ![curr_proc] = clock + u]
  /\ UNCHANGED <<curr_proc, totalQ, readyQ, is_exit, freeing, clock, now_us,
                 started>>

\* fxn returns into proc_mainfxn.
End ==
  /\ pc = "proc"
  /\ state' = [state EXCEPT ![curr_proc] = "ENDED"]
  /\ pc' = "switch"
  /\ UNCHANGED <<curr_proc, totalQ, readyQ, sleepRB, sleep_us, is_exit,
                 freeing, clock, now_us, started, due>>

\* proxc_exit
Exit ==
  /\ pc = "proc"
  /\ is_exit' = TRUE
  /\ pc' = "switch"
  /\ UNCHANGED <<state, curr_proc, totalQ, readyQ, sleepRB, sleep_us, freeing,
                 clock, now_us, started, due>>

\* proc_create, called by PROC(...): the struct is in totalQ, not in readyQ.
Create(p) ==
  /\ pc = "proc"
  /\ state[p] = "FREE"
  /\ state' = [state EXCEPT ![p] = "READY"]
  /\ totalQ' = Append(totalQ, p)
  /\ UNCHANGED <<pc, curr_proc, readyQ, sleepRB, sleep_us, is_exit, freeing,
                 clock, now_us, started, due>>

\* GO(PROC(f)): proc_create, then scheduler_addready from csp_runbuild.
Spawn(p) ==
  /\ pc = "proc"
  /\ state[p] = "FREE"
  /\ totalQ' = Append(totalQ, p)
  /\ scheduler_addready(<<p>>)
  /\ UNCHANGED <<pc, curr_proc, sleepRB, sleep_us, is_exit, freeing, clock,
                 now_us, due>>

\* scheduler_addready on each PROC of s and nothing else: how channels, ALT and
\* PAR/SEQ wake PROCs.  Nothing in the code keeps them from waking a wrong one.
Readies(s) ==
  /\ scheduler_addready(s)
  /\ UNCHANGED <<pc, curr_proc, totalQ, sleepRB, sleep_us, is_exit, freeing,
                 clock, now_us, due>>

\* What scheduler_addready relies on: the running PROC (channel partner,
\* csp_runbuild), _scheduler_wakeup (an ALT timeout) or csp_parsebuild inside
\* proc_free hands it different PROCs that are all parked.
AddReady(s) ==
  /\ pc \in {"proc", "wakeup", "free"}
  /\ IsInjective(s)
  /\ Range(s) \subseteq Parked
  /\ Readies(s)

\* scheduler_addready on each PROC of s, then the running PROC sets the waiting
\* state w and yields.
Waits(w, s) ==
  /\ pc = "proc"
  /\ readyQ' = readyQ \o s
  /\ state' = [p \in Proc |-> IF p = curr_proc THEN w
                              ELSE IF p \in Range(s) THEN "READY"
                              ELSE state[p]]
  /\ started' = started \cup Range(s)
  /\ pc' = "switch"
  /\ UNCHANGED <<curr_proc, totalQ, sleepRB, sleep_us, is_exit, freeing, clock,
                 now_us, due>>

\* A channel operation or an ALT that cannot complete.
Block(w) == w \in Blocked /\ Waits(w, <<>>)

\* proxc_run relies on its tree holding different PROCs that are all parked.
RunWait(s) ==
  /\ IsInjective(s)
  /\ Range(s) \subseteq Parked
  /\ Waits("RUNWAIT", s)

-----------------------------------------------------------------------------
(* scheduler_run *)

\* _scheduler_checkQs with the deadlines D of the two timer trees: when nobody
\* is ready the pthread stays here, in usleep, until the first deadline.
\* _scheduler_wakeup then reads the clock once.
CheckQs(D) ==
  /\ pc = "loop"
  /\ Running
  /\ \/ readyQ # <<>>
     \/ D = {}
     \/ \E d \in D : d <= clock
  /\ pc' = "wakeup"
  /\ now_us' = clock
  /\ UNCHANGED <<state, curr_proc, totalQ, readyQ, sleepRB, sleep_us, is_exit,
                 freeing, clock, started, due>>

\* One round of the first loop of _scheduler_wakeup.
WakeProc(p) ==
  /\ pc = "wakeup"
  /\ IsFirstSleeper(p)
  /\ Expired(p)
  /\ sleepRB' = sleepRB \ {p}
  /\ scheduler_addready(<<p>>)
  /\ due' = [due EXCEPT ![p] = 0]
  /\ UNCHANGED <<pc, curr_proc, totalQ, sleep_us, is_exit, freeing, clock,
                 now_us>>

\* _scheduler_wakeup returns.
WakeDone ==
  /\ pc = "wakeup"
  /\ \A p \in sleepRB : ~Expired(p)
  /\ pc' = "next"
  /\ now_us' = 0
  /\ UNCHANGED <<state, curr_proc, totalQ, readyQ, sleepRB, sleep_us, is_exit,
                 freeing, clock, started, due>>

\* The first of readyQ is resumed.  A PROC that returns into proxc_sleep
\* begins with sleep_us = 0, which every other PROC has already.
Dispatch ==
  /\ pc = "next"
  /\ readyQ # <<>>
  /\ curr_proc' = Head(readyQ)
  /\ readyQ' = Tail(readyQ)
  /\ state' = [state EXCEPT ![Head(readyQ)] = "RUNNING"]
  /\ sleep_us' = [sleep_us EXCEPT ![Head(readyQ)] = 0]
  /\ pc' = "proc"
  /\ UNCHANGED <<totalQ, sleepRB, is_exit, freeing, clock, now_us, started,
                 due>>

\* Nobody is ready: continue.
Continue ==
  /\ pc = "next"
  /\ readyQ = <<>>
  /\ pc' = "loop"
  /\ UNCHANGED <<state, curr_proc, totalQ, readyQ, sleepRB, sleep_us, is_exit,
                 freeing, clock, now_us, started, due>>

\* Mutant: curr_proc is cleared before it is queued.
ClearsThenQueues ==
  /\ pc = "switch"
  /\ state[curr_proc] \in {"RUNNING", "READY"}
  /\ curr_proc' = NULL
  /\ scheduler_addready(<<curr_proc'>>)
  /\ pc' = "loop"
  /\ UNCHANGED <<totalQ, sleepRB, sleep_us, is_exit, freeing, clock, now_us,
                 due>>

\* After ctx_switch returns: the switch on curr_proc->state.
SwitchReady ==
  /\ pc = "switch"
  /\ state[curr_proc] \in {"RUNNING", "READY"}
  /\ scheduler_addready(<<curr_proc>>)
  /\ curr_proc' = NULL
  /\ pc' = "loop"
  /\ UNCHANGED <<totalQ, sleepRB, sleep_us, is_exit, freeing, clock, now_us,
                 due>>

SwitchWait ==
  /\ pc = "switch"
  /\ state[curr_proc] \in Blocked \cup {"SLEEPING"}
  /\ curr_proc' = NULL
  /\ pc' = "loop"
  /\ UNCHANGED <<state, totalQ, readyQ, sleepRB, sleep_us, is_exit, freeing,
                 clock, now_us, started, due>>

\* case PROC_ENDED: proc_free starts by unlinking the PROC from totalQ.
SwitchEnded ==
  /\ pc = "switch"
  /\ state[curr_proc] = "ENDED"
  /\ is_exit' = (is_exit \/ curr_proc = Main)
  /\ totalQ' = TAILQ_REMOVE(totalQ, curr_proc)
  /\ freeing' = curr_proc
  /\ pc' = "free"
  /\ UNCHANGED <<state, curr_proc, readyQ, sleepRB, sleep_us, clock, now_us,
                 started, due>>

\* proc_free has resolved the ProcBuild and frees the struct.
FreeDone ==
  /\ pc \in {"free", "tfree"}
  /\ state' = [state EXCEPT ![freeing] = "FREE"]
  /\ started' = started \ {freeing}
  /\ freeing' = NULL
  /\ curr_proc' = NULL
  /\ pc' = IF pc = "free" THEN "loop" ELSE "teardown"
  /\ UNCHANGED <<totalQ, readyQ, sleepRB, sleep_us, is_exit, clock, now_us,
                 due>>

\* The while of scheduler_run ends and proxc_start calls scheduler_free.
LoopExit ==
  /\ pc = "loop"
  /\ ~Running
  /\ pc' = "teardown"
  /\ UNCHANGED <<state, curr_proc, totalQ, readyQ, sleepRB, sleep_us, is_exit,
                 freeing, clock, now_us, started, due>>

-----------------------------------------------------------------------------
(* scheduler_free *)

\* proc_free of the first of totalQ.
TeardownFree ==
  /\ pc = "teardown"
  /\ totalQ # <<>>
  /\ freeing' = Head(totalQ)
  /\ totalQ' = Tail(totalQ)
  /\ pc' = "tfree"
  /\ UNCHANGED <<state, curr_proc, readyQ, sleepRB, sleep_us, is_exit, clock,
                 now_us, started, due>>

\* totalQ is empty: free(sched).
TeardownEnd ==
  /\ pc = "teardown"
  /\ totalQ = <<>>
  /\ pc' = "end"
  /\ UNCHANGED <<state, curr_proc, totalQ, readyQ, sleepRB, sleep_us, is_exit,
                 freeing, clock, now_us, started, due>>

\* Time passes whatever the pthread does.
Tick ==
  /\ clock < MaxTime
  /\ clock' = clock + 1
  /\ UNCHANGED <<pc, state, curr_proc, totalQ, readyQ, sleepRB, sleep_us,
                 is_exit, freeing, now_us, started, due>>

\* proxc_start has returned, or an ASSERT has aborted the program.
Terminated ==
  /\ pc \in {"end", "abort"}
  /\ UNCHANGED schedVars

-----------------------------------------------------------------------------
(* Specification *)

\* proxc_start has created the scheduler and the main PROC and made it ready.
SchedInit ==
  /\ pc = "loop"
  /\ state = [p \in Proc |-> IF p = Main THEN "READY" ELSE "FREE"]
  /\ curr_proc = NULL
  /\ totalQ = <<Main>>
  /\ readyQ = <<Main>>
  /\ sleepRB = {}
  /\ sleep_us = [p \in Proc |-> 0]
  /\ is_exit = FALSE
  /\ freeing = NULL
  /\ clock = 0
  /\ now_us = 0
  /\ started = {Main}
  /\ due = [p \in Proc |-> 0]

\* What one call can hand to scheduler_addready: at most all PROCs.
Batches == UNION {[1..n -> Proc] : n \in 1..Cardinality(Proc)}

\* The running PROC gives the pthread back.
Leave ==
  \/ Yield
  \/ \E u \in Delay : Sleep(u)
  \/ End
  \/ Exit
  \/ \E w \in Blocked : Block(w)
  \/ \E s \in Batches : RunWait(s)

\* The running PROC goes on after the call.
Stay ==
  \/ \E p \in Proc : Create(p)
  \/ \E p \in Proc : Spawn(p)

\* The scheduler's own steps.  Here the altsleep tree is abstract: it holds no
\* guard that is due, or one that is.
SchedStep ==
  \/ \E other \in {{}, {clock}} : CheckQs(SleepKeys \cup other)
  \/ \E p \in Proc : WakeProc(p)
  \/ WakeDone
  \/ Dispatch
  \/ Continue
  \/ SwitchReady
  \/ SwitchWait
  \/ SwitchEnded
  \/ FreeDone
  \/ LoopExit
  \/ TeardownFree
  \/ TeardownEnd

SchedNext ==
  \/ Leave
  \/ Stay
  \/ \E s \in Batches : AddReady(s)
  \/ SchedStep
  \/ Tick
  \/ Terminated

SchedSpec == SchedInit /\ [][SchedNext]_schedVars

\* Time passes, and the pthread, whose steps are those that leave the clock
\* alone, keeps executing until the program ends.  (A step of it is possible in
\* every other state, or becomes possible when time has passed.)
SchedFairSpec ==
  /\ SchedSpec
  /\ WF_schedVars(Tick)
  /\ []<>(pc \in {"end", "abort"}) \/ []<><<clock' = clock>>_schedVars

-----------------------------------------------------------------------------
(* Properties *)

\* Every variable has its type.
SchedTypeOK ==
  /\ pc \in Control
  /\ state \in [Proc -> ProcState]
  /\ curr_proc \in Proc \cup {NULL}
  /\ totalQ \in Seq(Proc)
  /\ readyQ \in Seq(Proc)
  /\ sleepRB \subseteq Proc
  /\ sleep_us \in [Proc -> Nat]
  /\ is_exit \in BOOLEAN
  /\ freeing \in Proc \cup {NULL}
  /\ clock \in Nat
  /\ now_us \in Nat
  /\ started \subseteq Proc
  /\ due \in [Proc -> Nat]

\* readyQ holds a PROC at most once (scheduler_addready links it without
\* looking whether it is linked already), only started PROCs that are
\* PROC_READY, and never the running one or one that is being freed.
ReadyQSound ==
  /\ IsInjective(readyQ)
  /\ \A p \in Range(readyQ) :
       /\ p \in Range(totalQ)
       /\ state[p] = "READY"
       /\ p \in started
       /\ p # curr_proc

\* sleep.RB holds exactly the sleeping PROCs, under different keys: the tree
\* would drop one of two equal keys.
SleepRBSound ==
  /\ \A p \in Range(totalQ) : p \in sleepRB <=> state[p] = "SLEEPING"
  /\ sleepRB \subseteq Range(totalQ)
  /\ \A p, q \in sleepRB : sleep_us[p] = sleep_us[q] => p = q

\* No PROC falls through the cracks: each allocated PROC is the current one,
\* queued to run, asleep in the timer tree, waiting for a partner, or built
\* and not dispatched yet.
NoLostProc ==
  \A p \in Range(totalQ) :
    \/ p = curr_proc
    \/ p \in Range(readyQ)
    \/ p \in sleepRB
    \/ state[p] \in Blocked
    \/ p \notin started

\* The PROCs of totalQ are exactly the allocated ones, each linked once; the
\* one in proc_free is already unlinked.
TotalQSound ==
  /\ IsInjective(totalQ)
  /\ \A p \in Proc : state[p] # "FREE" <=> (p \in Range(totalQ) \/ p = freeing)

\* While scheduler_run is running, the scheduler's queues partition the PROCs.
Placement == Live => ReadyQSound /\ SleepRBSound /\ NoLostProc /\ TotalQSound

\* A sleeper never becomes ready before the time it asked for, whatever the
\* key collisions did to its key, unless that time does not fit a uint64_t
\* (then its key has wrapped around and it wakes at once).
SleepNotEarly ==
  [][\A p \in Proc :
       (state[p] = "SLEEPING" /\ state'[p] = "READY" /\ due[p] < TimeMod)
         => due[p] <= clock]_schedVars

\* The ready queue starves nobody: a PROC in it runs, unless the program ends.
ReadyRuns ==
  \A p \in Proc : p \in Range(readyQ) ~> (curr_proc = p \/ ~Live)

\* Every sleeper leaves the timer tree, unless the program ends.
SleeperWakes ==
  \A p \in Proc : state[p] = "SLEEPING" ~> (state[p] # "SLEEPING" \/ ~Live)
=============================================================================
