-------------------------------- MODULE Proxc --------------------------------
(***************************************************************************)
(* Programs: PROCs that use all of src/src/proxc.c on one scheduler.  The  *)
(* channels and ALT (Alt) and the builders (Csp) meet in the PROCs: one    *)
(* that waits on a channel is the leaf of a tree that somebody waits for   *)
(* in RUN, a timeout lets it end, its end wakes the one in RUN, which then *)
(* closes the channel.  Or it closes the channel while others, started by  *)
(* GO, may still use it.                                                   *)
(*                                                                         *)
(* The system clock is the real-time clock here: somebody may set it back. *)
(* usleep may return before its time, because a signal arrives, because    *)
(* the time does not fit useconds_t or because the clock was set back.     *)
(***************************************************************************)
EXTENDS Alt, Csp

CONSTANTS
  Uses,         \* the kinds of calls each PROC makes
  MaxCalls,     \* bound: the calls each PROC makes before it ends
  MaxSetBacks   \* bound: how often the clock is set back

ASSUME ProxcAssumption ==
  /\ Uses \in [Proc -> SUBSET {"open", "close", "chan", "alt", "sleep", "build", "go"}]
  /\ MaxCalls \in [Proc -> Nat]
  /\ MaxSetBacks \in Nat

VARIABLES
  open,      \* the channels that CHOPEN has returned and nobody has closed
  users,     \* the PROCs that may hold a pointer to a channel that was closed
  closing,   \* history: how channels that others may use have been closed
  broken,    \* the memory of a closed channel has been used
  went,      \* history: somebody has used GO
  calls,     \* how many calls each PROC has made
  setBacks   \* how often the clock has been set back

closeVars == <<open, users, closing, broken>>
proxcVars == <<closeVars, went, calls, setBacks>>
progVars == <<allVars, cspVars, proxcVars>>

ProxcInit ==
  /\ SchedInit
  /\ ChanInit
  /\ AltInit
  /\ CspInit
  /\ open = {}
  /\ users = [c \in Chans |-> {}]
  /\ closing = "no"
  /\ broken = FALSE
  /\ went = FALSE
  /\ calls = [p \in Proc |-> 0]
  /\ setBacks = 0

-----------------------------------------------------------------------------
(* Calls *)

\* The running PROC, in its own code, makes its next call, of kind k.
Calls(k) ==
  /\ InUserCode
  /\ k \in Uses[curr_proc]
  /\ calls[curr_proc] < MaxCalls[curr_proc]
  /\ calls' = [calls EXCEPT ![curr_proc] = @ + 1]
  /\ UNCHANGED setBacks

\* proxc_chopen and chan_create: both queues are initialised.  c stands for a
\* channel, not for an address: it comes back when nobody can mistake it for the
\* one that was closed.
CHOPEN(c) ==
  /\ Calls("open")
  /\ c \notin open /\ users[c] = {}
  /\ open' = open \cup {c}
  /\ endQ' = [endQ EXCEPT ![c] = <<>>]
  /\ altQ' = [altQ EXCEPT ![c] = <<>>]
  /\ UNCHANGED <<schedVars, data, phase, guards, is_accepted, winner, altsleep,
                 usec, cspVars, users, closing, broken, went>>

\* The other PROCs that have started and not ended.
Others == (Range(totalQ) \cap started) \ {curr_proc}

\* Channels are closed in haste by a PROC that has not seen the others end: it is
\* not the main PROC, or some of them were started by GO.
Hasty == Others # {} /\ (curr_proc # Main \/ went)

\* proxc_chclose and chan_free, which do not look into the queues and do not ask
\* who else has the channel: all other PROCs and whoever they start.
CHCLOSE(c) ==
  /\ Calls("close")
  /\ c \in open
  /\ open' = open \ {c}
  /\ users' = [users EXCEPT ![c] = IF Others = {} THEN {} ELSE Proc \ {curr_proc}]
  /\ closing' = IF closing = "no" /\ Hasty THEN "hasty" ELSE closing
  /\ UNCHANGED <<allVars, cspVars, broken, went>>

\* Some guard in l is on the channel c.
Names(l, c) == \E i \in DOMAIN l : l[i].chan = c

\* A PROC reads or writes the memory of a channel that was closed, in chan_write,
\* chan_read, chan_altenable, chan_free or, back from its wait in ALT, in
\* chan_altdisable.  What the program does from here on is undefined, and the
\* model ends.
UseClosed(c) ==
  /\ c \notin open
  /\ \/ /\ curr_proc \in users[c]
        /\ \/ Calls("close")
           \/ Calls("chan")
           \/ Calls("alt") /\ \E l \in Menu[curr_proc] : Names(l, c)
     \/ /\ pc = "proc" /\ curr_proc \in Range(altQ[c])
        /\ UNCHANGED <<calls, setBacks>>
  /\ broken' = TRUE
  /\ UNCHANGED <<allVars, cspVars, open, users, closing, went>>

\* proxc_chwrite and proxc_chread.
ChanCall ==
  /\ Calls("chan")
  /\ \E c \in open : PlainChan(c) \/ \E v \in Data : WriteToAlt(c, v)
  /\ UNCHANGED <<cspVars, closeVars, went>>

\* proxc_alt on open channels.
AltCall ==
  /\ Calls("alt")
  /\ \E l \in Menu[curr_proc] :
       /\ \A i \in DOMAIN l : l[i].chan \in open \cup {NULL}
       /\ AltBegin(l)
  /\ UNCHANGED <<cspVars, closeVars, went>>

\* The rest of proxc_alt, when the guards of the ALT are on open channels.
AltRest ==
  /\ AltGoesOn
  /\ \A c \in Chans \ open : curr_proc \notin Range(altQ[c])
  /\ UNCHANGED <<cspVars, proxcVars>>

\* proxc_yield and proxc_sleep.
SleepCall ==
  /\ Calls("sleep")
  /\ Yield \/ \E u \in Delay : Sleep(u)
  /\ UNCHANGED <<chanVars, altVars, cspVars, closeVars, went>>

\* proxc_proc, proxc_par, proxc_seq and proxc_run.
BuildCall ==
  /\ Calls("build")
  /\ \/ \E p \in Proc : proxc_proc(p)
     \/ \E b \in Comp, t \in {"PAR_BUILD", "SEQ_BUILD"} :
          \E s \in SetToAllKPermutations({x \in Build : Loose(x)}) \ {<<>>} :
            proxc_comp(b, t, s)
     \/ \E b \in Build : proxc_run(b)
  /\ UNCHANGED <<chanVars, altVars, closeVars, went>>

\* proxc_go
GoCall ==
  /\ Calls("go")
  /\ \E b \in Build : proxc_go(b)
  /\ went' = TRUE
  /\ UNCHANGED <<chanVars, altVars, closeVars>>

\* The function of the PROC returns, or calls proxc_exit.
LastCall ==
  /\ InUserCode
  /\ End \/ Exit
  /\ UNCHANGED <<chanVars, altVars, cspVars, proxcVars>>

-----------------------------------------------------------------------------
(* The scheduler *)

\* _scheduler_checkQs, where usleep may return at any time.
ProxcCheckQs ==
  /\ CheckQs({clock})
  /\ UNCHANGED <<chanVars, altVars, cspVars, proxcVars>>

\* _scheduler_wakeup
ProxcWakeup ==
  /\ \/ WakeGuard
     \/ AltWakeDone
     \/ /\ \E p \in Proc : WakeProc(p)
        /\ UNCHANGED <<chanVars, altVars>>
  /\ UNCHANGED <<cspVars, proxcVars>>

\* A step of the scheduler after a PROC has closed channels in haste: others will
\* run unless the program is ending.
GivesUp ==
  /\ closing' = IF closing = "hasty" /\ ~is_exit' THEN "careless" ELSE closing
  /\ UNCHANGED <<open, users, broken, went, calls, setBacks>>

\* proc_free
ProxcFree ==
  /\ StartFree \/ csp_parsebuild \/ EndFree
  /\ GivesUp
  /\ UNCHANGED <<chanVars, altVars>>

\* The other steps of scheduler_run and scheduler_free.
ProxcOther ==
  /\ \/ Dispatch
     \/ Continue
     \/ SwitchReady
     \/ SwitchWait
     \/ LoopExit
     \/ TeardownEnd
  /\ GivesUp
  /\ UNCHANGED <<chanVars, altVars, cspVars>>

-----------------------------------------------------------------------------
(* The clock *)

ProxcTick == Tick /\ UNCHANGED <<chanVars, altVars, cspVars, proxcVars>>

\* gettimeofday reads a clock that has been set back.
SetBack(t) ==
  /\ setBacks < MaxSetBacks
  /\ t < clock
  /\ clock' = t
  /\ setBacks' = setBacks + 1
  /\ UNCHANGED <<pc, state, curr_proc, totalQ, readyQ, sleepRB, sleep_us,
                 is_exit, freeing, now_us, started, due, chanVars, altVars,
                 cspVars, closeVars, went, calls>>

\* proxc_start has returned, or the program is beyond what the model says.
ProxcEnd ==
  /\ Terminated \/ (broken /\ UNCHANGED schedVars)
  /\ UNCHANGED <<chanVars, altVars, cspVars, proxcVars>>

ProgramStep ==
  \/ \E c \in Chans : CHOPEN(c) \/ CHCLOSE(c) \/ UseClosed(c)
  \/ ChanCall
  \/ AltCall
  \/ AltRest
  \/ SleepCall
  \/ BuildCall
  \/ GoCall
  \/ LastCall
  \/ ProxcCheckQs
  \/ ProxcWakeup
  \/ ProxcFree
  \/ ProxcOther
  \/ \E t \in 0..MaxTime : SetBack(t)

ProxcNext ==
  \/ ~broken /\ ProgramStep
  \/ ProxcTick
  \/ ProxcEnd

ProxcSpec == ProxcInit /\ [][ProxcNext]_progVars

\* Time passes, and the pthread keeps executing: its steps are those that leave
\* the clock alone, and one is possible until the program ends or is undefined.
ProxcFairSpec ==
  /\ ProxcSpec
  /\ WF_progVars(ProxcTick)
  /\ []<>(broken \/ pc \in {"end", "abort"}) \/ []<><<clock' = clock>>_progVars

-----------------------------------------------------------------------------
(* Properties *)

\* Nobody is ready and no timer runs: the loop of scheduler_run spins for ever.
Stuck ==
  /\ pc = "loop" /\ Running
  /\ readyQ = <<>> /\ sleepRB = {} /\ RB!Linked(altsleep) = {}

\* Some unaccepted ALT waits on c.
AltOn(c) == \E i \in DOMAIN altQ[c] : CanAccept(altQ[c][i])

\* A PROC that waits for a partner nobody offers to be, or in RUN for PROCs that
\* wait.
WaitsForProgram(p) ==
  CASE state[p] = "CHANWAIT" ->
         \E c \in Chans : \E e \in Range(endQ[c]) :
           /\ e.proc = p
           /\ \A f \in Range(endQ[c]) : f.type = e.type
           /\ e.type = "CHAN_WRITER" => ~AltOn(c)
    [] state[p] = "ALTWAIT" ->
         \A i \in DOMAIN guards[p] :
           guards[p][i].type = "CHAN" /\ ~FirstIs(guards[p][i].chan, "CHAN_WRITER")
    [] state[p] = "RUNWAIT" ->
         \E b \in Roots : /\ run_proc[b] = p
                          /\ \E x \in Leaves(b) : x \in started /\ state[x] \in Blocked
    [] OTHER -> p \notin started

\* The runtime makes no deadlock of its own.  When the scheduler has nothing
\* left to do, every started PROC waits for something that no other PROC
\* offers: no matching partner was missed, no timer forgotten, no RUN left
\* behind by its tree.
OnlyProgramsDeadlock == Stuck => \A p \in Range(totalQ) : WaitsForProgram(p)

\* CHCLOSE looks at nothing, and still frees a channel that nobody touches again:
\* when RUN has joined all other PROCs nothing of them is left in its queues,
\* however they waited on channels, in ALT and in RUNs of their own.  When PROCs
\* are left that hold the channel, ready to use it or waiting in ALT on it, as in
\* the test programs, which start them by GO and never join them, nobody touches it
\* either, provided the program ends before the closer gives up the processor.
ClosedUnused ==
  /\ Live /\ closing = "no" => \A c \in Chans \ open : endQ[c] = <<>> /\ altQ[c] = <<>>
  /\ broken => closing = "careless"

\* A PROC that is freed is linked nowhere: whatever it did, no queue, timer tree
\* or builder leads to it.
FreedUnlinked ==
  Live => \A p \in Proc : (state[p] = "FREE" \/ p = freeing) =>
    /\ p \notin Range(readyQ) \cup sleepRB \cup RB!Linked(altsleep)
    /\ \A c \in Chans : /\ p \notin {e.proc : e \in Range(endQ[c])}
                        /\ p \notin Range(altQ[c])
    /\ \A b \in Roots : run_proc[b] # p

\* The components keep to the scheduler's contract when they work together.
ProxcKeepsScheduler == [][Live /\ clock' >= clock => SchedNext]_schedVars

\* A program whose PROCs make finitely many calls comes to its end or to a
\* deadlock of its own: every ready PROC runs, every timer fires, also when the
\* clock is set back, and the scheduler never spins with work left.
ComesToRest == <>(Stuck \/ ~Live \/ broken)
=============================================================================
