----------------------------- MODULE ProxcProofs -----------------------------
(***************************************************************************)
(* What Proxc promises for any number of PROCs, builders, channels and     *)
(* guard lists: the components keep their invariants when they work        *)
(* together.                                                               *)
(***************************************************************************)
EXTENDS Proxc, AltProofs, CspProofs

-----------------------------------------------------------------------------
(* The invariant *)

\* A PROC inside ALT has started and has not ended.
InAlt ==
  \A p \in Proc : phase[p] # "none" => p \in started /\ state[p] \notin {"FREE", "ENDED"}

\* As long as nobody uses GO every tree has a PROC that waits for it in RUN.
Joined == ~went => \A b \in Build : is_root[b] => run_proc[b] # NULL

\* The PROCs that the queues of c lead to.
Linkers(c) == {e.proc : e \in Range(endQ[c])} \cup Range(altQ[c])

\* Whoever is linked in a closed channel may still use it.
Held == \A c \in Chans \ open : Linkers(c) \subseteq users[c]

\* Nobody may use a closed channel unless one was closed in haste.
Unhurried == closing = "no" => \A c \in Chans : users[c] = {}

\* Who has closed channels in haste is still running and may not use them, or the
\* program is ending.
Hurried ==
  closing = "hasty" =>
    is_exit \/ (pc \in {"proc", "switch"} /\ \A c \in Chans : curr_proc \notin users[c])

\* No PROC is chosen or runs when the program is ending.
Leaving == is_exit => pc \notin {"wakeup", "next", "proc"}

Closes == Held /\ Unhurried /\ Hurried /\ Leaving

\* Only carelessness lets somebody use a closed channel.
BrokenLate == broken => closing = "careless"

ProxcTyped ==
  /\ open \subseteq Chans
  /\ users \in [Chans -> SUBSET Proc]
  /\ closing \in {"no", "hasty", "careless"}
  /\ went \in BOOLEAN
  /\ calls \in [Proc -> Nat]
  /\ setBacks \in Nat

\* The inductive invariant.
PInv == AInv /\ BuildInv /\ ProxcTyped /\ BrokenLate /\ (Live => InAlt /\ Joined /\ Closes)

-----------------------------------------------------------------------------
(* Steps that leave one of the components alone *)

\* A step of the scheduler that starts or ends no wait on a channel or in ALT.
LEMMA WaitsStay ==
  ASSUME AInv, SInv', UNCHANGED <<chanVars, altVars>>, clock' \in 0..MaxTime, Live' => Live,
         Live => \A p \in Proc : /\ state'[p] = "CHANWAIT" <=> state[p] = "CHANWAIT"
                                 /\ state'[p] = "ALTWAIT" <=> state[p] = "ALTWAIT"
  PROVE  AInv'
<1>1. ChanTypeOK' /\ OneType'
  BY DEF AInv, CInv, ChanTypeOK, OneType, chanVars
<1>2. Live' => OneEnd' /\ WaitsQueued'
  BY DEF AInv, CInv, OneEnd, WaitsQueued, Queued, chanVars
<1>3. CInv'
  BY <1>1, <1>2 DEF CInv
<1> QED BY <1>3, IdleStep

\* Nothing that builders do brings scheduler_run back, or takes time.
LEMMA CspDown ==
  ASSUME [CspNext]_<<schedVars, cspVars>>
  PROVE  (Live' => Live) /\ UNCHANGED clock
<1>1. CASE UNCHANGED <<schedVars, cspVars>>
  BY <1>1 DEF schedVars, Live
<1>2. ASSUME NEW p \in Proc, proxc_proc(p) PROVE (Live' => Live) /\ UNCHANGED clock
  BY <1>2 DEF proxc_proc, Create, Live
<1>3. ASSUME NEW b, NEW t, NEW s, proxc_comp(b, t, s) PROVE (Live' => Live) /\ UNCHANGED clock
  BY <1>3 DEF proxc_comp, schedVars, Live
<1>4. ASSUME NEW b, proxc_go(b) \/ proxc_run(b) PROVE (Live' => Live) /\ UNCHANGED clock
  BY <1>4 DEF proxc_go, proxc_run, Readies, Waits, Live
<1>5. CASE StartFree
  BY <1>5 DEF StartFree, SwitchEnded, TeardownFree, Live
<1>6. CASE csp_parsebuild
  <2>1. CASE ParsePar(parsing)
    BY <2>1 DEF ParsePar, schedVars, Live
  <2>2. CASE ParseSeq(parsing)
    BY <2>2 DEF ParseSeq, Readies, Live
  <2>3. CASE ParseUp(parsing)
    <3>1. CASE parent[parsing] = NULL
      BY <2>3, <3>1 DEF ParseUp, Live
    <3>2. CASE parent[parsing] # NULL
      BY <2>3, <3>2 DEF ParseUp, schedVars, Live
    <3> QED BY <3>1, <3>2
  <2>4. CASE ParseRoot(parsing)
    <3>1. WakesRunner(parsing)
      BY <2>4 DEF ParseRoot
    <3> QED BY <3>1 DEF WakesRunner, Readies, schedVars, Live
  <2> QED BY <1>6, <2>1, <2>2, <2>3, <2>4 DEF csp_parsebuild
<1>7. CASE EndFree
  BY <1>7 DEF EndFree, FreeDone, Live
<1>8. CASE CspOtherStep
  BY <1>8 DEF CspOtherStep, Yield, End, Exit, CheckQs, WakeDone, Dispatch, Continue, SwitchReady,
     SwitchWait, LoopExit, TeardownEnd, Terminated, schedVars, Live
<1> QED BY <1>1, <1>2, <1>3, <1>4, <1>5, <1>6, <1>7, <1>8 DEF CspNext

\* What a step of the builders or the scheduler may do to the state of p: it
\* wakes nobody who waits on a channel or in ALT, and p ends in End only.
Calm(p) ==
  /\ \/ state'[p] = state[p]
     \/ /\ state[p] \notin {"CHANWAIT", "ALTWAIT"}
        /\ state'[p] \in {"READY", "RUNNING", "RUNWAIT", "SLEEPING"}
     \/ state[p] = "ENDED" /\ state'[p] = "FREE"
     \/ End /\ p = curr_proc /\ state[p] = "RUNNING" /\ state'[p] = "ENDED"
  /\ p \in started /\ state[p] # "ENDED" => p \in started'

\* What csp_runbuild makes ready was never started.
LEMMA LaunchCalm ==
  ASSUME BuildInv, Live, NEW on, Runs(on), NEW b \in Build, type[b] # "FREE", b \notin on
  PROVE  \A p \in Proc : p \in Range(csp_runbuild(b)) => state[p] = "READY"
<1> DEFINE s == csp_runbuild(b)
<1>1. PICK X : Launches(b, X, s, on)
  BY LaunchFacts
<1> HIDE DEF s
<1>2. \A p \in Range(s) : p \notin started /\ p \in Range(totalQ)
  BY <1>1 DEF Launches
<1>3. Fits
  BY DEF BuildInv, Active, Steady
<1> QED BY <1>2, <1>3 DEF Fits, s

LEMMA CspCalm ==
  ASSUME BuildInv, Live, [CspNext]_<<schedVars, cspVars>>, NEW p \in Proc
  PROVE  Calm(p)
<1>1. /\ TypeInv /\ state \in [Proc -> ProcState] /\ Steady /\ Joins /\ CspTypeOK
      /\ (pc = "proc" => state[curr_proc] = "RUNNING" /\ curr_proc \in Proc)
  BY DEF BuildInv, Built, Active, TypeInv, SchedTypeOK, Steady, Where
<1>2. PICK on : Runs(on)
  BY DEF BuildInv, Active
<1>3. CASE UNCHANGED <<schedVars, cspVars>>
  BY <1>3 DEF schedVars, Calm
<1>4. ASSUME NEW q \in Proc, proxc_proc(q) PROVE Calm(p)
  BY <1>1, <1>4 DEF proxc_proc, Create, Calm
<1>5. ASSUME NEW b, NEW t, NEW s, proxc_comp(b, t, s) PROVE Calm(p)
  BY <1>5 DEF proxc_comp, schedVars, Calm
<1>6. ASSUME NEW b \in Build, proxc_go(b) \/ proxc_run(b) PROVE Calm(p)
  <2> DEFINE s == csp_runbuild(b)
  <2>1. Loose(b)
    BY <1>6 DEF proxc_go, proxc_run
  <2>2. type[b] # "FREE" /\ b \notin on
    BY <1>2, <2>1, BuildFacts DEF Loose, Runs, Reaches
  <2>3. p \in Range(s) => state[p] = "READY"
    BY <1>2, <2>2, LaunchCalm
  <2>4. \/ Readies(s)
        \/ pc = "proc" /\ Waits("RUNWAIT", s)
    BY <1>6 DEF proxc_go, proxc_run
  <2> HIDE DEF s
  <2> QED BY <1>1, <2>3, <2>4 DEF Readies, scheduler_addready, Waits, Calm
<1>7. CASE StartFree
  BY <1>7 DEF StartFree, SwitchEnded, TeardownFree, Calm
<1>8. CASE csp_parsebuild
  <2>1. parsing # NULL /\ parsing \in Build /\ parsing \in on /\ pc = "free"
    BY <1>1, <1>2, <1>8 DEF csp_parsebuild, CspTypeOK, Runs, Live
  <2>2. CASE ParsePar(parsing)
    BY <2>2 DEF ParsePar, schedVars, Calm
  <2>3. CASE ParseSeq(parsing)
    <3>1. PICK c : c = NextChild(parsing)
      OBVIOUS
    <3>2. Readies(csp_runbuild(c)) /\ type[parsing] = "SEQ_BUILD" /\ ~BuildDone(parsing) /\ Counted(parsing)
          /\ UNCHANGED <<type, childQ, parent>>
      BY <2>3, <3>1 DEF ParseSeq
    <3>3. c \in Kids(parsing) /\ c \notin Called(parsing)
      BY <2>1, <3>1, <3>2, NextFacts DEF BuildInv
    <3>4. c \in Build /\ type[c] # "FREE" /\ parent[c] = parsing /\ ~is_root[c]
      BY <1>1, <2>1, <3>3, Allocated, BuildFacts DEF BuildInv, Built, Shape
    <3>5. c \notin on
      BY <1>2, <3>3, <3>4 DEF Runs, Reaches
    <3>6. p \in Range(csp_runbuild(c)) => state[p] = "READY"
      BY <1>2, <3>4, <3>5, LaunchCalm
    <3> QED BY <1>1, <3>2, <3>6 DEF Readies, scheduler_addready, Calm
  <2>4. CASE ParseUp(parsing)
    <3>1. state' = state /\ started' = started
      <4>1. CASE parent[parsing] = NULL
        BY <2>4, <4>1 DEF ParseUp
      <4>2. CASE parent[parsing] # NULL
        BY <2>4, <4>2 DEF ParseUp, schedVars
      <4> QED BY <4>1, <4>2
    <3> QED BY <3>1 DEF Calm
  <2>5. CASE ParseRoot(parsing)
    <3>1. PICK q : q = run_proc[parsing]
      OBVIOUS
    <3>2. IF q = NULL THEN UNCHANGED schedVars ELSE Readies(<<q>>)
      BY <2>5, <3>1 DEF ParseRoot, WakesRunner
    <3>3. q # NULL => q \in Proc /\ state[q] = "RUNWAIT"
      BY <1>1, <2>1, <3>1 DEF Joins, CspTypeOK
    <3>4. CASE q = NULL
      BY <3>2, <3>4 DEF schedVars, Calm
    <3>5. CASE q # NULL
      <4>1. state' = [r \in Proc |-> IF r = q THEN "READY" ELSE state[r]]
        BY <3>2, <3>3, <3>5, ReadiesOne
      <4>2. started \subseteq started'
        BY <3>2, <3>5 DEF Readies, scheduler_addready
      <4> QED BY <3>3, <3>5, <4>1, <4>2 DEF Calm
    <3> QED BY <3>4, <3>5
  <2> QED BY <1>8, <2>2, <2>3, <2>4, <2>5 DEF csp_parsebuild
<1>9. CASE EndFree
  <2>1. FreeDone /\ pc = "free"
    BY <1>9 DEF EndFree, FreeDone, Live
  <2>2. freeing \in Proc /\ state[freeing] = "ENDED"
    BY <1>1, <2>1 DEF Steady, Where, TypeInv
  <2> QED BY <1>1, <2>1, <2>2 DEF FreeDone, Calm
<1>10. CASE CspOtherStep
  <2>1. CASE End
    BY <1>1, <2>1 DEF End, Calm
  <2>2. CASE Dispatch
    <3>1. Head(readyQ) \in Range(readyQ) /\ Head(readyQ) \in Proc
      <4>1. readyQ \in Seq(Proc) /\ readyQ # <<>>
        BY <1>1, <2>2 DEF Dispatch, TypeInv, SchedTypeOK
      <4> QED BY <4>1, HeadTailFacts
    <3>2. state[Head(readyQ)] = "READY"
      BY <1>1, <3>1 DEF Steady, Queues, ReadyQSound
    <3> QED BY <1>1, <2>2, <3>1, <3>2 DEF Dispatch, Calm
  <2>3. CASE SwitchReady
    <3>1. curr_proc \in Proc /\ state[curr_proc] \in {"RUNNING", "READY"} /\ scheduler_addready(<<curr_proc>>)
      BY <1>1, <2>3 DEF SwitchReady, TypeInv
    <3>2. Range(<<curr_proc>>) = {curr_proc}
      BY <3>1, SingletonFacts
    <3> QED BY <1>1, <3>1, <3>2 DEF scheduler_addready, Calm
  <2>4. CASE Yield \/ Exit \/ CheckQs({}) \/ WakeDone \/ Continue \/ SwitchWait \/ LoopExit
               \/ TeardownEnd \/ Terminated
    BY <2>4 DEF Yield, Exit, CheckQs, WakeDone, Continue, SwitchWait, LoopExit, TeardownEnd,
       Terminated, schedVars, Calm
  <2> QED BY <1>10, <2>1, <2>2, <2>3, <2>4 DEF CspOtherStep
<1> QED BY <1>3, <1>4, <1>5, <1>6, <1>7, <1>8, <1>9, <1>10 DEF CspNext

\* The scheduler and the builders keep the invariants of all components.
LEMMA BuilderSide ==
  ASSUME PInv, [CspNext]_<<schedVars, cspVars>>, UNCHANGED <<chanVars, altVars>>,
         End => InUserCode
  PROVE  /\ AInv' /\ BuildInv' /\ (Live' => Live /\ InAlt')
         /\ (Live => [SchedNext]_schedVars)
<1>1. BuildInv' /\ (Live => [AwakeNext]_schedVars)
  BY CspStep DEF PInv
<1>2. (Live' => Live) /\ UNCHANGED clock
  BY CspDown
<1>3. ASSUME Live, NEW p \in Proc PROVE Calm(p)
  BY <1>3, CspCalm DEF PInv
<1>4. SInv'
  <2>1. TypeInv' /\ (Live' => Steady')
    BY <1>1 DEF BuildInv, Built, Active
  <2> QED BY <2>1 DEF SInv
<1>5. Live => \A p \in Proc : /\ state'[p] = "CHANWAIT" <=> state[p] = "CHANWAIT"
                              /\ state'[p] = "ALTWAIT" <=> state[p] = "ALTWAIT"
  BY <1>3 DEF Calm
<1>6. AInv'
  <2>1. AInv /\ clock' \in 0..MaxTime
    BY <1>2 DEF PInv, AInv, Typed
  <2> QED BY <1>2, <1>4, <1>5, <2>1, WaitsStay
<1>7. Live' => InAlt'
  <2> SUFFICES ASSUME Live', NEW p \in Proc, phase'[p] # "none"
               PROVE  p \in started' /\ state'[p] \notin {"FREE", "ENDED"}
    BY DEF InAlt
  <2>1. phase[p] # "none" /\ p \in started /\ state[p] \notin {"FREE", "ENDED"} /\ Calm(p)
    BY <1>2, <1>3 DEF PInv, InAlt, altVars
  <2>2. End => phase[curr_proc] = "none"
    BY DEF InUserCode
  <2> QED BY <2>1, <2>2 DEF Calm
<1>8. Live => [SchedNext]_schedVars
  BY <1>1, SleepOrAwake
<1> QED BY <1>1, <1>2, <1>6, <1>7, <1>8

\* What channels and ALT do to the scheduler: nothing, or the running PROC
\* yields or waits, or a PROC that waits on a channel or in ALT is made ready.
Stirs ==
  \/ UNCHANGED schedVars
  \/ Yield
  \/ Block("CHANWAIT")
  \/ Block("ALTWAIT")
  \/ \E q \in Proc : state[q] \in {"CHANWAIT", "ALTWAIT"} /\ Readies(<<q>>)

\* The builders do not notice.
LEMMA StirsAside ==
  ASSUME PInv, Live, AInv', Stirs, UNCHANGED cspVars,
         \A p \in Proc : phase'[p] # "none" => phase[p] # "none" \/ (p = curr_proc /\ pc = "proc")
  PROVE  BuildInv' /\ (Live' => InAlt')
<1>1. /\ SInv' /\ BuildInv /\ TypeInv /\ Steady /\ state \in [Proc -> ProcState]
      /\ (parsing # NULL => pc \in {"free", "tfree"}) /\ InAlt
      /\ (pc = "proc" => curr_proc \in Proc \cap started /\ state[curr_proc] = "RUNNING")
  BY DEF PInv, AInv, CInv, BuildInv, Built, Active, Parses, TypeInv, SchedTypeOK, Steady, Where
<1>2. CASE UNCHANGED schedVars
  <2>1. BuildInv'
    BY <1>1, <1>2, BuildersAside DEF schedVars, Live
  <2> QED BY <1>1, <1>2, <2>1 DEF schedVars, InAlt
<1>3. CASE Yield
  <2>1. BuildInv'
    BY <1>1, <1>3, BuildersAside DEF Yield, Live
  <2> QED BY <1>1, <1>3, <2>1 DEF Yield, InAlt
<1>4. ASSUME NEW w \in {"CHANWAIT", "ALTWAIT"}, Block(w) PROVE BuildInv' /\ (Live' => InAlt')
  <2>1. Range(<<>>) = {}
    BY DEF Range
  <2>2. /\ pc = "proc" /\ pc' = "switch" /\ state' = [p \in Proc |-> IF p = curr_proc THEN w ELSE state[p]]
        /\ started' = started /\ UNCHANGED <<totalQ, freeing>>
    BY <1>4, <2>1 DEF Block, Waits
  <2>3. BuildInv'
    BY <1>1, <2>2, BuildersAside DEF Live
  <2> QED BY <1>1, <2>2, <2>3 DEF InAlt
<1>5. ASSUME NEW q \in Proc, state[q] \in {"CHANWAIT", "ALTWAIT"}, Readies(<<q>>)
      PROVE  BuildInv' /\ (Live' => InAlt')
  <2>1. q \in started
    <3>1. q \in Range(totalQ) \/ q = freeing
      BY <1>1, <1>5 DEF Steady, Queues, TotalQSound
    <3>2. q # freeing
      BY <1>1, <1>5, SchedAssumption DEF Steady, Where, Live
    <3> QED BY <1>1, <1>5, <3>1, <3>2 DEF Steady, Fits
  <2>2. Range(<<q>>) = {q}
    BY SingletonFacts
  <2>3. /\ state' = [p \in Proc |-> IF p = q THEN "READY" ELSE state[p]]
        /\ pc' = pc /\ started' = started /\ UNCHANGED <<totalQ, freeing>>
    BY <1>5, <2>1, <2>2 DEF Readies, scheduler_addready
  <2>4. BuildInv'
    BY <1>1, <1>5, <2>3, BuildersAside DEF Live
  <2> QED BY <1>1, <2>3, <2>4 DEF InAlt
<1> QED BY <1>2, <1>3, <1>4, <1>5 DEF Stirs

\* Channel operations, and what they leave alone.
LEMMA ChanActs ==
  ASSUME AInv, NEW c \in Chans, PlainChan(c)
  PROVE  /\ Stirs /\ Live /\ AInv' /\ AwakeNext /\ UNCHANGED phase
         /\ endQ' \in [Chans -> Seq(ChanEnd)]
         /\ \A d \in Chans : d # c => endQ'[d] = endQ[d] /\ altQ'[d] = altQ[d]
<1>1. CInv /\ pc = "proc" /\ UNCHANGED altVars /\ endQ \in [Chans -> Seq(ChanEnd)]
  BY DEF PlainChan, InUserCode, AInv, CInv, ChanTypeOK
<1>2. [ChanNext]_<<schedVars, chanVars>> /\ UNCHANGED altVars
  BY PlainOnes
<1>3. AInv' /\ [AwakeNext]_schedVars /\ endQ' \in [Chans -> Seq(ChanEnd)]
  BY <1>1, <1>2, PlainStep, ChanAwake DEF AInv, CInv, ChanTypeOK
<1>4. ASSUME endQ[c] # <<>>, Readies(<<Head(endQ[c]).proc>>), Dequeue(c)
      PROVE  Stirs /\ AwakeNext /\ \A d \in Chans : d # c => endQ'[d] = endQ[d]
  <2>1. Head(endQ[c]).proc \in Proc /\ state[Head(endQ[c]).proc] = "CHANWAIT"
    BY <1>1, <1>4, HeadParked DEF ChanEnd
  <2>2. AwakeNext
    BY <1>1, <1>4, WakesParked
  <2>3. \A d \in Chans : d # c => endQ'[d] = endQ[d]
    BY <1>1, <1>4 DEF Dequeue
  <2> QED BY <1>4, <2>1, <2>2, <2>3 DEF Stirs
<1>5. ASSUME NEW e, endQ' = [endQ EXCEPT ![c] = Append(@, e)], Block("CHANWAIT")
      PROVE  Stirs /\ AwakeNext /\ \A d \in Chans : d # c => endQ'[d] = endQ[d]
  BY <1>1, <1>5 DEF Stirs, AwakeNext, Blocked
<1>6. CASE \E v \in Data : WriteToReader(c, v)
  BY <1>1, <1>3, <1>4, <1>6 DEF WriteToReader, FirstIs, altVars, Live
<1>7. CASE \E v \in Data : WriteEnqueue(c, v)
  BY <1>1, <1>3, <1>5, <1>7 DEF WriteEnqueue, altVars, Live
<1>8. CASE ReadFromWriter(c)
  BY <1>1, <1>3, <1>4, <1>8 DEF ReadFromWriter, TakeFromWriter, FirstIs, altVars, Live
<1>9. CASE ReadEnqueue(c)
  BY <1>1, <1>3, <1>5, <1>9 DEF ReadEnqueue, altVars, Live
<1> QED BY <1>6, <1>7, <1>8, <1>9 DEF PlainChan

\* chan_write to an ALT.
LEMMA WriteActs ==
  ASSUME AInv, NEW c \in Chans, NEW v \in Data, WriteToAlt(c, v)
  PROVE  Stirs /\ Live /\ AInv' /\ AwakeNext /\ UNCHANGED <<phase, endQ, altQ>>
<1>1. AInv' /\ AwakeNext
  BY WriteToAltStep
<1>2. pc = "proc" /\ altQ[c] # <<>> /\ ~is_accepted[Head(altQ[c])]
  BY DEF WriteToAlt, InUserCode, AltAccepts, CanAccept
<1>3. Head(altQ[c]) \in Proc /\ phase[Head(altQ[c])] = "wait" /\ Live
  BY <1>2, LinkedWaits DEF Live
<1>4. state[Head(altQ[c])] = "ALTWAIT"
  BY <1>2, <1>3 DEF AInv, Accepted
<1> QED BY <1>1, <1>3, <1>4 DEF WriteToAlt, Stirs

\* alt_select, whose guards are on the channels of its arguments.
LEMMA BeginActs ==
  ASSUME OneTimer, AInv, pc = "proc", NEW l \in Menu[curr_proc], AltBegin(l)
  PROVE  /\ Stirs /\ Live /\ AInv' /\ [AwakeNext]_schedVars
         /\ \A p \in Proc : p # curr_proc => phase'[p] = phase[p]
         /\ \A d \in Chans : (\A i \in DOMAIN l : l[i].chan # d) => endQ'[d] = endQ[d] /\ altQ'[d] = altQ[d]
<1> DEFINE gs == alt_addguards(l)
<1>1. AInv' /\ [AwakeNext]_schedVars
  BY BeginStep
<1>2. /\ curr_proc \in Proc /\ l \in Seq(GuardSpec) /\ CInv
      /\ endQ \in [Chans -> Seq(ChanEnd)] /\ altQ \in [Chans -> Seq(Proc)] /\ phase \in [Proc -> Phase]
      /\ clock \in 0..MaxTime /\ Live
  BY RunningOne, AltAssumption DEF AInv, CInv, ChanTypeOK, Typed
<1>3. gs \in Seq(Guard) /\ \A i \in DOMAIN gs : gs[i].type = "CHAN" <=> gs[i].chan \in Chans
  BY <1>2, GuardsBuilt
<1>4. \A i \in DOMAIN gs : \E j \in DOMAIN l : gs[i].chan = l[j].chan
  <2>1. Kept(l) \in Seq({i \in 1..Len(l) : Keeps(l, i)})
    BY <1>2, KeptOnes
  <2>2. \A n \in 1..Len(Kept(l)) : Kept(l)[n] \in 1..Len(l)
    BY <2>1
  <2>3. \A n \in DOMAIN gs : n \in 1..Len(Kept(l)) /\ gs[n].chan = l[Kept(l)[n]].chan
    BY DEF alt_addguards
  <2>4. DOMAIN l = 1..Len(l)
    BY <1>2
  <2> QED BY <2>2, <2>3, <2>4
<1> HIDE DEF gs
<1>5. CASE AltWait(l)
  <2>1. /\ altQ' = EnabledAltQ(gs) /\ Block("ALTWAIT") /\ UNCHANGED endQ
        /\ phase' = [phase EXCEPT ![curr_proc] = "wait"]
    BY <1>5 DEF AltWait, gs, chanVars
  <2>2. ASSUME NEW d \in Chans, \A i \in DOMAIN l : l[i].chan # d PROVE altQ'[d] = altQ[d]
    <3> DEFINE G == {j \in DOMAIN gs : gs[j].in_chan /\ gs[j].chan = d}
    <3>1. G = {}
      BY <1>4, <2>2
    <3>2. altQ'[d] = altQ[d] \o [i \in 1..Cardinality(G) |-> curr_proc]
      BY <2>1 DEF EnabledAltQ
    <3>3. Cardinality(G) = 0
      BY <3>1, FS_EmptySet
    <3> HIDE DEF G
    <3>4. [i \in 1..Cardinality(G) |-> curr_proc] = <<>>
      BY <3>3
    <3>5. altQ[d] \in Seq(Proc)
      BY <1>2
    <3> QED BY <3>2, <3>4, <3>5, ConcatEmptySeq
  <2> QED BY <1>1, <1>2, <2>1, <2>2 DEF Stirs
<1>6. CASE \E w \in DOMAIN l : AltChoose(l, w)
  <2>1. PICK w \in DOMAIN l : AltChoose(l, w)
    BY <1>6
  <2>2. /\ w \in ReadyGuards(gs) /\ UNCHANGED altQ /\ phase' = [phase EXCEPT ![curr_proc] = "yield"]
        /\ IF gs[w].type = "CHAN" THEN TakeFromWriter(gs[w].chan) ELSE UNCHANGED <<schedVars, chanVars>>
    BY <2>1 DEF AltChoose, gs
  <2>3. w \in DOMAIN gs /\ (gs[w].type = "CHAN" => ~gs[w].in_chan)
    BY <2>2 DEF ReadyGuards
  <2>4. CASE gs[w].type # "CHAN"
    BY <1>1, <1>2, <2>2, <2>4 DEF Stirs, chanVars
  <2>5. CASE gs[w].type = "CHAN"
    <3>1. PICK c \in Chans : c = gs[w].chan
      BY <1>3, <2>3, <2>5
    <3>2. FirstIs(c, "CHAN_WRITER")
      BY <1>2, <2>3, <2>5, <3>1, GuardsBuilt DEF gs
    <3>3. endQ[c] # <<>> /\ Dequeue(c) /\ Readies(<<Head(endQ[c]).proc>>)
      BY <2>2, <2>5, <3>1, <3>2 DEF TakeFromWriter, FirstIs
    <3>4. Head(endQ[c]).proc \in Proc /\ state[Head(endQ[c]).proc] = "CHANWAIT"
      BY <1>2, <3>3, HeadParked DEF ChanEnd
    <3>5. \A d \in Chans : d # c => endQ'[d] = endQ[d]
      BY <1>2, <3>3 DEF Dequeue
    <3>6. \E j \in DOMAIN l : l[j].chan = c
      BY <1>4, <2>3, <3>1
    <3> QED BY <1>1, <1>2, <2>2, <3>3, <3>4, <3>5, <3>6 DEF Stirs
  <2> QED BY <2>4, <2>5
<1> QED BY <1>5, <1>6 DEF AltBegin

\* The rest of proxc_alt.
LEMMA GoesOnActs ==
  ASSUME OneTimer, AInv, AltGoesOn
  PROVE  /\ Stirs /\ Live /\ AInv' /\ [AwakeNext]_schedVars
         /\ \A p \in Proc : p # curr_proc => phase'[p] = phase[p]
         /\ pc = "proc" /\ UNCHANGED endQ
         /\ \A d \in Chans : Range(altQ'[d]) \subseteq Range(altQ[d])
<1>1. phase \in [Proc -> Phase] /\ altQ \in [Chans -> Seq(Proc)]
  BY DEF AInv, Typed
<1>2. [AltNext]_allVars
  BY DEF AltNext, AltStep
<1>3. AInv' /\ [AwakeNext]_schedVars
  BY <1>2, AltInvStep
<1>4. CASE AltYield
  BY <1>1, <1>3, <1>4 DEF AltYield, Stirs, Live, chanVars
<1>5. CASE AltReturn
  BY <1>1, <1>3, <1>5 DEF AltReturn, Cleanup, Stirs, Live, chanVars
<1>6. CASE AltResume
  <2>1. ASSUME NEW d \in Chans PROVE Range(altQ'[d]) \subseteq Range(altQ[d])
    <3>1. altQ'[d] = Without(altQ[d], curr_proc)
      BY <1>6 DEF AltResume, DisabledAltQ
    <3>2. PICK q : q = altQ'[d]
      OBVIOUS
    <3>3. q \in Seq({altQ[d][i] : i \in {i \in DOMAIN altQ[d] : altQ[d][i] # curr_proc} \cap DOMAIN altQ[d]})
      BY <3>1, <3>2, SubqueueFacts, <1>1 DEF Without
    <3>4. q \in Seq(Range(altQ[d]))
      <4>1. {altQ[d][i] : i \in {i \in DOMAIN altQ[d] : altQ[d][i] # curr_proc} \cap DOMAIN altQ[d]}
              \subseteq Range(altQ[d])
        BY DEF Range
      <4> QED BY <3>3, <4>1
    <3>5. Range(q) \subseteq Range(altQ[d])
      <4>1. PICK R : R = Range(altQ[d])
        OBVIOUS
      <4>2. \A i \in DOMAIN q : q[i] \in R
        BY <3>4, <4>1
      <4> QED BY <4>1, <4>2 DEF Range
    <3> QED BY <3>2, <3>5
  <2> QED BY <1>1, <1>3, <1>6, <2>1 DEF AltResume, Cleanup, Stirs, Live, chanVars
<1> QED BY <1>4, <1>5, <1>6 DEF AltGoesOn

\* A timer that is due.
LEMMA TimeoutActs ==
  ASSUME AInv, WakeGuard
  PROVE  Stirs /\ Live /\ AInv' /\ [AwakeNext]_schedVars /\ UNCHANGED <<phase, endQ, altQ>>
<1>1. AInv' /\ [AwakeNext]_schedVars
  BY WakeGuardStep
<1>2. PICK x \in Proc \cup {NULL} : altsleep = Lone(x)
  BY DEF AInv, OneLeaf
<1>3. RB!RB_MIN(altsleep) = x
  BY <1>2, LoneMin
<1>4. x \in Proc
  BY <1>3 DEF WakeGuard
<1>5. CASE state[x] = "ALTWAIT" /\ CanAccept(x)
  BY <1>1, <1>3, <1>4, <1>5 DEF WakeGuard, Stirs, Live, chanVars
<1>6. CASE ~(state[x] = "ALTWAIT" /\ CanAccept(x))
  BY <1>1, <1>3, <1>4, <1>6 DEF WakeGuard, Stirs, Live, chanVars
<1> QED BY <1>5, <1>6

\* A step that leaves builders and ALTs alone and starts or ends nobody.
LEMMA NobodyMoves ==
  ASSUME PInv, AInv', UNCHANGED <<cspVars, totalQ, freeing, phase>>,
         parsing # NULL => pc' \in {"free", "tfree"},
         Live' => /\ Live
                  /\ \A p \in Proc :
                       /\ p \in started' <=> p \in started
                       /\ state'[p] = "RUNWAIT" <=> state[p] = "RUNWAIT"
                       /\ state'[p] \in {"FREE", "ENDED"} => state[p] \in {"FREE", "ENDED"}
  PROVE  BuildInv' /\ (Live' => InAlt')
<1>1. SInv' /\ BuildInv
  BY DEF PInv, AInv, CInv
<1>2. BuildInv'
  BY <1>1, BuildersAside
<1> QED BY <1>2 DEF PInv, InAlt

\* proxc_sleep
LEMMA SleepSide ==
  ASSUME RoomToSleep, PInv, NEW u \in Delay, Sleep(u), UNCHANGED <<chanVars, altVars, cspVars>>
  PROVE  AInv' /\ BuildInv' /\ Live /\ (Live' => InAlt') /\ SchedNext
<1>1. /\ AInv /\ SInv /\ pc = "proc" /\ Live /\ parsing = NULL /\ state \in [Proc -> ProcState]
      /\ curr_proc \in Proc /\ state[curr_proc] = "RUNNING" /\ clock \in 0..MaxTime
  BY DEF PInv, AInv, Typed, CInv, SInv, BuildInv, Built, Parses, Sleep, Live, TypeInv, SchedTypeOK,
     Steady, Where
<1>2. SchedNext
  BY DEF SchedNext, Leave
<1>3. SInv'
  BY <1>1, <1>2, SteadyStep
<1>4. /\ UNCHANGED <<curr_proc, totalQ, freeing, clock, started>>
      /\ state' = state \/ state' = [state EXCEPT ![curr_proc] = "SLEEPING"]
  BY DEF Sleep
<1>5. AInv'
  BY <1>1, <1>3, <1>4, WaitsStay
<1>6. BuildInv' /\ (Live' => InAlt')
  BY <1>1, <1>4, <1>5, NobodyMoves DEF altVars
<1> QED BY <1>1, <1>2, <1>5, <1>6

\* One round of the first loop of _scheduler_wakeup.
LEMMA WakeSide ==
  ASSUME PInv, NEW p \in Proc, WakeProc(p), UNCHANGED <<chanVars, altVars, cspVars>>
  PROVE  AInv' /\ BuildInv' /\ Live /\ (Live' => InAlt') /\ SchedNext
<1>1. /\ AInv /\ SInv /\ pc = "wakeup" /\ Live /\ parsing = NULL /\ Steady
      /\ p \in sleepRB /\ state \in [Proc -> ProcState]
  BY DEF PInv, AInv, CInv, SInv, BuildInv, Built, Parses, WakeProc, IsFirstSleeper, Live, TypeInv,
     SchedTypeOK
<1>2. SchedStep
  BY DEF SchedStep
<1>3. AInv'
  BY <1>1, <1>2, PlainStep DEF ChanNext, NoChanStep
<1>4. p \in Range(totalQ) /\ state[p] = "SLEEPING" /\ p \in started
  BY <1>1 DEF Steady, Queues, SleepRBSound, Fits
<1>5. Range(<<p>>) = {p}
  BY SingletonFacts
<1>6. /\ state' = [q \in Proc |-> IF q = p THEN "READY" ELSE state[q]]
      /\ started' = started /\ UNCHANGED <<pc, totalQ, freeing>>
  BY <1>4, <1>5 DEF WakeProc, scheduler_addready
<1>7. BuildInv' /\ (Live' => InAlt')
  BY <1>1, <1>3, <1>4, <1>6, NobodyMoves DEF altVars
<1> QED BY <1>1, <1>2, <1>3, <1>7 DEF SchedNext

\* Time passes, or the clock is set back.
LEMMA ClockSide ==
  ASSUME PInv, ProxcTick \/ \E t \in 0..MaxTime : SetBack(t)
  PROVE  /\ AInv' /\ BuildInv' /\ (Live' => Live /\ InAlt')
         /\ (clock' >= clock => SchedNext)
<1>1. AInv /\ SInv /\ clock \in 0..MaxTime /\ (parsing # NULL => pc \in {"free", "tfree"})
  BY DEF PInv, AInv, Typed, CInv, BuildInv, Built, Parses
<1>2. UNCHANGED <<pc, state, totalQ, freeing, started, chanVars, altVars, cspVars>>
  BY DEF ProxcTick, Tick, SetBack
<1>3. clock' >= clock => SchedNext
  <2>1. CASE ProxcTick
    BY <2>1 DEF ProxcTick, SchedNext
  <2>2. ASSUME NEW t \in 0..MaxTime, SetBack(t) PROVE ~(clock' >= clock)
    BY <1>1, <2>2, SchedAssumption DEF SetBack
  <2> QED BY <2>1, <2>2
<1>4. AInv'
  <2>1. CASE ProxcTick
    BY <1>1, <2>1, TickStep DEF ProxcTick, AltTick
  <2>2. ASSUME NEW t \in 0..MaxTime, SetBack(t) PROVE AInv'
    <3>1. clock' \in Nat /\ clock' \in 0..MaxTime
      BY <2>2, SchedAssumption DEF SetBack
    <3>2. UNCHANGED <<pc, state, curr_proc, totalQ, readyQ, sleepRB, sleep_us, is_exit, freeing,
                      now_us, started, due>>
      BY <2>2 DEF SetBack
    <3>3. TypeInv'
      BY <1>1, <3>1, <3>2 DEF SInv, TypeInv, SchedTypeOK
    <3>4. Live' => Steady'
      BY <1>1, <3>2 DEF SInv, Live, Steady, Where, Fits, Queues, ReadyQSound, SleepRBSound,
         NoLostProc, TotalQSound
    <3> QED BY <1>1, <1>2, <3>1, <3>3, <3>4, WaitsStay DEF SInv, Live
  <2> QED BY <2>1, <2>2
<1>5. BuildInv' /\ (Live' => InAlt')
  BY <1>1, <1>2, <1>4, NobodyMoves DEF altVars, Live
<1> QED BY <1>2, <1>3, <1>4, <1>5 DEF Live

-----------------------------------------------------------------------------
(* Closing a channel *)

\* A builder that csp_runbuild has been called on is below a root of its level.
LEMMA RootsAbove ==
  ASSUME Built, NEW on, Runs(on), NEW level \in [Build -> Nat],
         \A x \in on : ~is_root[x] => level[x] = level[parent[x]]
  PROVE  \A x \in on : \E r \in on : is_root[r] /\ level[r] = level[x]
<1> DEFINE G == {x \in Build : x \in on => \E r \in on : is_root[r] /\ level[r] = level[x]}
<1>1. PICK n, rank : Falls(Build, AllKids, n, rank)
  BY DEF Built, Ranked
<1>2. ASSUME NEW x \in Build, \A y \in Build : x \in AllKids[y] => y \in G PROVE x \in G
  <2>1. CASE x \in on /\ ~is_root[x]
    <3>1. parent[x] \in on /\ parent[x] \in Build /\ level[x] = level[parent[x]]
      BY <2>1 DEF Runs, Reaches
    <3>2. x \in AllKids[parent[x]]
      BY <3>1 DEF Built, Shape, AllKids
    <3>3. parent[x] \in G
      BY <1>2, <3>1, <3>2
    <3> QED BY <3>1, <3>3
  <2>2. CASE x \notin on \/ is_root[x]
    BY <2>2
  <2> QED BY <2>1, <2>2
<1>3. G = Build
  <2>1. G \in SUBSET Build
    OBVIOUS
  <2> HIDE DEF G
  <2> QED BY <1>1, <1>2, <2>1, FromRoots
<1>4. on \subseteq Build
  BY DEF Runs
<1> QED BY <1>3, <1>4

\* While the main PROC runs in a program without GO no other PROC has started
\* and not ended: somebody would wait for it in RUN, for him somebody else, and
\* so on up to the main PROC.
LEMMA MainAlone ==
  ASSUME PInv, pc = "proc", curr_proc = Main, ~went, NEW p \in Range(totalQ), p # Main
  PROVE  p \notin started
<1>1. /\ Live /\ Steady /\ Built /\ CspTypeOK /\ Joins /\ Joined /\ TypeInv
      /\ state[Main] = "RUNNING" /\ freeing = NULL /\ Range(totalQ) \subseteq Proc /\ Main \in Proc
  <2>1. Live
    BY DEF Live
  <2> QED BY <2>1, QueuesInProc, BuildFacts DEF PInv, BuildInv, Built, Active, Steady, Where
<1>2. PICK on : Runs(on) /\ Nested(on)
  BY <1>1 DEF PInv, BuildInv, Active
<1>3. PICK level \in [Build -> Nat] :
         \A x \in on : /\ is_root[x] /\ run_proc[x] # NULL => level[run_proc[x]] < level[x]
                       /\ ~is_root[x] => level[x] = level[parent[x]]
  BY <1>2 DEF Nested
<1>4. on \subseteq Build /\ Proc \subseteq Build
  BY <1>2, BuildFacts DEF Runs
<1>5. \A q \in Range(totalQ) \ {Main} : q \in started => q \in on
  BY <1>1, <1>2 DEF Runs, Joins
<1>6. \A x \in on : \E r \in on : is_root[r] /\ level[r] = level[x]
  BY <1>1, <1>2, <1>3, RootsAbove
<1> SUFFICES ASSUME p \in started PROVE FALSE
  OBVIOUS
<1> DEFINE T == {level[r] : r \in {r \in on : is_root[r]}}
<1>7. T \in SUBSET Nat /\ T # {}
  BY <1>4, <1>5, <1>6
<1>8. PICK r \in on : is_root[r] /\ \A s \in on : is_root[s] => level[r] <= level[s]
  <2>1. PICK m \in T : \A k \in T : m <= k
    <3> HIDE DEF T
    <3> QED BY <1>7, NatMin
  <2> QED BY <2>1
<1>9. PICK q \in Proc : q = run_proc[r] /\ q # NULL
  BY <1>1, <1>4, <1>8 DEF Joined, CspTypeOK
<1>10. state[q] = "RUNWAIT"
  BY <1>1, <1>4, <1>9 DEF Joins
<1>11. q \in Range(totalQ) /\ q # Main
  BY <1>1, <1>9, <1>10 DEF Steady, Queues, TotalQSound
<1>12. q \in started
  BY <1>1, <1>10, <1>11 DEF Steady, Fits
<1>13. q \in on /\ level[q] < level[r]
  BY <1>3, <1>5, <1>8, <1>9, <1>11, <1>12
<1>14. PICK s \in on : is_root[s] /\ level[s] = level[q]
  BY <1>6, <1>13
<1>15. level[r] <= level[s] /\ level[r] \in Nat /\ level[q] \in Nat
  BY <1>4, <1>8, <1>13, <1>14
<1> QED BY <1>13, <1>14, <1>15

\* Whoever is linked in altQ waits in ALT, with a guard on that channel.
LEMMA InAltQ ==
  ASSUME AInv, NEW c \in Chans, NEW p \in Proc
  PROVE  p \in Range(altQ[c]) <=> phase[p] = "wait" /\ GuardsOn(p, c) # {}
<1>1. altQ[c] \in Seq(Proc) /\ guards[p] \in Seq(Guard)
  BY DEF AInv, Typed
<1>2. p \in Range(altQ[c]) <=> Places(altQ[c], p) # {}
  BY <1>1 DEF Places, Range
<1>3. ASSUME NEW s \in Seq(Proc), NEW S \in SUBSET DOMAIN s PROVE IsFiniteSet(S)
  <2>1. PICK n \in Nat : n = Len(s)
    BY <1>3
  <2>2. S \subseteq 1..n
    BY <1>3, <2>1
  <2> QED BY <2>2, FS_Interval, FS_Subset
<1>4. IsFiniteSet(Places(altQ[c], p))
  BY <1>1, <1>3 DEF Places
<1>5. IsFiniteSet(GuardsOn(p, c))
  BY <1>1, GuardCount DEF GuardsOn, OnChannel
<1>6. Cardinality(Places(altQ[c], p)) = IF phase[p] = "wait" THEN Cardinality(GuardsOn(p, c)) ELSE 0
  BY DEF AInv, Linked
<1> QED BY <1>2, <1>4, <1>5, <1>6, FS_EmptySet

\* Whoever is linked in a channel is one of the others.
LEMMA LinkedOthers ==
  ASSUME PInv, InUserCode, NEW c \in Chans, NEW p \in Linkers(c)
  PROVE  p \in Proc /\ p \in Others
<1>1. /\ AInv /\ CInv /\ Steady /\ InAlt /\ WaitsQueued /\ freeing = NULL /\ NULL \notin Proc
      /\ state[curr_proc] = "RUNNING" /\ phase[curr_proc] = "none"
  <2>1. Live /\ pc = "proc" /\ phase[curr_proc] = "none"
    BY DEF InUserCode, Live
  <2> QED BY <2>1, SchedAssumption DEF PInv, AInv, CInv, BuildInv, Active, Steady, Where
<1>2. endQ[c] \in Seq(ChanEnd) /\ altQ[c] \in Seq(Proc)
  BY <1>1 DEF CInv, ChanTypeOK, AInv, Typed
<1>3. ASSUME NEW e \in Range(endQ[c]), p = e.proc PROVE p \in Proc /\ p \in Others
  <2>1. p \in Proc
    <3>1. e \in ChanEnd
      BY <1>2 DEF Range
    <3>2. e.proc \in Proc
      BY <3>1 DEF ChanEnd
    <3> QED BY <1>3, <3>2
  <2>2. state[p] = "CHANWAIT"
    BY <1>1, <1>3, <2>1 DEF WaitsQueued, Queued
  <2>3. p \in Range(totalQ) /\ p \in started
    BY <1>1, <2>1, <2>2 DEF Steady, Queues, TotalQSound, Fits
  <2> QED BY <1>1, <2>1, <2>2, <2>3 DEF Others
<1>4. ASSUME p \in Range(altQ[c]) PROVE p \in Proc /\ p \in Others
  <2>1. p \in Proc
    BY <1>2, <1>4 DEF Range
  <2>2. phase[p] = "wait"
    BY <1>1, <1>4, <2>1, InAltQ
  <2>3. p \in started /\ state[p] \notin {"FREE", "ENDED"}
    BY <1>1, <2>1, <2>2 DEF InAlt
  <2>4. p \in Range(totalQ)
    BY <1>1, <2>1, <2>3 DEF Steady, Queues, TotalQSound
  <2> QED BY <1>1, <2>1, <2>2, <2>3, <2>4 DEF Others
<1> QED BY <1>3, <1>4 DEF Linkers

\* A channel whose queues lead to nobody has empty queues.
LEMMA NoLinkers ==
  ASSUME AInv, NEW c \in Chans, Linkers(c) = {}
  PROVE  endQ[c] = <<>> /\ altQ[c] = <<>>
<1>1. endQ[c] \in Seq(ChanEnd) /\ altQ[c] \in Seq(Proc)
  BY DEF AInv, CInv, ChanTypeOK, Typed
<1>2. Range(endQ[c]) = {} /\ Range(altQ[c]) = {}
  BY DEF Linkers
<1>3. endQ[c] # <<>> => Head(endQ[c]) \in Range(endQ[c])
  BY <1>1, HeadTailFacts
<1>4. altQ[c] # <<>> => Head(altQ[c]) \in Range(altQ[c])
  BY <1>1, HeadTailFacts
<1> QED BY <1>2, <1>3, <1>4

\* How the program moves on: it does not, the running PROC calls, the scheduler
\* chooses the next one, or it looks at the timers while the program is not ending.
Moves ==
  /\ \/ UNCHANGED <<pc, curr_proc, is_exit, closing>>
     \/ pc = "proc" /\ pc' \in {"switch", "abort"} /\ UNCHANGED <<curr_proc, closing>>
     \/ /\ pc # "proc" /\ GivesUp
        /\ is_exit' => is_exit \/ pc' = "free"
        /\ pc' \in {"wakeup", "next", "proc"} => pc = "next"
     \/ /\ (pc = "loop" /\ ~is_exit) \/ pc = "wakeup"
        /\ UNCHANGED <<is_exit, closing>>
  /\ UNCHANGED <<open, users, broken>>

\* Nobody comes to a closed channel, and none is closed.
LEMMA ClosesStay ==
  ASSUME PInv, Moves, Live' => Live, \A d \in Chans \ open : Linkers(d)' \subseteq Linkers(d)
  PROVE  BrokenLate' /\ (Live' => Closes')
<1>1. BrokenLate'
  BY DEF PInv, BrokenLate, Moves, GivesUp
<1> SUFFICES ASSUME Live' PROVE Closes'
  BY <1>1
<1>2. Held /\ Unhurried /\ Hurried /\ Leaving /\ Live
  BY DEF PInv, Closes
<1>3. UNCHANGED <<open, users>>
  BY DEF Moves
<1>4. Held'
  BY <1>2, <1>3 DEF Held
<1>5. Unhurried'
  BY <1>2, <1>3 DEF Moves, Unhurried, GivesUp
<1>6. Hurried'
  BY <1>2, <1>3 DEF Moves, Hurried, Leaving, GivesUp, Live
<1>7. Leaving'
  BY <1>2 DEF Moves, Leaving, Live
<1> QED BY <1>4, <1>5, <1>6, <1>7 DEF Closes

-----------------------------------------------------------------------------
(* The steps keep the invariant *)

\* RUN names the PROC that waits for the tree, and its end frees the tree.
LEMMA JoinedStays ==
  ASSUME TypeInv, CspTypeOK, Joined, UNCHANGED went,
         \/ UNCHANGED <<is_root, run_proc>>
         \/ \E b \in Build : proxc_run(b)
         \/ \E b \in Build : ParseRoot(b)
  PROVE  Joined'
<1>1. ASSUME NEW b \in Build, proxc_run(b) PROVE Joined'
  <2>1. curr_proc # NULL
    BY <1>1, SchedAssumption DEF proxc_run, TypeInv
  <2> QED BY <1>1, <2>1 DEF proxc_run, Joined, CspTypeOK
<1>2. ASSUME NEW b \in Build, ParseRoot(b) PROVE Joined'
  BY <1>2 DEF ParseRoot, Joined, CspTypeOK
<1> QED BY <1>1, <1>2 DEF Joined

\* A call is made in the code of the PROC.
LEMMA CallFacts ==
  ASSUME PInv, NEW k, Calls(k)
  PROVE  /\ pc = "proc" /\ Live /\ InUserCode /\ curr_proc \in Proc
         /\ calls' \in [Proc -> Nat] /\ setBacks' \in Nat
<1>1. pc = "proc" /\ curr_proc \in Proc
  BY DEF Calls, InUserCode, PInv, BuildInv, Built, TypeInv
<1> QED BY <1>1 DEF Calls, PInv, ProxcTyped, Live

\* The steps of the builders and the scheduler that a program takes.
LEMMA BuilderSteps ==
  ASSUME PInv, BuildCall \/ GoCall \/ LastCall \/ ProxcCheckQs \/ ProxcFree \/ ProxcOther \/ ProxcEnd
                 \/ (AltWakeDone /\ UNCHANGED <<cspVars, proxcVars>>)
                 \/ (Yield /\ InUserCode /\ UNCHANGED <<chanVars, altVars, cspVars>>)
                 \/ UNCHANGED progVars
  PROVE  /\ [CspNext]_<<schedVars, cspVars>> /\ UNCHANGED <<chanVars, altVars>>
         /\ End => InUserCode
<1>1. End => pc = "proc"
  BY DEF End
<1>2. CASE BuildCall
  BY <1>2 DEF BuildCall, CspNext, Calls
<1>3. CASE GoCall
  BY <1>3 DEF GoCall, CspNext, Calls
<1>4. CASE LastCall
  BY <1>4 DEF LastCall, CspNext, CspOtherStep
<1>5. CASE ProxcCheckQs
  <2>1. CheckQs({}) /\ UNCHANGED <<chanVars, altVars, cspVars>> /\ pc = "loop"
    BY <1>5 DEF ProxcCheckQs, CheckQs
  <2> QED BY <1>1, <2>1 DEF CspNext, CspOtherStep
<1>6. CASE ProxcFree
  <2>1. pc # "proc"
    BY <1>6 DEF ProxcFree, StartFree, SwitchEnded, TeardownFree, csp_parsebuild, EndFree, FreeDone
  <2> QED BY <1>1, <1>6, <2>1 DEF ProxcFree, CspNext
<1>7. CASE ProxcOther
  <2>1. pc # "proc"
    BY <1>7 DEF ProxcOther, Dispatch, Continue, SwitchReady, SwitchWait, LoopExit, TeardownEnd
  <2> QED BY <1>1, <1>7, <2>1 DEF ProxcOther, CspNext, CspOtherStep
<1>8. CASE ProxcEnd
  <2>1. UNCHANGED <<schedVars, chanVars, altVars, cspVars>> /\ (End => pc' = pc)
    BY <1>8 DEF ProxcEnd, Terminated, schedVars
  <2>2. ~End
    BY <1>1, <2>1 DEF End
  <2> QED BY <2>1, <2>2
<1>9. CASE AltWakeDone /\ UNCHANGED <<cspVars, proxcVars>>
  <2>1. WakeDone /\ UNCHANGED <<chanVars, altVars>> /\ pc = "wakeup"
    BY <1>9 DEF AltWakeDone, WakeDone
  <2> QED BY <1>1, <1>9, <2>1 DEF CspNext, CspOtherStep
<1>10. CASE Yield /\ InUserCode /\ UNCHANGED <<chanVars, altVars, cspVars>>
  BY <1>10 DEF CspNext, CspOtherStep
<1>11. CASE UNCHANGED progVars
  <2>1. UNCHANGED <<schedVars, chanVars, altVars, cspVars>> /\ (End => pc' = pc)
    BY <1>11 DEF progVars, allVars, schedVars
  <2>2. ~End
    BY <1>1, <2>1 DEF End
  <2> QED BY <2>1, <2>2
<1> QED BY <1>2, <1>3, <1>4, <1>5, <1>6, <1>7, <1>8, <1>9, <1>10, <1>11

\* They close nothing.
LEMMA BuilderMoves ==
  ASSUME PInv, BuildCall \/ GoCall \/ LastCall \/ ProxcCheckQs \/ ProxcFree \/ ProxcOther \/ ProxcEnd
                 \/ (AltWakeDone /\ UNCHANGED <<cspVars, proxcVars>>) \/ UNCHANGED progVars
  PROVE  Moves /\ ProxcTyped'
<1>1. ProxcTyped
  BY DEF PInv
<1>2. CASE BuildCall
  <2>1. ProxcTyped' /\ UNCHANGED closeVars /\ pc = "proc"
    BY <1>1, <1>2, CallFacts DEF BuildCall, ProxcTyped, closeVars
  <2>2. UNCHANGED <<pc, curr_proc, is_exit>> \/ (pc' = "switch" /\ UNCHANGED curr_proc)
    BY <1>2 DEF BuildCall, proxc_proc, Create, proxc_comp, schedVars, proxc_run, Waits
  <2> QED BY <2>1, <2>2 DEF Moves, closeVars
<1>3. CASE GoCall
  <2>1. ProxcTyped' /\ UNCHANGED closeVars
    BY <1>1, <1>3, CallFacts DEF GoCall, ProxcTyped, closeVars
  <2>2. UNCHANGED <<pc, curr_proc, is_exit>>
    BY <1>3 DEF GoCall, proxc_go, Readies
  <2> QED BY <2>1, <2>2 DEF Moves, closeVars
<1>4. CASE LastCall
  BY <1>1, <1>4 DEF LastCall, End, Exit, Moves, ProxcTyped, proxcVars, closeVars
<1>5. CASE ProxcCheckQs
  BY <1>1, <1>5 DEF ProxcCheckQs, CheckQs, Running, Moves, ProxcTyped, proxcVars, closeVars
<1>6. CASE ProxcFree
  <2>1. GivesUp /\ ProxcTyped'
    BY <1>1, <1>6 DEF ProxcFree, GivesUp, ProxcTyped
  <2>2. CASE StartFree
    BY <2>1, <2>2 DEF StartFree, SwitchEnded, TeardownFree, Moves, GivesUp
  <2>3. CASE EndFree
    BY <2>1, <2>3 DEF EndFree, FreeDone, Moves, GivesUp
  <2>4. CASE csp_parsebuild
    <3>1. CASE ParsePar(parsing)
      BY <2>1, <2>4, <3>1 DEF csp_parsebuild, ParsePar, schedVars, Moves, GivesUp
    <3>2. CASE ParseSeq(parsing)
      BY <2>1, <2>4, <3>2 DEF csp_parsebuild, ParseSeq, Readies, Moves, GivesUp
    <3>3. CASE ParseUp(parsing)
      BY <2>1, <2>4, <3>3 DEF csp_parsebuild, ParseUp, schedVars, Moves, GivesUp
    <3>4. CASE ParseRoot(parsing)
      <4>1. WakesRunner(parsing)
        BY <3>4 DEF ParseRoot
      <4>2. UNCHANGED <<pc, curr_proc, is_exit>>
        BY <4>1 DEF WakesRunner, Readies, schedVars
      <4> QED BY <2>1, <2>4, <4>2 DEF csp_parsebuild, Moves, GivesUp
    <3> QED BY <2>4, <3>1, <3>2, <3>3, <3>4 DEF csp_parsebuild
  <2> QED BY <1>6, <2>1, <2>2, <2>3, <2>4 DEF ProxcFree
<1>7. CASE ProxcOther
  <2>1. GivesUp /\ ProxcTyped'
    BY <1>1, <1>7 DEF ProxcOther, GivesUp, ProxcTyped
  <2> QED BY <1>7, <2>1 DEF ProxcOther, Dispatch, Continue, SwitchReady, SwitchWait, LoopExit,
          TeardownEnd, Moves, GivesUp
<1>8. CASE ProxcEnd \/ UNCHANGED progVars
  <2>1. UNCHANGED <<schedVars, proxcVars>>
    BY <1>8 DEF ProxcEnd, Terminated, progVars, allVars
  <2> QED BY <1>1, <2>1 DEF schedVars, proxcVars, closeVars, Moves, ProxcTyped
<1>9. CASE AltWakeDone /\ UNCHANGED <<cspVars, proxcVars>>
  BY <1>1, <1>9 DEF AltWakeDone, WakeDone, Moves, ProxcTyped, proxcVars, closeVars
<1> QED BY <1>2, <1>3, <1>4, <1>5, <1>6, <1>7, <1>8, <1>9

\* What those steps do to the invariant.
LEMMA BuilderInv ==
  ASSUME PInv, BuildCall \/ GoCall \/ LastCall \/ ProxcCheckQs \/ ProxcFree \/ ProxcOther \/ ProxcEnd
                 \/ (AltWakeDone /\ UNCHANGED <<cspVars, proxcVars>>) \/ UNCHANGED progVars
  PROVE  PInv' /\ (Live => [SchedNext]_schedVars)
<1>1. [CspNext]_<<schedVars, cspVars>> /\ UNCHANGED <<chanVars, altVars>> /\ (End => InUserCode)
  BY BuilderSteps
<1>2. /\ AInv' /\ BuildInv' /\ (Live' => Live /\ InAlt')
      /\ (Live => [SchedNext]_schedVars)
  BY <1>1, BuilderSide
<1>3. Moves /\ ProxcTyped'
  BY BuilderMoves
<1>4. BrokenLate' /\ (Live' => Closes')
  BY <1>1, <1>2, <1>3, ClosesStay DEF Linkers, chanVars, altVars
<1>5. Live' => Joined'
  <2> SUFFICES ASSUME Live' PROVE Joined'
    OBVIOUS
  <2>1. TypeInv /\ CspTypeOK /\ Joined
    BY <1>2 DEF PInv, BuildInv, Built
  <2>2. CASE GoCall
    BY <2>2 DEF GoCall, Joined
  <2>3. CASE BuildCall
    <3>1. UNCHANGED went
      BY <2>3 DEF BuildCall
    <3>2. UNCHANGED <<is_root, run_proc>> \/ \E b \in Build : proxc_run(b)
      BY <2>3 DEF BuildCall, proxc_proc, proxc_comp
    <3> QED BY <2>1, <3>1, <3>2, JoinedStays
  <2>4. CASE ProxcFree
    <3>1. UNCHANGED went
      BY <2>4 DEF ProxcFree, GivesUp
    <3>2. CASE StartFree \/ EndFree
      BY <2>1, <3>1, <3>2, JoinedStays DEF StartFree, EndFree, cspVars
    <3>3. CASE csp_parsebuild
      <4>1. parsing \in Build
        BY <2>1, <3>3 DEF csp_parsebuild, CspTypeOK
      <4>2. UNCHANGED <<is_root, run_proc>> \/ ParseRoot(parsing)
        BY <3>3 DEF csp_parsebuild, ParsePar, ParseSeq, ParseUp
      <4> QED BY <2>1, <3>1, <4>1, <4>2, JoinedStays
    <3> QED BY <2>4, <3>2, <3>3 DEF ProxcFree
  <2>5. CASE LastCall \/ ProxcCheckQs \/ ProxcOther \/ ProxcEnd
               \/ (AltWakeDone /\ UNCHANGED <<cspVars, proxcVars>>) \/ UNCHANGED progVars
    <3>1. UNCHANGED <<cspVars, went>>
      BY <2>5 DEF LastCall, ProxcCheckQs, ProxcOther, GivesUp, ProxcEnd, progVars, proxcVars
    <3> QED BY <2>1, <3>1, JoinedStays DEF cspVars
  <2> QED BY <2>2, <2>3, <2>4, <2>5
<1> QED BY <1>2, <1>3, <1>4, <1>5 DEF PInv

\* Closing, and using what was closed, leave the components alone.
LEMMA CloseSide ==
  ASSUME PInv, UNCHANGED <<schedVars, chanVars, altVars, cspVars, went>>, pc = "proc"
  PROVE  AInv' /\ BuildInv' /\ InAlt' /\ Joined'
<1>1. pc' = pc /\ Live /\ Live' /\ (End => pc' = "switch") /\ InAlt /\ Joined
  BY DEF schedVars, Live, End, PInv
<1>2. [CspNext]_<<schedVars, cspVars>> /\ (End => InUserCode)
  BY <1>1
<1>3. AInv' /\ BuildInv' /\ (Live' => InAlt')
  BY <1>2, BuilderSide
<1>4. Joined'
  BY <1>1 DEF Joined, cspVars
<1> QED BY <1>1, <1>3, <1>4

\* CHOPEN finds its queues empty.
LEMMA OpenInv ==
  ASSUME PInv, NEW c \in Chans, CHOPEN(c)
  PROVE  PInv' /\ UNCHANGED <<schedVars, chanVars, altVars>>
<1>1. /\ UNCHANGED <<schedVars, cspVars, users, closing, broken, went>> /\ open' = open \cup {c}
      /\ c \notin open /\ users[c] = {} /\ Live /\ Closes /\ AInv /\ ProxcTyped /\ pc = "proc"
  BY CallFacts DEF CHOPEN, PInv
<1>2. ProxcTyped'
  <2>1. calls' \in [Proc -> Nat] /\ setBacks' \in Nat
    BY CallFacts DEF CHOPEN
  <2> QED BY <1>1, <2>1 DEF ProxcTyped
<1>3. UNCHANGED <<chanVars, altVars>>
  <2>1. endQ[c] = <<>> /\ altQ[c] = <<>>
    <3>1. Linkers(c) = {}
      BY <1>1 DEF Closes, Held
    <3> QED BY <1>1, <3>1, NoLinkers
  <2>2. endQ \in [Chans -> Seq(ChanEnd)] /\ altQ \in [Chans -> Seq(Proc)]
    BY DEF PInv, AInv, CInv, ChanTypeOK, Typed
  <2>3. endQ' = endQ /\ altQ' = altQ
    BY <2>1, <2>2 DEF CHOPEN
  <2> QED BY <2>3 DEF CHOPEN, chanVars, altVars
<1>4. Closes'
  <2>1. Held'
    BY <1>1, <1>3 DEF Closes, Held, Linkers, chanVars, altVars
  <2> QED BY <1>1, <2>1 DEF Closes, Unhurried, Hurried, Leaving, schedVars
<1>5. BrokenLate'
  BY <1>1 DEF PInv, BrokenLate
<1>6. AInv' /\ BuildInv' /\ InAlt' /\ Joined'
  BY <1>1, <1>3, CloseSide
<1> QED BY <1>1, <1>2, <1>3, <1>4, <1>5, <1>6 DEF PInv

\* CHCLOSE leaves a channel to those who may use it, none when the main PROC closes
\* it and nobody has used GO.
LEMMA CloseInv ==
  ASSUME PInv, NEW c \in Chans, CHCLOSE(c)
  PROVE  PInv' /\ UNCHANGED <<schedVars, chanVars, altVars>>
<1>1. /\ UNCHANGED <<schedVars, chanVars, altVars, cspVars, broken, went>> /\ open' = open \ {c}
      /\ users' = [users EXCEPT ![c] = IF Others = {} THEN {} ELSE Proc \ {curr_proc}]
      /\ closing' = IF closing = "no" /\ Hasty THEN "hasty" ELSE closing
      /\ Live /\ Closes /\ ProxcTyped /\ pc = "proc" /\ InUserCode /\ curr_proc \in Proc
  BY CallFacts DEF CHCLOSE, allVars, PInv
<1>2. ProxcTyped'
  <2>1. calls' \in [Proc -> Nat] /\ setBacks' \in Nat
    BY CallFacts DEF CHCLOSE
  <2>2. users' \in [Chans -> SUBSET Proc] /\ closing' \in {"no", "hasty", "careless"}
    BY <1>1 DEF ProxcTyped
  <2> QED BY <1>1, <2>1, <2>2 DEF ProxcTyped
<1>3. /\ users \in [Chans -> SUBSET Proc] /\ ~is_exit
      /\ \A d \in Chans : d # c => users'[d] = users[d]
      /\ users'[c] = IF Others = {} THEN {} ELSE Proc \ {curr_proc}
  BY <1>1 DEF ProxcTyped, Closes, Leaving
<1>4. Held'
  <2> SUFFICES ASSUME NEW d \in Chans, d \notin open', NEW p \in Linkers(d)
               PROVE  p \in users'[d]
    BY <1>1 DEF Held, Linkers, chanVars, altVars
  <2>1. CASE d = c
    <3>1. p \in Proc /\ p \in Others
      BY <1>1, LinkedOthers
    <3>2. p # curr_proc
      BY <3>1 DEF Others
    <3> QED BY <1>3, <2>1, <3>1, <3>2
  <2>2. CASE d # c
    BY <1>1, <1>3, <2>2 DEF Closes, Held
  <2> QED BY <2>1, <2>2
<1>5. Unhurried'
  <2> SUFFICES ASSUME closing' = "no" PROVE \A d \in Chans : users'[d] = {}
    BY DEF Unhurried
  <2>1. closing = "no" /\ ~Hasty
    BY <1>1
  <2>2. Others = {}
    <3>1. CASE curr_proc = Main /\ ~went
      BY <1>1, <3>1, MainAlone DEF Others
    <3> QED BY <2>1, <3>1 DEF Hasty
  <2> QED BY <1>1, <1>3, <2>1, <2>2 DEF Closes, Unhurried
<1>6. Hurried'
  <2> SUFFICES ASSUME closing' = "hasty" PROVE \A d \in Chans : curr_proc \notin users'[d]
    BY <1>1 DEF Hurried, schedVars
  <2>1. curr_proc \notin users'[c]
    BY <1>3
  <2>2. \A d \in Chans : curr_proc \notin users[d]
    BY <1>1, <1>3 DEF Closes, Unhurried, Hurried
  <2> QED BY <1>3, <2>1, <2>2
<1>7. Leaving'
  BY <1>1 DEF Closes, Leaving, schedVars
<1>8. BrokenLate'
  BY <1>1 DEF PInv, BrokenLate
<1>9. AInv' /\ BuildInv' /\ InAlt' /\ Joined'
  BY <1>1, CloseSide
<1> QED BY <1>1, <1>2, <1>4, <1>5, <1>6, <1>7, <1>8, <1>9 DEF PInv, Closes

\* Nobody can use a closed channel before the closer has given up the processor.
LEMMA UseInv ==
  ASSUME PInv, NEW c \in Chans, UseClosed(c)
  PROVE  PInv' /\ UNCHANGED <<schedVars, chanVars, altVars>>
<1>1. /\ UNCHANGED <<schedVars, chanVars, altVars, cspVars, open, users, closing, went>>
      /\ c \notin open
  BY DEF UseClosed, allVars
<1>2. pc = "proc" /\ ProxcTyped'
  <2>1. ProxcTyped
    BY DEF PInv
  <2>2. CASE \E k : Calls(k)
    BY <1>1, <2>1, <2>2, CallFacts DEF ProxcTyped
  <2>3. CASE pc = "proc" /\ UNCHANGED <<calls, setBacks>>
    BY <1>1, <2>1, <2>3 DEF ProxcTyped
  <2> QED BY <2>2, <2>3 DEF UseClosed
<1>3. Live /\ Closes /\ ProxcTyped
  BY <1>2 DEF PInv, Live
<1>4. curr_proc \in users[c]
  BY <1>1, <1>3 DEF UseClosed, Closes, Held, Linkers
<1>5. closing # "no" /\ closing # "hasty"
  BY <1>2, <1>3, <1>4 DEF Closes, Unhurried, Hurried, Leaving
<1>6. BrokenLate'
  BY <1>1, <1>3, <1>5 DEF BrokenLate, ProxcTyped
<1>7. Closes'
  <2>1. Held'
    BY <1>1, <1>3 DEF Closes, Held, Linkers, chanVars, altVars
  <2> QED BY <1>1, <1>3, <2>1 DEF Closes, Unhurried, Hurried, Leaving, schedVars
<1>8. AInv' /\ BuildInv' /\ InAlt' /\ Joined'
  BY <1>1, <1>2, CloseSide
<1> QED BY <1>1, <1>2, <1>6, <1>7, <1>8 DEF PInv

\* A step of channels or ALT that touches open channels only.
LEMMA ChannelInv ==
  ASSUME PInv, Live, AInv', Stirs, UNCHANGED <<cspVars, closeVars, went>>, ProxcTyped',
         \A p \in Proc : phase'[p] # "none" => phase[p] # "none" \/ (p = curr_proc /\ pc = "proc"),
         \A d \in Chans \ open : endQ'[d] = endQ[d] /\ Range(altQ'[d]) \subseteq Range(altQ[d])
  PROVE  PInv'
<1>1. BuildInv' /\ (Live' => InAlt')
  BY StirsAside
<1>2. Moves
  BY DEF Stirs, schedVars, Yield, Block, Waits, Readies, Moves, closeVars
<1>3. BrokenLate' /\ (Live' => Closes')
  <2>1. \A d \in Chans \ open : Linkers(d)' \subseteq Linkers(d)
    BY DEF Linkers
  <2> QED BY <1>2, <2>1, ClosesStay
<1>4. Joined'
  BY DEF PInv, Joined, cspVars
<1> QED BY <1>1, <1>3, <1>4 DEF PInv

\* Channel operations and ALT.
LEMMA ChannelSteps ==
  ASSUME OneTimer, PInv,
         ChanCall \/ AltCall \/ AltRest
           \/ (WakeGuard /\ UNCHANGED <<cspVars, proxcVars>>)
  PROVE  PInv' /\ [AwakeNext]_schedVars
<1>1. AInv /\ open \subseteq Chans /\ ProxcTyped
  BY DEF PInv, ProxcTyped
<1>2. ASSUME UNCHANGED proxcVars PROVE ProxcTyped' /\ UNCHANGED <<closeVars, went>>
  BY <1>1, <1>2 DEF proxcVars, closeVars, ProxcTyped
<1>3. CASE ChanCall
  <2>1. PICK c \in open : PlainChan(c) \/ \E v \in Data : WriteToAlt(c, v)
    BY <1>3 DEF ChanCall
  <2>2. c \in Chans /\ UNCHANGED <<cspVars, closeVars, went>> /\ ProxcTyped'
    BY <1>1, <1>3, CallFacts DEF ChanCall, ProxcTyped, closeVars
  <2>3. CASE PlainChan(c)
    <3>1. /\ Stirs /\ Live /\ AInv' /\ AwakeNext /\ UNCHANGED phase
          /\ \A d \in Chans : d # c => endQ'[d] = endQ[d] /\ altQ'[d] = altQ[d]
      BY <1>1, <2>2, <2>3, ChanActs
    <3>2. PInv'
      BY <2>1, <2>2, <3>1, ChannelInv
    <3> QED BY <3>1, <3>2
  <2>4. ASSUME NEW v \in Data, WriteToAlt(c, v) PROVE PInv' /\ [AwakeNext]_schedVars
    <3>1. Stirs /\ Live /\ AInv' /\ AwakeNext /\ UNCHANGED <<phase, endQ, altQ>>
      BY <1>1, <2>2, <2>4, WriteActs
    <3>2. PInv'
      BY <2>2, <3>1, ChannelInv
    <3> QED BY <3>1, <3>2
  <2> QED BY <2>1, <2>3, <2>4
<1>4. CASE AltCall
  <2>1. PICK l \in Menu[curr_proc] : (\A i \in DOMAIN l : l[i].chan \in open \cup {NULL}) /\ AltBegin(l)
    BY <1>4 DEF AltCall
  <2>2. UNCHANGED <<cspVars, closeVars, went>> /\ ProxcTyped' /\ pc = "proc"
    BY <1>1, <1>4, CallFacts DEF AltCall, ProxcTyped, closeVars
  <2>3. /\ Stirs /\ Live /\ AInv' /\ [AwakeNext]_schedVars
        /\ \A p \in Proc : p # curr_proc => phase'[p] = phase[p]
        /\ \A d \in Chans : (\A i \in DOMAIN l : l[i].chan # d) => endQ'[d] = endQ[d] /\ altQ'[d] = altQ[d]
    BY <1>1, <2>1, <2>2, BeginActs
  <2>4. \A d \in Chans \ open : \A i \in DOMAIN l : l[i].chan # d
    BY <2>1, ChanAssumption
  <2>5. PInv'
    BY <2>2, <2>3, <2>4, ChannelInv
  <2> QED BY <2>3, <2>5
<1>5. CASE AltRest
  <2>1. /\ Stirs /\ Live /\ AInv' /\ [AwakeNext]_schedVars
        /\ \A p \in Proc : p # curr_proc => phase'[p] = phase[p]
        /\ pc = "proc" /\ UNCHANGED endQ
        /\ \A d \in Chans : Range(altQ'[d]) \subseteq Range(altQ[d])
    BY <1>1, <1>5, GoesOnActs DEF AltRest
  <2>2. UNCHANGED <<cspVars, closeVars, went>> /\ ProxcTyped'
    BY <1>2, <1>5 DEF AltRest
  <2>3. PInv'
    BY <2>1, <2>2, ChannelInv
  <2> QED BY <2>1, <2>3
<1>6. CASE WakeGuard /\ UNCHANGED <<cspVars, proxcVars>>
  <2>1. Stirs /\ Live /\ AInv' /\ [AwakeNext]_schedVars /\ UNCHANGED <<phase, endQ, altQ>>
    BY <1>1, <1>6, TimeoutActs
  <2>2. PInv'
    BY <1>2, <1>6, <2>1, ChannelInv
  <2> QED BY <2>1, <2>2
<1> QED BY <1>3, <1>4, <1>5, <1>6

\* Sleeping, waking up and the clock leave channels, ALTs and trees alone.
LEMMA TimeInv ==
  ASSUME RoomToSleep, PInv,
         SleepCall \/ ProxcTick \/ (\E t \in 0..MaxTime : SetBack(t))
           \/ (\E p \in Proc : WakeProc(p) /\ UNCHANGED <<chanVars, altVars, cspVars, proxcVars>>)
  PROVE  PInv' /\ (Live /\ clock' >= clock => [SchedNext]_schedVars)
<1>1. UNCHANGED <<chanVars, altVars, cspVars, closeVars, went>>
  BY DEF SleepCall, ProxcTick, SetBack, proxcVars
<1>2. ProxcTyped'
  <2>1. CASE SleepCall
    BY <1>1, <2>1, CallFacts DEF SleepCall, PInv, ProxcTyped, closeVars
  <2>2. CASE \E t \in 0..MaxTime : SetBack(t)
    BY <1>1, <2>2 DEF SetBack, PInv, ProxcTyped, closeVars
  <2>3. CASE UNCHANGED proxcVars
    BY <2>3 DEF proxcVars, PInv, ProxcTyped, closeVars
  <2> QED BY <2>1, <2>2, <2>3 DEF ProxcTick
<1>3. (Live' => Live) => BrokenLate' /\ (Live' => Joined' /\ Closes')
  <2>1. Moves
    BY <1>1 DEF SleepCall, Yield, Sleep, ProxcTick, Tick, SetBack, WakeProc, Moves, closeVars
  <2>2. (Live' => Live) => (Live' => Joined')
    BY <1>1 DEF PInv, Joined, cspVars
  <2> QED BY <1>1, <2>1, <2>2, ClosesStay DEF Linkers, chanVars, altVars
<1>4. CASE SleepCall /\ Yield
  <2>1. [CspNext]_<<schedVars, cspVars>> /\ UNCHANGED <<chanVars, altVars>> /\ (End => InUserCode)
    BY <1>1, <1>4, CallFacts, BuilderSteps DEF SleepCall
  <2>2. AInv' /\ BuildInv' /\ (Live' => Live /\ InAlt') /\ (Live => [SchedNext]_schedVars)
    BY <2>1, BuilderSide
  <2> QED BY <1>2, <1>3, <2>2 DEF PInv
<1>5. ASSUME NEW u \in Delay, Sleep(u) PROVE PInv' /\ [SchedNext]_schedVars
  <2>1. AInv' /\ BuildInv' /\ Live /\ (Live' => InAlt') /\ SchedNext
    BY <1>1, <1>5, SleepSide
  <2> QED BY <1>2, <1>3, <2>1 DEF PInv
<1>6. CASE ProxcTick \/ \E t \in 0..MaxTime : SetBack(t)
  <2>1. AInv' /\ BuildInv' /\ (Live' => Live /\ InAlt') /\ (clock' >= clock => SchedNext)
    BY <1>6, ClockSide
  <2> QED BY <1>2, <1>3, <2>1 DEF PInv
<1>7. ASSUME NEW p \in Proc, WakeProc(p) PROVE PInv' /\ [SchedNext]_schedVars
  <2>1. AInv' /\ BuildInv' /\ Live /\ (Live' => InAlt') /\ SchedNext
    BY <1>1, <1>7, WakeSide
  <2> QED BY <1>2, <1>3, <2>1 DEF PInv
<1> QED BY <1>4, <1>5, <1>6, <1>7 DEF SleepCall

\* Every step keeps the invariant and, unless it sets the clock back, is one
\* that the scheduler allows.
LEMMA ProxcStep ==
  ASSUME OneTimer, RoomToSleep, PInv, [ProxcNext]_progVars
  PROVE  PInv' /\ (Live /\ clock' >= clock => [SchedNext]_schedVars)
<1>1. ASSUME NEW c \in Chans, CHOPEN(c) \/ CHCLOSE(c) \/ UseClosed(c)
      PROVE  PInv' /\ [SchedNext]_schedVars
  BY <1>1, OpenInv, CloseInv, UseInv
<1>2. CASE ChanCall \/ AltCall \/ AltRest
             \/ (WakeGuard /\ UNCHANGED <<cspVars, proxcVars>>)
  BY <1>2, ChannelSteps, SleepOrAwake
<1>3. CASE BuildCall \/ GoCall \/ LastCall \/ ProxcCheckQs \/ ProxcFree \/ ProxcOther \/ ProxcEnd
             \/ (AltWakeDone /\ UNCHANGED <<cspVars, proxcVars>>) \/ UNCHANGED progVars
  BY <1>3, BuilderInv
<1>4. CASE SleepCall \/ ProxcTick \/ (\E t \in 0..MaxTime : SetBack(t))
             \/ (\E p \in Proc : WakeProc(p) /\ UNCHANGED <<chanVars, altVars, cspVars, proxcVars>>)
  BY <1>4, TimeInv
<1>5. CASE ProxcWakeup
  <2>1. \/ WakeGuard /\ UNCHANGED <<cspVars, proxcVars>>
        \/ AltWakeDone /\ UNCHANGED <<cspVars, proxcVars>>
        \/ \E p \in Proc : WakeProc(p) /\ UNCHANGED <<chanVars, altVars, cspVars, proxcVars>>
    BY <1>5 DEF ProxcWakeup
  <2> QED BY <1>2, <1>3, <1>4, <2>1
<1> QED BY <1>1, <1>2, <1>3, <1>4, <1>5 DEF ProxcNext, ProgramStep

\* A program starts without channels and builders.
LEMMA ProxcStart == ProxcInit => PInv
<1> SUFFICES ASSUME ProxcInit PROVE PInv
  OBVIOUS
<1>1. AInv /\ BuildInv
  BY AltStart, CspStart DEF ProxcInit
<1>2. ProxcTyped
  BY DEF ProxcInit, ProxcTyped
<1>3. InAlt /\ Joined /\ BrokenLate
  BY DEF ProxcInit, AltInit, CspInit, InAlt, Joined, BrokenLate
<1>4. Closes
  <2>1. \A c \in Chans : Range(endQ[c]) = {} /\ Range(altQ[c]) = {}
    BY DEF ProxcInit, ChanInit, AltInit, Range
  <2>2. Held
    BY <2>1 DEF Held, Linkers
  <2> QED BY <2>2 DEF ProxcInit, SchedInit, Closes, Unhurried, Hurried, Leaving
<1> QED BY <1>1, <1>2, <1>3, <1>4 DEF PInv

-----------------------------------------------------------------------------
(* The theorems *)

\* What the invariant says of a PROC that is freed.
LEMMA Unlinked == PInv => FreedUnlinked
<1> SUFFICES ASSUME PInv, Live, NEW p \in Proc, state[p] = "FREE" \/ p = freeing
             PROVE  /\ p \notin Range(readyQ) \cup sleepRB \cup RB!Linked(altsleep)
                    /\ \A c \in Chans : /\ p \notin {e.proc : e \in Range(endQ[c])}
                                        /\ p \notin Range(altQ[c])
                    /\ \A b \in Roots : run_proc[b] # p
  BY DEF FreedUnlinked
<1>1. AInv /\ CInv /\ WaitsQueued /\ Linked /\ OneLeaf /\ Steady /\ Joins /\ InAlt
  BY DEF PInv, AInv, CInv, BuildInv, Active
<1>2. state[p] \in {"FREE", "ENDED"}
  BY <1>1, SchedAssumption DEF Steady, Where, Live
<1>3. p \notin Range(totalQ)
  BY <1>1, SchedAssumption DEF Steady, Queues, TotalQSound, Where, Live
<1>4. p \notin Range(readyQ) \cup sleepRB
  BY <1>1, <1>3 DEF Steady, Queues, ReadyQSound, SleepRBSound
<1>5. phase[p] = "none"
  BY <1>1, <1>2 DEF InAlt
<1>6. p \notin RB!Linked(altsleep)
  BY <1>1, <1>5, LoneLinked DEF OneLeaf
<1>7. \A c \in Chans : p \notin {e.proc : e \in Range(endQ[c])}
  BY <1>1, <1>2 DEF WaitsQueued, Queued
<1>8. ASSUME NEW c \in Chans PROVE p \notin Range(altQ[c])
  <2>1. altQ[c] \in Seq(Proc)
    BY DEF PInv, AInv, Typed
  <2>2. Places(altQ[c], p) = {}
    <3> DEFINE P == Places(altQ[c], p)
    <3>1. Cardinality(P) = 0
      BY <1>1, <1>5 DEF Linked
    <3>2. IsFiniteSet(P)
      <4>1. P \subseteq 1..Len(altQ[c]) /\ Len(altQ[c]) \in Nat
        BY <2>1 DEF Places
      <4>2. PICK n \in Nat : n = Len(altQ[c])
        BY <4>1
      <4>3. IsFiniteSet(1..n)
        BY FS_Interval
      <4> QED BY <4>1, <4>2, <4>3, FS_Subset
    <3> HIDE DEF P
    <3>3. P = {}
      BY <3>1, <3>2, FS_EmptySet
    <3> QED BY <3>3 DEF P
  <2> QED BY <2>1, <2>2 DEF Places, Range
<1>9. \A b \in Roots : run_proc[b] # p
  BY <1>1, <1>2 DEF Joins, Roots
<1> QED BY <1>4, <1>6, <1>7, <1>8, <1>9

\* The invariant of programs, whatever calls the PROCs make.
LEMMA ProxcAlways ==
  ASSUME OneTimer, RoomToSleep
  PROVE  ProxcSpec => []PInv
<1>1. ProxcInit => PInv
  BY ProxcStart
<1>2. PInv /\ [ProxcNext]_progVars => PInv'
  BY ProxcStep
<1> QED BY <1>1, <1>2, PTL DEF ProxcSpec

\* A PROC that is freed is linked nowhere, whatever channels, ALTs, timers and
\* trees it has been through: proc_free leaves no pointer to it in readyQ, in a
\* timer tree, in the queues of a channel or in a builder.
THEOREM FreedEverywhere ==
  ASSUME OneTimer, RoomToSleep
  PROVE  ProxcSpec => []FreedUnlinked
<1>1. ProxcSpec => []PInv
  BY ProxcAlways
<1>2. PInv => FreedUnlinked
  BY Unlinked
<1> QED BY <1>1, <1>2, PTL

\* CHCLOSE may be called by any PROC at any time, and looks at nothing.  A closed
\* channel stays empty when only the main PROC closes and nobody uses GO: RUN has
\* joined all of the channel's users, however deeply RUNs, PARs and SEQs are nested.
\* And nobody, ready or waiting in ALT, touches a closed channel when every PROC that
\* closes one while others are left goes on to end the program: scheduler_run
\* resumes none of them after the main PROC has ended or somebody has called EXIT.
THEOREM ClosedStaysUnused ==
  ASSUME OneTimer, RoomToSleep
  PROVE  ProxcSpec => []ClosedUnused
<1>1. ProxcSpec => []PInv
  BY ProxcAlways
<1>2. PInv => ClosedUnused
  <2> SUFFICES ASSUME PInv PROVE ClosedUnused
    OBVIOUS
  <2>1. ASSUME Live, closing = "no", NEW c \in Chans \ open PROVE endQ[c] = <<>> /\ altQ[c] = <<>>
    <3>1. Linkers(c) = {}
      BY <2>1 DEF PInv, Closes, Held, Unhurried
    <3> QED BY <3>1, NoLinkers DEF PInv
  <2> QED BY <2>1 DEF PInv, BrokenLate, ClosedUnused
<1> QED BY <1>1, <1>2, PTL

\* Channels, ALT, builders and timers keep to the scheduler's contract when one
\* program uses them all, and the clock may be set back at any time: the queues
\* of the scheduler partition the PROCs, those of the channels and the ALTs are
\* sound, RUN returns when its tree is complete, and PAR and SEQ start what is due.
THEOREM ProgramsKeepScheduler ==
  ASSUME OneTimer, RoomToSleep
  PROVE  ProxcSpec => /\ ProxcKeepsScheduler
                      /\ [](Placement /\ EndQSound /\ AltQSound /\ JoinsItsTree /\ StartsWhatIsDue)
<1>1. ProxcSpec => []PInv
  BY ProxcAlways
<1>2. PInv /\ [ProxcNext]_progVars => [Live /\ clock' >= clock => SchedNext]_schedVars
  BY ProxcStep
<1>3. PInv => Placement /\ EndQSound /\ AltQSound /\ JoinsItsTree /\ StartsWhatIsDue
  <2> SUFFICES ASSUME PInv PROVE Placement /\ EndQSound /\ AltQSound /\ JoinsItsTree /\ StartsWhatIsDue
    OBVIOUS
  <2>1. Placement
    BY DEF PInv, BuildInv, Active, Steady, Queues, Placement
  <2>2. EndQSound
    BY SoundQueues DEF PInv, AInv
  <2>3. AltQSound
    BY DEF PInv, AInv, Linked, AltQSound, Places, GuardsOn, OnChannel
  <2>4. JoinsItsTree /\ StartsWhatIsDue
    BY JoinsRight, StartsRight DEF PInv
  <2> QED BY <2>1, <2>2, <2>3, <2>4
<1>4. ProxcSpec => ProxcKeepsScheduler
  BY <1>1, <1>2, PTL DEF ProxcSpec, ProxcKeepsScheduler
<1>5. ProxcSpec => [](Placement /\ EndQSound /\ AltQSound /\ JoinsItsTree /\ StartsWhatIsDue)
  BY <1>1, <1>3, PTL
<1> QED BY <1>4, <1>5

-----------------------------------------------------------------------------
(* Deadlocks *)

\* A writer waits on a channel only when every ALT that waits there has been
\* accepted.
Met == \A c \in Chans : FirstIs(c, "CHAN_WRITER") => \A p \in Range(altQ[c]) : is_accepted[p]

\* An ALT that waits has channel and time guards only, and one timer if it has
\* time guards.
WaitGuards ==
  \A p \in Proc : phase[p] = "wait" =>
    \A i \in DOMAIN guards[p] :
      /\ guards[p][i].type \in {"TIME", "CHAN"}
      /\ guards[p][i].type = "CHAN" => guards[p][i].chan \in Chans
      /\ guards[p][i].type = "TIME" => TimeGuard(guards[p]) # 0

\* Of the time guards the earliest is kept and not freed.
LEMMA EarliestKept ==
  ASSUME NEW p \in Proc, NEW l \in Menu[p], NEW m \in DOMAIN alt_addguards(l),
         IsTime(alt_addguards(l)[m])
  PROVE  TimeGuard(alt_addguards(l)) # 0
<1> DEFINE gs == alt_addguards(l)
           K == {i \in 1..Len(l) : Keeps(l, i)}
           id == [i \in 1..Len(l) |-> i]
           Times == {i \in 1..Len(l) : IsTime(l[i])}
<1>1. l \in Seq(GuardSpec) /\ Len(l) \in Nat /\ \A i \in 1..Len(l) : l[i].usec \in Nat
  <2>1. l \in Seq(GuardSpec)
    BY AltAssumption
  <2>2. \A g \in GuardSpec : g.usec \in Nat
    BY DEF GuardSpec
  <2>3. Len(l) \in Nat /\ \A i \in 1..Len(l) : l[i] \in GuardSpec
    BY <2>1
  <2> QED BY <2>1, <2>2, <2>3
<1>2. Kept(l) \in Seq(K)
  BY <1>1, KeptOnes
<1>3. DOMAIN gs = 1..Len(Kept(l))
  BY DEF alt_addguards
<1>4. \A n \in 1..Len(Kept(l)) : /\ gs[n].type = l[Kept(l)[n]].type
                                 /\ gs[n].freed <=> Freed(l, Kept(l)[n])
  BY DEF alt_addguards
<1>5. Kept(l)[m] \in Times
  BY <1>2, <1>3, <1>4 DEF IsTime
<1>6. PICK a \in Times : \A b \in Times : l[a].usec <= l[b].usec
  <2> DEFINE U == {l[i].usec : i \in Times}
  <2>1. U \in SUBSET Nat /\ U # {}
    BY <1>1, <1>5
  <2>2. PICK u \in U : \A v \in U : u <= v
    <3> HIDE DEF U
    <3> QED BY <2>1, NatMin
  <2> QED BY <2>2
<1>7. PICK k \in Times : /\ l[k].usec = l[a].usec
                         /\ \A b \in Times : l[b].usec = l[a].usec => k <= b
  <2> DEFINE E == {i \in Times : l[i].usec = l[a].usec}
  <2>1. E \in SUBSET Nat /\ E # {}
    BY <1>6
  <2>2. PICK k \in E : \A b \in E : k <= b
    <3> HIDE DEF E
    <3> QED BY <2>1, NatMin
  <2> QED BY <2>2
<1>8. Keeps(l, k)
  <2>1. ASSUME NEW j \in 1..k - 1, IsTime(l[j]) PROVE l[k].usec < l[j].usec
    <3>1. j \in Times /\ ~(k <= j)
      BY <1>1, <2>1
    <3>2. l[k].usec <= l[j].usec /\ l[j].usec # l[k].usec
      BY <1>6, <1>7, <3>1
    <3>3. l[k].usec \in Nat /\ l[j].usec \in Nat
      BY <1>1, <3>1
    <3> QED BY <3>2, <3>3
  <2> QED BY <2>1 DEF Keeps, IsTime
<1>9. ~Freed(l, k)
  <2>1. ASSUME NEW j \in k + 1..Len(l), IsTime(l[j]) PROVE ~(l[j].usec < l[k].usec)
    <3>1. j \in Times
      BY <1>1, <2>1
    <3> QED BY <1>1, <1>6, <1>7, <3>1
  <2> QED BY <2>1 DEF Freed
<1>10. PICK n \in 1..Len(Kept(l)) : Kept(l)[n] = k
  <2>1. id \in Seq(1..Len(l)) /\ DOMAIN id = 1..Len(l)
    BY <1>1
  <2>2. Cardinality(Places(Subqueue(id, K), k)) = Cardinality(PlacesIn(id, K, k))
    BY <2>1, SubqueueFacts
  <2>3. PlacesIn(id, K, k) = {k}
    BY <1>8 DEF PlacesIn
  <2>4. Cardinality(Places(Kept(l), k)) = 1
    BY <2>2, <2>3, FS_Singleton DEF Kept
  <2>5. Cardinality({}) = 0
    BY FS_EmptySet
  <2>6. ASSUME Places(Kept(l), k) = {} PROVE FALSE
    BY <2>4, <2>5, <2>6
  <2> QED BY <1>2, <2>6 DEF Places
<1> DEFINE T == {i \in DOMAIN gs : IsTime(gs[i]) /\ ~gs[i].freed}
<1>11. n \in T
  BY <1>3, <1>4, <1>7, <1>9, <1>10 DEF IsTime
<1>12. TimeGuard(gs) = CHOOSE i \in T : TRUE
  BY <1>11 DEF TimeGuard
<1>13. TimeGuard(gs) \in T
  BY <1>11, <1>12
<1> QED BY <1>3, <1>13

\* A queue that only lost ends has a writer at its head only if it had one.
LEMMA HeadStays ==
  ASSUME CInv, NEW c \in Chans, endQ'[c] \in Seq(ChanEnd), Range(endQ'[c]) \subseteq Range(endQ[c]),
         FirstIs(c, "CHAN_WRITER")'
  PROVE  FirstIs(c, "CHAN_WRITER")
<1>1. endQ[c] \in Seq(ChanEnd) /\ OneType
  BY DEF CInv, ChanTypeOK
<1>2. endQ'[c] # <<>> /\ Head(endQ'[c]).type = "CHAN_WRITER"
  BY DEF FirstIs
<1>3. Head(endQ'[c]) \in Range(endQ[c])
  BY <1>2, HeadTailFacts
<1>4. endQ[c] # <<>>
  BY <1>3 DEF Range
<1>5. Head(endQ[c]) \in Range(endQ[c])
  BY <1>1, <1>4, HeadTailFacts
<1> QED BY <1>1, <1>2, <1>3, <1>4, <1>5 DEF FirstIs, OneType

\* Met is about writers that come to a channel, and ALTs that come to it.
LEMMA MetStays ==
  ASSUME Met,
         \A c \in Chans : FirstIs(c, "CHAN_WRITER")' =>
           /\ FirstIs(c, "CHAN_WRITER")
           /\ \A p \in Range(altQ'[c]) : p \in Range(altQ[c]) /\ (is_accepted[p] => is_accepted'[p])
  PROVE  Met'
  BY DEF Met

\* Taking the end at the head of c brings no writer to a head.
LEMMA DequeueMet ==
  ASSUME CInv, Live, NEW c \in Chans, endQ[c] # <<>>, Dequeue(c), NEW d \in Chans,
         FirstIs(d, "CHAN_WRITER")'
  PROVE  FirstIs(d, "CHAN_WRITER")
<1>1. /\ endQ' \in [Chans -> Seq(ChanEnd)]
      /\ \A b \in Chans : Range(endQ'[b]) = IF b = c THEN Range(endQ[c]) \ {Head(endQ[c])}
                                                     ELSE Range(endQ[b])
  BY DequeueFacts
<1>2. endQ'[d] \in Seq(ChanEnd) /\ Range(endQ'[d]) \subseteq Range(endQ[d])
  BY <1>1
<1> QED BY <1>2, HeadStays

\* A channel operation of a PROC that meets no ALT.
LEMMA ChanMet ==
  ASSUME OneAltPerChan, AInv, Met, NEW c \in Chans, PlainChan(c)
  PROVE  Met'
<1>1. /\ CInv /\ Live /\ pc = "proc" /\ UNCHANGED altVars
      /\ endQ \in [Chans -> Seq(ChanEnd)] /\ endQ[c] \in Seq(ChanEnd)
      /\ altQ[c] \in Seq(Proc) /\ curr_proc \in Proc
  BY RunningOne DEF PlainChan, InUserCode, Live, AInv, CInv, ChanTypeOK, Typed
<1>2. ASSUME \A d \in Chans : FirstIs(d, "CHAN_WRITER")' => FirstIs(d, "CHAN_WRITER") PROVE Met'
  BY <1>1, <1>2, MetStays DEF altVars
<1>3. ASSUME endQ[c] # <<>>, Dequeue(c) PROVE Met'
  BY <1>1, <1>2, <1>3, DequeueMet
<1>4. ASSUME NEW v \in Data, WriteEnqueue(c, v), ~AltAccepts(c) PROVE Met'
  <2>1. ASSUME NEW p \in Range(altQ[c]) PROVE is_accepted[p]
    <3>1. altQ[c] # <<>> /\ Range(altQ[c]) \subseteq Proc
      BY <1>1, <2>1 DEF Range
    <3>2. Head(altQ[c]) \in Range(altQ[c])
      BY <1>1, <3>1, HeadTailFacts
    <3>3. \A q \in Range(altQ[c]) : HasChan(q, c)
      BY <3>1, InAltQ DEF AInv, FromMenu
    <3>4. p = Head(altQ[c])
      BY <2>1, <3>1, <3>2, <3>3 DEF OneAltPerChan
    <3> QED BY <1>4, <3>1, <3>4 DEF AltAccepts, CanAccept
  <2>2. \A d \in Chans : d # c => endQ'[d] = endQ[d]
    BY <1>1, <1>4 DEF WriteEnqueue
  <2> QED BY <1>1, <2>1, <2>2 DEF Met, FirstIs, altVars
<1>5. CASE ReadEnqueue(c)
  <2> DEFINE e == [type |-> "CHAN_READER", proc |-> curr_proc]
  <2>1. endQ' = [endQ EXCEPT ![c] = Append(@, e)] /\ ~FirstIs(c, "CHAN_WRITER") /\ e \in ChanEnd
    BY <1>1, <1>5 DEF ReadEnqueue, ChanEnd
  <2>2. endQ'[c] = Append(endQ[c], e) /\ \A d \in Chans : d # c => endQ'[d] = endQ[d]
    BY <1>1, <2>1
  <2>3. Append(endQ[c], e) = endQ[c] \o <<e>> /\ endQ[c] \o <<e>> \in Seq(ChanEnd)
        /\ Range(endQ[c] \o <<e>>) = Range(endQ[c]) \cup {e}
    BY <1>1, <2>1, PushFacts
  <2>4. endQ'[c] \in Seq(ChanEnd) /\ Range(endQ'[c]) = Range(endQ[c]) \cup {e}
    BY <2>2, <2>3
  <2>5. \A f \in Range(endQ'[c]) : f.type # "CHAN_WRITER"
    BY <1>1, <2>1, <2>4, HeadTells
  <2>6. ~FirstIs(c, "CHAN_WRITER")'
    BY <2>4, <2>5, HeadTailFacts DEF FirstIs
  <2> QED BY <1>2, <2>2, <2>6 DEF FirstIs
<1>6. CASE \E v \in Data : WriteToReader(c, v)
  BY <1>3, <1>6 DEF WriteToReader, FirstIs
<1>7. CASE ReadFromWriter(c)
  BY <1>3, <1>7 DEF ReadFromWriter, TakeFromWriter, FirstIs
<1> QED BY <1>4, <1>5, <1>6, <1>7 DEF PlainChan

\* The running PROC is linked in altQ of no channel, unless it is in ALT.
LEMMA RunningUnlinked ==
  ASSUME AInv, NEW c \in Chans, NEW p \in Range(altQ[c])
  PROVE  p \in Proc /\ phase[p] = "wait"
<1>1. p \in Proc
  BY DEF AInv, Typed, Range
<1> QED BY <1>1, InAltQ

\* alt_select waits where no writer waits, and keeps its earliest time guard.
LEMMA AltWaitMet ==
  ASSUME AInv, Met, WaitGuards, pc = "proc", NEW l \in Menu[curr_proc], AltWait(l)
  PROVE  Met' /\ WaitGuards'
<1> DEFINE gs == alt_addguards(l)
<1>1. /\ curr_proc \in Proc /\ clock \in 0..MaxTime /\ phase[curr_proc] = "none"
      /\ is_accepted \in [Proc -> BOOLEAN] /\ altQ \in [Chans -> Seq(Proc)]
      /\ phase \in [Proc -> Phase] /\ guards \in [Proc -> Seq(Guard)]
  BY RunningOne DEF AInv, Typed, AltWait, InUserCode
<1>2. /\ gs \in Seq(Guard)
      /\ \A i \in DOMAIN gs : /\ gs[i].type = "CHAN" <=> gs[i].chan \in Chans
                              /\ gs[i].in_chan <=> gs[i].type = "CHAN" /\ ~FirstIs(gs[i].chan, "CHAN_WRITER")
  BY <1>1, GuardsBuilt
<1>3. /\ UNCHANGED endQ /\ altQ' = EnabledAltQ(gs) /\ ReadyGuards(gs) = {}
      /\ is_accepted' = [is_accepted EXCEPT ![curr_proc] = FALSE]
      /\ phase' = [phase EXCEPT ![curr_proc] = "wait"]
      /\ guards' = [guards EXCEPT ![curr_proc] = gs]
  BY DEF AltWait, chanVars
<1>4. \A i \in DOMAIN gs : gs[i].type = "TIME" => TimeGuard(gs) # 0
  BY <1>1, EarliestKept DEF IsTime
<1> HIDE DEF gs
<1>5. ASSUME NEW d \in Chans, FirstIs(d, "CHAN_WRITER")
      PROVE  \A p \in Range(altQ'[d]) : p \in Range(altQ[d]) /\ (is_accepted[p] => is_accepted'[p])
  <2> DEFINE G == {j \in DOMAIN gs : gs[j].in_chan /\ gs[j].chan = d}
  <2>1. G = {}
    BY <1>2, <1>5
  <2>2. altQ'[d] = altQ[d] \o [i \in 1..Cardinality(G) |-> curr_proc]
    BY <1>3 DEF EnabledAltQ
  <2>3. Cardinality(G) = 0
    BY <2>1, FS_EmptySet
  <2> HIDE DEF G
  <2>4. [i \in 1..Cardinality(G) |-> curr_proc] = <<>>
    BY <2>3
  <2>5. altQ[d] \in Seq(Proc)
    BY <1>1
  <2>6. altQ'[d] = altQ[d]
    BY <2>2, <2>4, <2>5, ConcatEmptySeq
  <2>7. \A p \in Range(altQ[d]) : p \in Proc /\ p # curr_proc
    BY <1>1, RunningUnlinked
  <2> QED BY <1>1, <1>3, <2>6, <2>7
<1>6. Met'
  BY <1>3, <1>5, MetStays DEF FirstIs
<1>7. WaitGuards'
  <2>1. \A i \in DOMAIN gs : gs[i].type \in {"TIME", "CHAN"}
    <3>1. \A g \in Guard : g.type \in {"SKIP", "TIME", "CHAN"}
      BY DEF Guard
    <3>2. \A i \in DOMAIN gs : gs[i] \in Guard
      BY <1>2
    <3>3. \A i \in DOMAIN gs : gs[i].type # "SKIP"
      BY <1>3 DEF ReadyGuards
    <3> QED BY <3>1, <3>2, <3>3
  <2>2. guards'[curr_proc] = gs /\ \A p \in Proc : p # curr_proc => guards'[p] = guards[p] /\ phase'[p] = phase[p]
    BY <1>1, <1>3
  <2> SUFFICES ASSUME NEW p \in Proc, phase'[p] = "wait", NEW i \in DOMAIN guards'[p]
               PROVE  /\ guards'[p][i].type \in {"TIME", "CHAN"}
                      /\ guards'[p][i].type = "CHAN" => guards'[p][i].chan \in Chans
                      /\ guards'[p][i].type = "TIME" => TimeGuard(guards'[p]) # 0
    BY DEF WaitGuards
  <2>3. CASE p = curr_proc
    BY <1>2, <1>4, <2>1, <2>2, <2>3
  <2>4. CASE p # curr_proc
    BY <2>2, <2>4 DEF WaitGuards
  <2> QED BY <2>3, <2>4
<1> QED BY <1>6, <1>7

\* The other steps of ALT: nobody is linked, and who is unlinked does not wait.
LEMMA AltMet ==
  ASSUME AInv, Met, pc = "proc",
         AltGoesOn \/ \E l \in Menu[curr_proc] : \E w \in DOMAIN l : AltChoose(l, w)
  PROVE  Met'
<1>1. /\ curr_proc \in Proc /\ CInv /\ Live /\ is_accepted \in [Proc -> BOOLEAN]
      /\ altQ \in [Chans -> Seq(Proc)] /\ clock \in 0..MaxTime
  BY RunningOne DEF AInv, Typed
<1>2. ASSUME phase[curr_proc] # "wait", UNCHANGED altQ,
             \A p \in Proc : p # curr_proc => is_accepted'[p] = is_accepted[p],
             \A c \in Chans : FirstIs(c, "CHAN_WRITER")' => FirstIs(c, "CHAN_WRITER")
      PROVE  Met'
  BY <1>2, RunningUnlinked, MetStays
<1>3. CASE AltYield
  BY <1>2, <1>3 DEF AltYield, FirstIs, chanVars
<1>4. CASE AltReturn
  BY <1>1, <1>2, <1>4 DEF AltReturn, Cleanup, FirstIs, chanVars
<1>5. CASE AltResume
  <2>1. /\ UNCHANGED endQ /\ altQ' = DisabledAltQ
        /\ is_accepted' = [is_accepted EXCEPT ![curr_proc] = FALSE]
    BY <1>5 DEF AltResume, Cleanup, chanVars
  <2>2. ASSUME NEW c \in Chans, NEW p \in Range(altQ'[c])
        PROVE  p \in Range(altQ[c]) /\ p \in Proc /\ p # curr_proc
    <3> DEFINE q == altQ[c]
               K == {i \in DOMAIN q : q[i] # curr_proc}
    <3>1. altQ'[c] = Subqueue(q, K) /\ q \in Seq(Proc)
      BY <1>1, <2>1 DEF DisabledAltQ, Without
    <3>2. Subqueue(q, K) \in Seq({q[i] : i \in K \cap DOMAIN q})
      BY <3>1, SubqueueFacts
    <3>3. p \in {q[i] : i \in K \cap DOMAIN q}
      BY <2>2, <3>1, <3>2 DEF Range
    <3> QED BY <3>1, <3>3 DEF Range
  <2> QED BY <1>1, <2>1, <2>2, MetStays DEF FirstIs
<1>6. ASSUME NEW l \in Menu[curr_proc], NEW w \in DOMAIN l, AltChoose(l, w) PROVE Met'
  <2> DEFINE gs == alt_addguards(l)
  <2>1. /\ phase[curr_proc] = "none" /\ UNCHANGED altQ /\ w \in ReadyGuards(gs)
        /\ is_accepted' = [is_accepted EXCEPT ![curr_proc] = FALSE]
        /\ IF gs[w].type = "CHAN" THEN TakeFromWriter(gs[w].chan) ELSE UNCHANGED <<schedVars, chanVars>>
    BY <1>6 DEF AltChoose, InUserCode
  <2>2. w \in DOMAIN gs /\ (gs[w].type = "CHAN" => ~gs[w].in_chan)
    BY <2>1 DEF ReadyGuards
  <2>3. CASE gs[w].type # "CHAN"
    BY <1>1, <1>2, <2>1, <2>3 DEF FirstIs, chanVars
  <2>4. CASE gs[w].type = "CHAN"
    <3>1. gs[w].chan \in Chans /\ FirstIs(gs[w].chan, "CHAN_WRITER")
      BY <1>1, <2>2, <2>4, GuardsBuilt
    <3> HIDE DEF gs
    <3>2. endQ[gs[w].chan] # <<>> /\ Dequeue(gs[w].chan)
      BY <2>1, <2>4, <3>1 DEF TakeFromWriter, FirstIs
    <3>3. \A c \in Chans : FirstIs(c, "CHAN_WRITER")' => FirstIs(c, "CHAN_WRITER")
      BY <1>1, <3>1, <3>2, DequeueMet
    <3> QED BY <1>1, <1>2, <2>1, <3>3
  <2> QED BY <2>3, <2>4
<1> QED BY <1>3, <1>4, <1>5, <1>6 DEF AltGoesOn

\* Steps that begin no wait in ALT leave the guards of the waiting ones alone.
LEMMA GuardsStay ==
  ASSUME AInv, WaitGuards,
         \A p \in Proc : phase'[p] = "wait" => phase[p] = "wait" /\ guards'[p] = guards[p]
  PROVE  WaitGuards'
  BY DEF WaitGuards

\* Every step keeps writers and ALTs from missing each other.
LEMMA MetStep ==
  ASSUME OneTimer, OneAltPerChan, PInv, Met, WaitGuards, [ProxcNext]_progVars
  PROVE  Met' /\ WaitGuards'
<1>1. /\ AInv /\ open \subseteq Chans /\ phase \in [Proc -> Phase] /\ guards \in [Proc -> Seq(Guard)]
      /\ is_accepted \in [Proc -> BOOLEAN]
  BY DEF PInv, ProxcTyped, AInv, Typed
<1>2. ASSUME UNCHANGED <<chanVars, altVars>> PROVE Met' /\ WaitGuards'
  BY <1>2 DEF Met, WaitGuards, FirstIs, chanVars, altVars
<1>3. ASSUME NEW c \in Chans, CHOPEN(c) \/ CHCLOSE(c) \/ UseClosed(c) PROVE Met' /\ WaitGuards'
  BY <1>2, <1>3, OpenInv, CloseInv, UseInv
<1>4. ASSUME NEW p \in Proc, UNCHANGED <<endQ, altQ, phase, guards>>,
             is_accepted' = is_accepted \/ is_accepted' = [is_accepted EXCEPT ![p] = TRUE]
      PROVE  Met' /\ WaitGuards'
  <2>1. \A q \in Proc : is_accepted[q] => is_accepted'[q]
    BY <1>1, <1>4
  <2>2. Met'
    BY <1>1, <1>4, <2>1, RunningUnlinked, MetStays DEF FirstIs
  <2>3. WaitGuards'
    BY <1>1, <1>4, GuardsStay
  <2> QED BY <2>2, <2>3
<1>5. CASE ChanCall
  <2>1. PICK c \in Chans : PlainChan(c) \/ \E v \in Data : WriteToAlt(c, v)
    BY <1>1, <1>5 DEF ChanCall
  <2>2. CASE PlainChan(c)
    <3>1. WaitGuards'
      BY <1>1, <2>2, GuardsStay DEF PlainChan, altVars
    <3> QED BY <1>1, <2>2, <3>1, ChanMet
  <2>3. ASSUME NEW v \in Data, WriteToAlt(c, v) PROVE Met' /\ WaitGuards'
    <3>1. Head(altQ[c]) \in Proc
      BY <1>1, <2>3, LinkedWaits DEF WriteToAlt, AltAccepts
    <3> QED BY <1>4, <2>3, <3>1 DEF WriteToAlt, alt_accept
  <2> QED BY <2>1, <2>2, <2>3
<1>6. ASSUME pc = "proc",
             AltGoesOn \/ \E l \in Menu[curr_proc] : \E w \in DOMAIN l : AltChoose(l, w)
      PROVE  Met' /\ WaitGuards'
  <2>1. \A p \in Proc : phase'[p] = "wait" => phase[p] = "wait" /\ guards'[p] = guards[p]
    BY <1>1, <1>6 DEF AltGoesOn, AltYield, AltResume, AltReturn, Cleanup, AltChoose
  <2> QED BY <1>1, <1>6, <2>1, AltMet, GuardsStay
<1>7. CASE AltCall
  <2>1. PICK l \in Menu[curr_proc] : AltBegin(l)
    BY <1>7 DEF AltCall
  <2>2. pc = "proc"
    BY <1>7, CallFacts DEF AltCall
  <2>3. CASE AltWait(l)
    BY <1>1, <2>2, <2>3, AltWaitMet
  <2> QED BY <1>6, <2>1, <2>2, <2>3 DEF AltBegin
<1>8. CASE AltRest
  BY <1>6, <1>8 DEF AltRest, AltGoesOn, AltYield, AltResume, AltReturn
<1>9. CASE WakeGuard
  <2>1. PICK x \in Proc \cup {NULL} : altsleep = Lone(x)
    BY <1>1 DEF AInv, OneLeaf
  <2>2. RB!RB_MIN(altsleep) = x
    BY <2>1, LoneMin
  <2>3. x \in Proc
    BY <1>9, <2>2 DEF WakeGuard
  <2>4. is_accepted' = is_accepted \/ is_accepted' = [is_accepted EXCEPT ![x] = TRUE]
    BY <1>9, <2>2 DEF WakeGuard, alt_accept
  <2> QED BY <1>4, <1>9, <2>3, <2>4 DEF WakeGuard, chanVars
<1>10. CASE BuildCall \/ GoCall \/ LastCall \/ ProxcCheckQs \/ ProxcFree \/ ProxcOther \/ ProxcEnd
              \/ (AltWakeDone /\ UNCHANGED <<cspVars, proxcVars>>) \/ UNCHANGED progVars
  BY <1>2, <1>10, BuilderSteps
<1>11. CASE SleepCall \/ ProxcTick \/ (\E t \in 0..MaxTime : SetBack(t))
              \/ ((\E p \in Proc : WakeProc(p)) /\ UNCHANGED <<chanVars, altVars>>)
  BY <1>2, <1>11 DEF SleepCall, ProxcTick, SetBack
<1>12. CASE ProxcWakeup
  BY <1>9, <1>10, <1>11, <1>12 DEF ProxcWakeup
<1> QED BY <1>3, <1>5, <1>7, <1>8, <1>10, <1>11, <1>12 DEF ProxcNext, ProgramStep

\* A tree that is not finished has a PROC that has been run and has not ended.
LEMMA LeafLeft ==
  ASSUME Built, parsing = NULL, NEW on, Runs(on), NEW b \in on, ~Finished(b)
  PROVE  \E x \in Leaves(b) : x \in on /\ ~Finished(x) /\ type[x] # "FREE"
<1> DEFINE Good(x) == x \in on /\ ~Finished(x) =>
                        \E y \in Leaves(x) : y \in on /\ ~Finished(y) /\ type[y] # "FREE"
           G == {x \in Build : Good(x)}
<1>1. CspTypeOK /\ Shape /\ Ranked /\ Counts /\ on \subseteq Build /\ Reaches(on)
  BY DEF Built, Runs
<1>2. PICK n, rank : Falls(Build, AllKids, n, rank)
  BY <1>1 DEF Ranked
<1>3. \A x \in on : type[x] # "FREE"
  <2>1. \A x \in on : is_root[x] \/ parent[x] \in Build
    BY <1>1 DEF Reaches
  <2> QED BY <1>1, <2>1, Allocated, BuildFacts DEF Shape
<1>4. ASSUME NEW x \in Build, \A c \in AllKids[x] : c \in G PROVE x \in G
  <2> SUFFICES ASSUME x \in on, ~Finished(x)
               PROVE  \E y \in Leaves(x) : y \in on /\ ~Finished(y) /\ type[y] # "FREE"
    OBVIOUS
  <2>1. CASE x \in Proc
    BY <1>1, <1>3, <2>1, CleanupFacts DEF Leaves
  <2>2. CASE x \notin Proc
    <3>1. x \in Comp /\ type[x] # "FREE" /\ type[x] # "PROC_BUILD" /\ parsing # x
      BY <1>1, <1>3, <2>2, BuildFacts DEF Shape
    <3>2. \E c \in Kids(x) : c \in Called(x) /\ ~Finished(c)
      <4>1. CASE type[x] = "SEQ_BUILD"
        <5>1. Pos(x) \in 1..Len(childQ[x]) /\ curr_build[x] = childQ[x][Pos(x)] /\ curr_build[x] \in Kids(x)
          BY <1>1, <3>1, <4>1, CurrentFacts
        <5>2. ~Finished(curr_build[x])
          BY <2>2, <3>1, <4>1 DEF Runs, InOrder, Finished
        <5>3. curr_build[x] \in Called(x)
          BY <1>1, <5>1, KidFacts DEF Called
        <5> QED BY <5>1, <5>2, <5>3
      <4>2. CASE type[x] # "SEQ_BUILD"
        <5>1. PICK c \in Kids(x) : ~Finished(c)
          BY <1>1, <3>1, FinishedKids
        <5>2. c \in Called(x)
          BY <1>1, <4>2, KidFacts DEF Called
        <5> QED BY <5>1, <5>2
      <4> QED BY <4>1, <4>2
    <3>3. PICK c \in Kids(x) : c \in Called(x) /\ ~Finished(c)
      BY <3>2
    <3>4. c \in Build /\ c \in AllKids[x] /\ parent[c] = x
      BY <1>1, Allocated DEF AllKids, Shape
    <3>5. c \in on
      BY <1>1, <3>3, <3>4 DEF Reaches
    <3>6. c \in G
      BY <1>4, <3>4
    <3>7. PICK y \in Leaves(c) : y \in on /\ ~Finished(y) /\ type[y] # "FREE"
      BY <3>3, <3>5, <3>6
    <3>8. Leaves(c) \subseteq Leaves(x)
      BY <1>1, <3>3, CleanupFacts DEF Leaves
    <3> QED BY <3>7, <3>8
  <2> QED BY <2>1, <2>2
<1>5. G = Build
  <2>1. G \in SUBSET Build
    OBVIOUS
  <2>2. \A x \in Build : AllKids[x] \subseteq G => x \in G
    BY <1>4
  <2> HIDE DEF G
  <2> QED BY <1>2, <2>1, <2>2, FromLeaves
<1> QED BY <1>1, <1>5

\* When the scheduler has nothing to do, only the program can be the reason.
LEMMA StuckWaits ==
  ASSUME NeverDueAtZero, PInv, Met, WaitGuards, Stuck, NEW p \in Range(totalQ)
  PROVE  WaitsForProgram(p)
<1>1. /\ pc = "loop" /\ Live /\ readyQ = <<>> /\ sleepRB = {} /\ RB!Linked(altsleep) = {}
  BY DEF Stuck, Live
<1>2. /\ AInv /\ CInv /\ ChanTypeOK /\ OneType /\ WaitsQueued /\ Typed /\ Linked /\ Accepted /\ Armed
      /\ Built /\ Shape /\ CspTypeOK /\ Joins /\ Steady /\ TypeInv /\ p \in Proc
      /\ Range(totalQ) \subseteq Proc
  BY <1>1, QueuesInProc DEF PInv, AInv, CInv, BuildInv, Built, Active
<1>3. curr_proc = NULL /\ freeing = NULL /\ parsing = NULL /\ Range(readyQ) = {}
  BY <1>1, <1>2 DEF Steady, Where, Built, Parses, Range
<1>4. \A q \in Range(totalQ) : state[q] \in Blocked \/ q \notin started
  BY <1>1, <1>2, <1>3, SchedAssumption DEF Steady, Queues, NoLostProc
<1>5. ASSUME state[p] = "CHANWAIT"
      PROVE  \E c \in Chans : \E e \in Range(endQ[c]) :
               /\ e.proc = p
               /\ \A f \in Range(endQ[c]) : f.type = e.type
               /\ e.type = "CHAN_WRITER" => ~AltOn(c)
  <2>1. PICK c \in Chans : \E e \in Range(endQ[c]) : e.proc = p
    BY <1>2, <1>5 DEF WaitsQueued, Queued
  <2>2. PICK e \in Range(endQ[c]) : e.proc = p
    BY <2>1
  <2>3. endQ[c] # <<>> /\ endQ[c] \in Seq(ChanEnd)
    BY <1>2, <2>2 DEF ChanTypeOK, Range
  <2>4. \A f \in Range(endQ[c]) : f.type = e.type
    BY <1>2, <2>2 DEF OneType
  <2>5. Head(endQ[c]) \in Range(endQ[c])
    BY <2>3, HeadTailFacts
  <2>6. e.type = "CHAN_WRITER" => ~AltOn(c)
    BY <2>3, <2>4, <2>5 DEF Met, FirstIs, AltOn, CanAccept, Range
  <2> QED BY <2>2, <2>4, <2>6
<1>6. ASSUME state[p] = "ALTWAIT", NEW i \in DOMAIN guards[p]
      PROVE  guards[p][i].type = "CHAN" /\ ~FirstIs(guards[p][i].chan, "CHAN_WRITER")
  <2>1. phase[p] = "wait" /\ ~is_accepted[p]
    BY <1>2, <1>6 DEF Accepted
  <2>2. guards[p][i].type # "TIME"
    <3> SUFFICES ASSUME guards[p][i].type = "TIME" PROVE FALSE
      OBVIOUS
    <3>1. TimeGuard(guards[p]) # 0
      BY <1>2, <2>1 DEF WaitGuards
    <3>2. altsleep = Lone(p)
      BY <1>2, <2>1, <3>1 DEF Armed
    <3>3. RB!Linked(altsleep) = {p} \ {NULL}
      BY <1>2, <3>2, LoneLinked
    <3> QED BY <1>1, <1>2, <3>3, SchedAssumption
  <2>3. guards[p][i].type = "CHAN" /\ guards[p][i].chan \in Chans
    BY <1>2, <1>6, <2>1, <2>2 DEF WaitGuards
  <2>4. p \in Range(altQ[guards[p][i].chan])
    BY <1>2, <1>6, <2>1, <2>3, InAltQ DEF GuardsOn, OnChannel
  <2> QED BY <2>1, <2>3, <2>4 DEF Met
<1>7. ASSUME state[p] = "RUNWAIT"
      PROVE  \E b \in Roots : /\ run_proc[b] = p
                              /\ \E x \in Leaves(b) : x \in started /\ state[x] \in Blocked
  <2>1. PICK b \in Build : run_proc[b] = p
    BY <1>2, <1>7 DEF Joins
  <2>2. is_root[b] /\ b \in Roots
    BY <1>2, <2>1, SchedAssumption DEF Shape, Roots
  <2>3. PICK on : Runs(on)
    BY <1>1 DEF PInv, BuildInv, Active
  <2>4. b \in on /\ ~Finished(b)
    BY <2>1, <2>2, <2>3 DEF Runs, Reaches
  <2>5. PICK x \in Leaves(b) : x \in on /\ ~Finished(x) /\ type[x] # "FREE"
    BY <1>2, <1>3, <2>3, <2>4, LeafLeft
  <2>6. x \in Proc /\ x \in started
    BY <2>3, <2>5 DEF Leaves, Finished, Runs
  <2>7. x \in Range(totalQ)
    BY <1>2, <1>3, <2>6, SchedAssumption DEF Steady, Fits, Queues, TotalQSound
  <2> QED BY <1>4, <2>1, <2>2, <2>5, <2>6, <2>7
<1>8. state[p] \in {"CHANWAIT", "ALTWAIT", "RUNWAIT"} \/ p \notin started
  BY <1>4 DEF Blocked
<1> QED BY <1>5, <1>6, <1>7, <1>8 DEF WaitsForProgram

\* The runtime makes no deadlock of its own: when nobody is ready and no timer
\* runs, every PROC that has started waits for a partner that no other PROC
\* offers to be, or in RUN for one that does.  No partner was missed, no timer
\* forgotten and no RUN left behind, in any program in which at most one PROC
\* uses time guards and no two PROCs use ALT on one channel.
THEOREM NoDeadlockOfItsOwn ==
  ASSUME OneTimer, RoomToSleep, OneAltPerChan, NeverDueAtZero
  PROVE  ProxcSpec => []OnlyProgramsDeadlock
<1>1. ProxcSpec => []PInv
  BY ProxcAlways
<1>2. ProxcInit => Met /\ WaitGuards
  <2> SUFFICES ASSUME ProxcInit PROVE Met /\ WaitGuards
    OBVIOUS
  <2>1. (\A c \in Chans : endQ[c] = <<>>) /\ (\A p \in Proc : phase[p] = "none")
    BY DEF ProxcInit, ChanInit, AltInit
  <2> QED BY <2>1 DEF Met, WaitGuards, FirstIs
<1>3. PInv /\ Met /\ WaitGuards /\ [ProxcNext]_progVars => Met' /\ WaitGuards'
  BY MetStep
<1>4. PInv /\ Met /\ WaitGuards => OnlyProgramsDeadlock
  BY StuckWaits DEF OnlyProgramsDeadlock
<1> QED BY <1>1, <1>2, <1>3, <1>4, PTL DEF ProxcSpec
=============================================================================
