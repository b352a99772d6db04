------------------------------ MODULE AltProofs ------------------------------
(***************************************************************************)
(* What Chan and Alt promise for any number of PROCs, channels and values. *)
(*                                                                         *)
(* Chan: the queues are sound, a partner that is woken is parked, and the  *)
(* channels implement Rendezvous.                                          *)
(*                                                                         *)
(* Alt, for any guard lists: the theorems ask of the programs what the     *)
(* code needs and does not enforce: OneTimer, since two timers corrupt the *)
(* altsleep tree (run two_timers), and, for the refinement, OneAltPerChan, *)
(* since a writer looks at the first ALT of a channel only (run two_alts). *)
(***************************************************************************)
EXTENDS Alt, SchedulerProofs

-----------------------------------------------------------------------------
(* The invariant *)

\* p has a ChanEnd in some queue.
Queued(p) == \E c \in Chans : \E e \in Range(endQ[c]) : e.proc = p

\* The ends of one queue are all writers or all readers.
OneType == \A c \in Chans : \A e, f \in Range(endQ[c]) : e.type = f.type

\* A PROC has at most one end, linked once.
OneEnd ==
  /\ \A c \in Chans : IsInjective(endQ[c])
  /\ \A c, d \in Chans : \A e \in Range(endQ[c]), f \in Range(endQ[d]) :
       e.proc = f.proc => c = d /\ e = f

\* A PROC waits exactly while its end is queued.
WaitsQueued == \A p \in Proc : state[p] = "CHANWAIT" <=> Queued(p)

\* The inductive invariant.
CInv == SInv /\ ChanTypeOK /\ OneType /\ (Live => OneEnd /\ WaitsQueued)

\* chan_create leaves an empty queue.
LEMMA ChanStart == SchedInit /\ ChanInit => CInv
<1> SUFFICES ASSUME SchedInit, ChanInit PROVE CInv
  OBVIOUS
<1>1. SInv
  BY SteadyInit
<1>2. <<>> \in Seq(ChanEnd) /\ Range(<<>>) = {} /\ IsInjective(<<>>)
  BY DEF Range, IsInjective
<1>3. \A c \in Chans : endQ[c] = <<>>
  BY DEF ChanInit
<1>4. ChanTypeOK
  BY <1>2 DEF ChanInit, ChanTypeOK
<1>5. OneType /\ OneEnd
  BY <1>2, <1>3 DEF OneType, OneEnd
<1>6. WaitsQueued
  BY <1>2, <1>3 DEF WaitsQueued, Queued, SchedInit
<1> QED BY <1>1, <1>4, <1>5, <1>6 DEF CInv

\* At the head of a queue waits another PROC, and it is parked: one call hands
\* it to scheduler_addready.
LEMMA HeadParked ==
  ASSUME CInv, pc = "proc", NEW c \in Chans, endQ[c] # <<>>
  PROVE  /\ Head(endQ[c]) \in ChanEnd /\ Head(endQ[c]) \in Range(endQ[c])
         /\ Head(endQ[c]).proc \in Parked
         /\ state[Head(endQ[c]).proc] = "CHANWAIT"
         /\ Head(endQ[c]).proc # curr_proc
         /\ <<Head(endQ[c]).proc>> \in Batches
<1> DEFINE p == Head(endQ[c]).proc
<1>1. Head(endQ[c]) \in ChanEnd /\ Head(endQ[c]) \in Range(endQ[c])
  BY HeadTailFacts DEF CInv, ChanTypeOK
<1>2. p \in Proc
  BY <1>1 DEF ChanEnd
<1>3. Live /\ Steady /\ WaitsQueued
  BY DEF CInv, SInv, Live
<1>4. state[p] = "CHANWAIT"
  BY <1>1, <1>2, <1>3 DEF WaitsQueued, Queued
<1> HIDE DEF p
<1>5. p # curr_proc /\ p \in Parked
  BY <1>2, <1>3, <1>4, SchedAssumption
     DEF Steady, Where, Queues, TotalQSound, Parked, Blocked
<1>6. <<p>> \in Batches
  <2>1. Cardinality(Proc) \in Nat /\ Cardinality(Proc) # 0
    BY SchedAssumption, FS_CardinalityType, FS_EmptySet
  <2>2. 1 \in 1..Cardinality(Proc)
    BY <2>1
  <2>3. <<p>> \in [1..1 -> Proc]
    BY <1>2
  <2> QED BY <2>2, <2>3 DEF Batches
<1> QED BY <1>1, <1>4, <1>5, <1>6 DEF p

\* Waking the partner is a step the scheduler allows.
LEMMA WakesParked ==
  ASSUME CInv, pc = "proc", NEW c \in Chans, endQ[c] # <<>>,
         Readies(<<Head(endQ[c]).proc>>)
  PROVE  AwakeNext
<1> DEFINE p == Head(endQ[c]).proc
<1>1. p \in Parked /\ <<p>> \in Batches
  BY HeadParked
<1>2. p \in Proc
  BY HeadParked DEF ChanEnd
<1> HIDE DEF p
<1>3. Range(<<p>>) = {p} /\ IsInjective(<<p>>)
  BY <1>2, SingletonFacts
<1>4. AddReady(<<p>>)
  BY <1>1, <1>3 DEF AddReady, p
<1> QED BY <1>1, <1>4 DEF AwakeNext

\* Every step of a program with channels is one the scheduler allows.
LEMMA ChanAwake ==
  ASSUME CInv, [ChanNext]_<<schedVars, chanVars>>
  PROVE  [AwakeNext]_schedVars
<1>1. CASE NoChanStep
  BY <1>1 DEF NoChanStep, AwakeNext, Stay
<1>2. ASSUME NEW c \in Chans, NEW v \in Data, WriteToReader(c, v) PROVE AwakeNext
  BY <1>2, WakesParked DEF WriteToReader, FirstIs
<1>3. ASSUME NEW c \in Chans, ReadFromWriter(c) PROVE AwakeNext
  BY <1>3, WakesParked DEF ReadFromWriter, TakeFromWriter, FirstIs
<1>4. ASSUME Block("CHANWAIT") PROVE AwakeNext
  BY <1>4 DEF AwakeNext, Blocked
<1>5. CASE UNCHANGED <<schedVars, chanVars>>
  BY <1>5
<1> QED
  BY <1>1, <1>2, <1>3, <1>4, <1>5 DEF ChanNext, WriteEnqueue, ReadEnqueue

\* Unlinking the partner takes that end out of its queue and no other.
LEMMA DequeueFacts ==
  ASSUME CInv, Live, NEW c \in Chans, endQ[c] # <<>>, Dequeue(c)
  PROVE  /\ endQ' \in [Chans -> Seq(ChanEnd)]
         /\ \A d \in Chans :
              Range(endQ'[d]) = IF d = c THEN Range(endQ[c]) \ {Head(endQ[c])}
                                         ELSE Range(endQ[d])
         /\ OneType' /\ OneEnd'
         /\ \A q : Queued(q)' <=> Queued(q) /\ q # Head(endQ[c]).proc
<1>1. endQ \in [Chans -> Seq(ChanEnd)] /\ OneEnd /\ OneType
  BY DEF CInv, ChanTypeOK
<1>2. /\ Head(endQ[c]) \in Range(endQ[c]) /\ Tail(endQ[c]) \in Seq(ChanEnd)
      /\ IsInjective(Tail(endQ[c]))
      /\ Range(Tail(endQ[c])) = Range(endQ[c]) \ {Head(endQ[c])}
  BY <1>1, HeadTailFacts DEF OneEnd
<1>3. endQ' = [endQ EXCEPT ![c] = Tail(endQ[c])]
  BY DEF Dequeue
<1>4. endQ' \in [Chans -> Seq(ChanEnd)]
  BY <1>1, <1>2, <1>3
<1>5. \A d \in Chans :
        /\ IsInjective(endQ'[d])
        /\ Range(endQ'[d]) = IF d = c THEN Range(endQ[c]) \ {Head(endQ[c])}
                                      ELSE Range(endQ[d])
  BY <1>1, <1>2, <1>3 DEF OneEnd
<1>6. OneType'
  BY <1>1, <1>5 DEF OneType
<1>7. OneEnd'
  BY <1>1, <1>5 DEF OneEnd
<1>8. ASSUME NEW q PROVE Queued(q)' <=> Queued(q) /\ q # Head(endQ[c]).proc
  BY <1>1, <1>2, <1>5 DEF OneEnd, Queued
<1> QED BY <1>4, <1>5, <1>6, <1>7, <1>8

\* Linking the end of a PROC that has none adds that end.
LEMMA EnqueueFacts ==
  ASSUME CInv, Live, NEW c \in Chans, NEW e \in ChanEnd, ~Queued(e.proc),
         \A f \in Range(endQ[c]) : f.type = e.type,
         endQ' = [endQ EXCEPT ![c] = Append(@, e)]
  PROVE  /\ endQ' \in [Chans -> Seq(ChanEnd)]
         /\ \A d \in Chans :
              Range(endQ'[d]) = IF d = c THEN Range(endQ[c]) \cup {e} ELSE Range(endQ[d])
         /\ OneType' /\ OneEnd'
         /\ \A q : Queued(q)' <=> Queued(q) \/ q = e.proc
<1>1. endQ \in [Chans -> Seq(ChanEnd)] /\ OneEnd /\ OneType
  BY DEF CInv, ChanTypeOK
<1>2. \A d \in Chans : e \notin Range(endQ[d])
  BY DEF Queued
<1>3. /\ Append(endQ[c], e) \in Seq(ChanEnd)
      /\ IsInjective(Append(endQ[c], e))
      /\ Range(Append(endQ[c], e)) = Range(endQ[c]) \cup {e}
  <2>1. endQ[c] \in Seq(ChanEnd) /\ IsInjective(endQ[c]) /\ e \notin Range(endQ[c])
    BY <1>1, <1>2 DEF OneEnd
  <2>2. Append(endQ[c], e) = endQ[c] \o <<e>>
    BY <2>1, PushFacts
  <2>3. /\ endQ[c] \o <<e>> \in Seq(ChanEnd) /\ IsInjective(endQ[c] \o <<e>>)
        /\ Range(endQ[c] \o <<e>>) = Range(endQ[c]) \cup {e}
    BY <2>1, PushFacts
  <2> QED BY <2>2, <2>3, Zenon
<1>4. endQ' = [endQ EXCEPT ![c] = Append(endQ[c], e)]
  OBVIOUS
<1>5. endQ' \in [Chans -> Seq(ChanEnd)]
  BY <1>1, <1>3, <1>4
<1>6. \A d \in Chans :
        /\ IsInjective(endQ'[d])
        /\ Range(endQ'[d]) = IF d = c THEN Range(endQ[c]) \cup {e} ELSE Range(endQ[d])
  BY <1>1, <1>3, <1>4 DEF OneEnd
<1>7. OneType'
  BY <1>1, <1>6 DEF OneType
<1>8. OneEnd'
  <2>1. \A d \in Chans : \A f \in Range(endQ[d]) : f.proc # e.proc
    BY DEF Queued
  <2> QED BY <1>1, <1>6, <2>1 DEF OneEnd
<1>9. ASSUME NEW q PROVE Queued(q)' <=> Queued(q) \/ q = e.proc
  BY <1>6 DEF Queued
<1> QED BY <1>5, <1>6, <1>7, <1>8, <1>9

\* Steps without a channel neither start nor end a wait for a partner.
LEMMA NoChanWait ==
  ASSUME SInv, Live, NoChanStep, NEW w \in Blocked, NEW p \in Proc
  PROVE  state'[p] = w <=> state[p] = w
<1> w \notin {"FREE", "READY", "RUNNING", "SLEEPING", "ENDED"}
  BY DEF Blocked
<1>1. /\ state \in [Proc -> ProcState] /\ readyQ \in Seq(Proc) /\ Steady
      /\ curr_proc \in Proc \cup {NULL} /\ (pc \in {"proc", "switch"} => curr_proc \in Proc)
  BY DEF SInv, TypeInv, SchedTypeOK
<1>2. ASSUME NEW q \in Proc, scheduler_addready(<<q>>), state[q] # w
      PROVE  state'[p] = w <=> state[p] = w
  <2>1. Range(<<q>>) = {q}
    BY SingletonFacts
  <2> QED BY <1>2, <2>1 DEF scheduler_addready
<1>3. ASSUME NEW q \in Proc, Spawn(q)
      PROVE  state'[p] = w <=> state[p] = w
  BY <1>2, <1>3 DEF Spawn
<1>4. ASSUME NEW q \in Proc, WakeProc(q)
      PROVE  state'[p] = w <=> state[p] = w
  <2>1. state[q] = "SLEEPING"
    BY <1>1, <1>4 DEF WakeProc, IsFirstSleeper, Steady, Queues, SleepRBSound
  <2> QED BY <1>2, <1>4, <2>1 DEF WakeProc
<1>5. CASE Dispatch
  <2>1. Head(readyQ) \in Range(readyQ)
    BY <1>1, <1>5, HeadTailFacts DEF Dispatch
  <2>2. state[Head(readyQ)] = "READY"
    BY <1>1, <2>1 DEF Steady, Queues, ReadyQSound
  <2> QED BY <1>1, <1>5, <2>2 DEF Dispatch
<1>6. CASE SwitchReady
  BY <1>1, <1>2, <1>6 DEF SwitchReady
<1>7. CASE FreeDone
  <2>1. state[freeing] = "ENDED"
    BY <1>1, <1>7 DEF FreeDone, Live, Steady, Where
  <2> QED BY <1>1, <1>7, <2>1 DEF FreeDone
<1>8. CASE End
  BY <1>1, <1>8 DEF End, Steady, Where
<1>9. CASE state' = state
  BY <1>9
<1>10. \/ state' = state
       \/ \E q \in Proc : Spawn(q) \/ WakeProc(q)
       \/ Dispatch \/ SwitchReady \/ FreeDone \/ End
  BY DEF NoChanStep, SchedStep, Yield, Exit, CheckQs, WakeDone, Continue,
     SwitchWait, SwitchEnded, LoopExit, TeardownFree, TeardownEnd, Terminated, schedVars
<1> QED BY <1>3, <1>4, <1>5, <1>6, <1>7, <1>8, <1>9, <1>10

\* The running PROC has no end queued.
LEMMA CurrentFree ==
  ASSUME CInv, pc = "proc"
  PROVE  curr_proc \in Proc /\ ~Queued(curr_proc) /\ Live
<1>1. Live /\ Steady /\ WaitsQueued /\ curr_proc \in Proc
  BY DEF CInv, SInv, TypeInv, Live
<1>2. state[curr_proc] = "RUNNING"
  BY <1>1 DEF Steady, Where
<1> QED BY <1>1, <1>2 DEF WaitsQueued

\* What waking the PROC at the head of a queue does to the waits.
LEMMA AcceptStep ==
  ASSUME CInv, pc = "proc", NEW c \in Chans, endQ[c] # <<>>, Dequeue(c),
         Readies(<<Head(endQ[c]).proc>>)
  PROVE  WaitsQueued'
<1> DEFINE p == Head(endQ[c]).proc
<1>1. Live /\ WaitsQueued
  BY DEF CInv, Live
<1>2. p \in Proc
  BY HeadParked DEF ChanEnd
<1>3. \A q : Queued(q)' <=> Queued(q) /\ q # p
  BY <1>1, DequeueFacts
<1>4. state' = [q \in Proc |-> IF q \in Range(<<p>>) THEN "READY" ELSE state[q]]
  BY DEF Readies, scheduler_addready
<1> HIDE DEF p
<1>5. Range(<<p>>) = {p}
  BY <1>2, SingletonFacts
<1> QED BY <1>1, <1>2, <1>3, <1>4, <1>5 DEF WaitsQueued

\* What queueing up does to the waits.
LEMMA EnqueueStep ==
  ASSUME CInv, pc = "proc", NEW c \in Chans, NEW t \in {"CHAN_WRITER", "CHAN_READER"},
         \A f \in Range(endQ[c]) : f.type = t,
         endQ' = [endQ EXCEPT ![c] = Append(@, [type |-> t, proc |-> curr_proc])],
         Block("CHANWAIT")
  PROVE  endQ' \in [Chans -> Seq(ChanEnd)] /\ OneType' /\ OneEnd' /\ WaitsQueued'
<1> DEFINE e == [type |-> t, proc |-> curr_proc]
<1>1. Live /\ WaitsQueued /\ curr_proc \in Proc /\ ~Queued(curr_proc)
  BY CurrentFree DEF CInv
<1>2. e \in ChanEnd /\ e.type = t /\ e.proc = curr_proc
  BY <1>1 DEF ChanEnd
<1> HIDE DEF e
<1>3. endQ' = [endQ EXCEPT ![c] = Append(@, e)]
  BY DEF e
<1>4. /\ endQ' \in [Chans -> Seq(ChanEnd)] /\ OneType' /\ OneEnd'
      /\ \A q : Queued(q)' <=> Queued(q) \/ q = curr_proc
  BY <1>1, <1>2, <1>3, EnqueueFacts
<1>5. Range(<<>>) = {}
  BY DEF Range
<1>6. \A q \in Proc : state'[q] = IF q = curr_proc THEN "CHANWAIT" ELSE state[q]
  BY <1>5 DEF Block, Waits
<1> QED BY <1>1, <1>4, <1>6 DEF WaitsQueued

\* A queue whose head is not an end of type t holds none of that type.
LEMMA HeadTells ==
  ASSUME CInv, NEW c \in Chans, NEW t \in {"CHAN_WRITER", "CHAN_READER"}, ~FirstIs(c, t),
         NEW f \in Range(endQ[c])
  PROVE  f.type # t /\ f \in ChanEnd
<1>1. endQ[c] \in Seq(ChanEnd)
  BY DEF CInv, ChanTypeOK
<1>2. endQ[c] # <<>>
  BY DEF Range
<1>3. Head(endQ[c]) \in Range(endQ[c])
  BY <1>1, <1>2, HeadTailFacts
<1>4. f.type = Head(endQ[c]).type
  BY <1>3 DEF CInv, OneType
<1>5. f \in ChanEnd
  BY <1>1, RangeOfSeq
<1> QED BY <1>2, <1>4, <1>5 DEF FirstIs

\* Every step keeps the invariant.
LEMMA ChanStep ==
  ASSUME CInv, [ChanNext]_<<schedVars, chanVars>>
  PROVE  CInv'
<1>1. SInv'
  BY ChanAwake, AwakeStep DEF CInv
<1>2. /\ endQ \in [Chans -> Seq(ChanEnd)] /\ data \in [Proc -> Data \cup {NULL}]
      /\ OneType /\ (Live => OneEnd /\ WaitsQueued)
  BY DEF CInv, ChanTypeOK
<1>3. CASE NoChanStep \/ UNCHANGED <<schedVars, chanVars>>
  <2>1. ChanTypeOK' /\ OneType'
    BY <1>2, <1>3 DEF NoChanStep, chanVars, ChanTypeOK, OneType
  <2>2. ASSUME Live' PROVE OneEnd' /\ WaitsQueued'
    <3>1. Live
      <4>1. [SchedNext]_schedVars
        BY ChanAwake, SleepOrAwake
      <4> QED BY <2>2, <4>1, StaysDown
    <3>2. UNCHANGED endQ /\ OneEnd /\ WaitsQueued
      BY <1>2, <1>3, <3>1 DEF NoChanStep, chanVars
    <3>3. \A p \in Proc : state'[p] = "CHANWAIT" <=> state[p] = "CHANWAIT"
      <4>1. CASE NoChanStep
        BY <3>1, <4>1, NoChanWait DEF CInv, Blocked
      <4>2. CASE UNCHANGED <<schedVars, chanVars>>
        BY <4>2 DEF schedVars
      <4> QED BY <1>3, <4>1, <4>2
    <3> QED BY <3>2, <3>3 DEF OneEnd, WaitsQueued, Queued
  <2> QED BY <1>1, <2>1, <2>2 DEF CInv
<1>4. ASSUME NEW c \in Chans, NEW v \in Data, WriteToReader(c, v) PROVE CInv'
  <2>1. /\ pc = "proc" /\ endQ[c] # <<>> /\ Dequeue(c) /\ Live
        /\ Readies(<<Head(endQ[c]).proc>>)
        /\ data' = [data EXCEPT ![Head(endQ[c]).proc] = v]
    BY <1>4 DEF WriteToReader, FirstIs, chan_copydata, Live
  <2>2. endQ' \in [Chans -> Seq(ChanEnd)] /\ OneType' /\ OneEnd'
    BY <2>1, DequeueFacts
  <2>3. WaitsQueued'
    BY <2>1, AcceptStep
  <2>4. data' \in [Proc -> Data \cup {NULL}]
    BY <1>2, <2>1
  <2> QED BY <1>1, <2>2, <2>3, <2>4 DEF CInv, ChanTypeOK
<1>5. ASSUME NEW c \in Chans, ReadFromWriter(c) PROVE CInv'
  <2>1. /\ pc = "proc" /\ endQ[c] # <<>> /\ Dequeue(c) /\ Live
        /\ Readies(<<Head(endQ[c]).proc>>)
        /\ data' = [data EXCEPT ![curr_proc] = data[Head(endQ[c]).proc]]
    BY <1>5 DEF ReadFromWriter, TakeFromWriter, FirstIs, chan_copydata, Live
  <2>2. endQ' \in [Chans -> Seq(ChanEnd)] /\ OneType' /\ OneEnd'
    BY <2>1, DequeueFacts
  <2>3. WaitsQueued'
    BY <2>1, AcceptStep
  <2>4. Head(endQ[c]).proc \in Proc
    BY <2>1, HeadParked DEF ChanEnd
  <2>5. data' \in [Proc -> Data \cup {NULL}]
    BY <1>2, <2>1, <2>4
  <2> QED BY <1>1, <2>2, <2>3, <2>5 DEF CInv, ChanTypeOK
<1>6. ASSUME NEW c \in Chans, NEW v \in Data, WriteEnqueue(c, v) PROVE CInv'
  <2>1. /\ pc = "proc" /\ ~FirstIs(c, "CHAN_READER") /\ Block("CHANWAIT")
        /\ endQ' = [endQ EXCEPT ![c] =
                      Append(@, [type |-> "CHAN_WRITER", proc |-> curr_proc])]
        /\ data' = [data EXCEPT ![curr_proc] = v]
    BY <1>6 DEF WriteEnqueue
  <2>2. \A f \in Range(endQ[c]) : f.type = "CHAN_WRITER"
    BY <2>1, HeadTells DEF ChanEnd
  <2>3. endQ' \in [Chans -> Seq(ChanEnd)] /\ OneType' /\ OneEnd' /\ WaitsQueued'
    BY <2>1, <2>2, EnqueueStep
  <2>4. data' \in [Proc -> Data \cup {NULL}]
    BY <1>2, <2>1
  <2> QED BY <1>1, <2>3, <2>4 DEF CInv, ChanTypeOK
<1>7. ASSUME NEW c \in Chans, ReadEnqueue(c) PROVE CInv'
  <2>1. /\ pc = "proc" /\ ~FirstIs(c, "CHAN_WRITER") /\ Block("CHANWAIT")
        /\ endQ' = [endQ EXCEPT ![c] =
                      Append(@, [type |-> "CHAN_READER", proc |-> curr_proc])]
        /\ UNCHANGED data
    BY <1>7 DEF ReadEnqueue
  <2>2. \A f \in Range(endQ[c]) : f.type = "CHAN_READER"
    BY <2>1, HeadTells DEF ChanEnd
  <2>3. endQ' \in [Chans -> Seq(ChanEnd)] /\ OneType' /\ OneEnd' /\ WaitsQueued'
    BY <2>1, <2>2, EnqueueStep
  <2> QED BY <1>1, <1>2, <2>1, <2>3 DEF CInv, ChanTypeOK
<1> QED BY <1>3, <1>4, <1>5, <1>6, <1>7 DEF ChanNext

-----------------------------------------------------------------------------
(* The theorems *)

\* Every variable of the channels keeps its type.
THEOREM ChanTypeCorrect == ChanSpec => []ChanTypeOK
<1>1. CInv => ChanTypeOK
  BY DEF CInv
<1>2. CInv /\ [ChanNext]_<<schedVars, chanVars>> => CInv'
  BY ChanStep
<1> QED BY <1>1, <1>2, ChanStart, PTL DEF ChanSpec

\* A queue is never longer than there are PROCs: each has one end at most.
LEMMA QueueBound ==
  ASSUME CInv, Live, NEW c \in Chans
  PROVE  Len(endQ[c]) \in Nat /\ Len(endQ[c]) <= Cardinality(Proc)
<1> DEFINE n == Len(endQ[c])
           f == [i \in 1..n |-> endQ[c][i].proc]
<1>1. endQ[c] \in Seq(ChanEnd) /\ OneEnd
  BY DEF CInv, ChanTypeOK
<1>2. n \in Nat /\ DOMAIN endQ[c] = 1..n /\ \A i \in 1..n : endQ[c][i] \in ChanEnd
  BY <1>1, LenProperties, ElementOfSeq
<1>3. Cardinality(Proc) \in Nat /\ IsFiniteSet(Proc)
  BY SchedAssumption, FS_CardinalityType
<1>4. f \in [1..n -> Proc]
  BY <1>2 DEF ChanEnd
<1>5. IsFiniteSet(1..n) /\ Cardinality(1..n) = n
  <2>1. n = 0 => 1..n = {}
    OBVIOUS
  <2>2. n # 0 => 1 <= n /\ 1 \in Int /\ n \in Int
    BY <1>2
  <2> HIDE DEF n
  <2>3. CASE n = 0
    BY <2>1, <2>3, FS_EmptySet
  <2>4. CASE n # 0
    <3>1. IsFiniteSet(1..n) /\ Cardinality(1..n) = n - 1 + 1
      BY <2>2, <2>4, FS_Interval
    <3> QED BY <1>2, <3>1
  <2> QED BY <2>3, <2>4
<1>6. ASSUME Cardinality(Proc) < n PROVE FALSE
  <2>1. PICK i \in 1..n, j \in 1..n : i # j /\ f[i] = f[j]
    <3> HIDE DEF f, n
    <3> QED BY <1>3, <1>4, <1>5, <1>6, FS_PigeonHole
  <2>2. endQ[c][i].proc = endQ[c][j].proc
    BY <2>1
  <2>3. endQ[c][i] \in Range(endQ[c]) /\ endQ[c][j] \in Range(endQ[c])
    BY <1>2 DEF Range
  <2>4. endQ[c][i] = endQ[c][j]
    BY <1>1, <2>2, <2>3 DEF OneEnd
  <2> QED BY <1>1, <1>2, <2>1, <2>4 DEF OneEnd, IsInjective
<1> QED BY <1>2, <1>3, <1>6

\* A PROC has at most one place in the queues, and one exactly when it is queued.
LEMMA EndsCounted ==
  ASSUME CInv, Live, NEW p \in Proc
  PROVE  Cardinality(EndsOf(p)) <= 1 /\ (Queued(p) <=> EndsOf(p) # {})
<1>1. OneEnd /\ \A c \in Chans : endQ[c] \in Seq(ChanEnd)
  BY DEF CInv, ChanTypeOK
<1>2. \A c \in Chans : /\ DOMAIN endQ[c] = 1..Len(endQ[c]) /\ Len(endQ[c]) \in Nat
                       /\ DOMAIN endQ[c] \subseteq 1..Cardinality(Proc)
  <2> TAKE c \in Chans
  <2>1. DOMAIN endQ[c] = 1..Len(endQ[c])
    BY <1>1, LenProperties
  <2>2. Len(endQ[c]) \in Nat /\ Len(endQ[c]) <= Cardinality(Proc)
    BY QueueBound
  <2>3. Cardinality(Proc) \in Nat
    BY SchedAssumption, FS_CardinalityType
  <2> QED BY <2>1, <2>2, <2>3
<1>3. Queued(p) <=> EndsOf(p) # {}
  <2>1. ASSUME NEW at \in EndsOf(p) PROVE Queued(p)
    <3>1. at[1] \in Chans /\ at[2] \in DOMAIN endQ[at[1]] /\ endQ[at[1]][at[2]].proc = p
      BY DEF EndsOf
    <3> QED BY <3>1 DEF Queued, Range
  <2>2. ASSUME Queued(p) PROVE EndsOf(p) # {}
    <3>1. PICK c \in Chans : \E i \in DOMAIN endQ[c] : endQ[c][i].proc = p
      BY <2>2 DEF Queued, Range
    <3>2. PICK i \in DOMAIN endQ[c] : endQ[c][i].proc = p
      BY <3>1
    <3>3. i \in 1..Cardinality(Proc)
      BY <1>2
    <3>4. <<c, i>> \in EndsOf(p)
      BY <3>2, <3>3 DEF EndsOf
    <3> QED BY <3>4
  <2> QED BY <2>1, <2>2
<1>4. ASSUME NEW x \in EndsOf(p), NEW y \in EndsOf(p) PROVE x = y
  <2>1. /\ x = <<x[1], x[2]>> /\ y = <<y[1], y[2]>>
        /\ x[1] \in Chans /\ x[2] \in DOMAIN endQ[x[1]] /\ endQ[x[1]][x[2]].proc = p
        /\ y[1] \in Chans /\ y[2] \in DOMAIN endQ[y[1]] /\ endQ[y[1]][y[2]].proc = p
    BY DEF EndsOf
  <2>2. endQ[x[1]][x[2]] \in Range(endQ[x[1]]) /\ endQ[y[1]][y[2]] \in Range(endQ[y[1]])
    BY <2>1 DEF Range
  <2>3. x[1] = y[1] /\ endQ[x[1]][x[2]] = endQ[y[1]][y[2]]
    BY <1>1, <2>1, <2>2 DEF OneEnd
  <2>4. x[2] = y[2]
    BY <1>1, <2>1, <2>3 DEF OneEnd, IsInjective
  <2> QED BY <2>1, <2>3, <2>4
<1>5. Cardinality(EndsOf(p)) <= 1
  <2>1. CASE EndsOf(p) = {}
    BY <2>1, FS_EmptySet
  <2>2. CASE EndsOf(p) # {}
    <3>1. PICK x : EndsOf(p) = {x}
      BY <1>4, <2>2
    <3>2. Cardinality({x}) = 1
      BY FS_Singleton
    <3> QED BY <3>1, <3>2
  <2> QED BY <2>1, <2>2
<1> QED BY <1>3, <1>5

\* The invariant says what EndQSound does.
LEMMA SoundQueues == CInv => EndQSound
<1> SUFFICES ASSUME CInv PROVE EndQSound
  OBVIOUS
<1>1. \A c \in Chans : \A i, j \in DOMAIN endQ[c] : endQ[c][i].type = endQ[c][j].type
  <2>1. \A c \in Chans : \A i \in DOMAIN endQ[c] : endQ[c][i] \in Range(endQ[c])
    BY DEF Range
  <2> QED BY <2>1 DEF CInv, OneType
<1>2. ASSUME Live, NEW p \in Proc
      PROVE  Cardinality(EndsOf(p)) <= 1 /\ (state[p] = "CHANWAIT" <=> EndsOf(p) # {})
  BY <1>2, EndsCounted DEF CInv, WaitsQueued
<1> QED BY <1>1, <1>2 DEF EndQSound

\* chan_write and chan_read may look at the head of endQ only: a queue never mixes
\* writers and readers; and a PROC that waits on a channel is linked in exactly one
\* queue, exactly once, so that a partner finds it.
THEOREM QueuesSound == ChanSpec => []EndQSound
<1>1. CInv /\ [ChanNext]_<<schedVars, chanVars>> => CInv'
  BY ChanStep
<1> QED BY <1>1, SoundQueues, ChanStart, PTL DEF ChanSpec

\* The PROC that chan_write or chan_read wakes is always parked: no step of a
\* program with channels links a PROC into readyQ that is there already, running,
\* asleep or being freed, and the scheduler's queues go on partitioning the PROCs.
THEOREM ChannelsKeepScheduler == ChanSpec => KeepsScheduler /\ []Placement
<1>1. CInv /\ [ChanNext]_<<schedVars, chanVars>> => [SchedNext]_schedVars
  BY ChanAwake, SleepOrAwake
<1>2. CInv /\ [ChanNext]_<<schedVars, chanVars>> => CInv'
  BY ChanStep
<1>3. CInv => Placement
  BY DEF CInv, SInv, Steady, Queues, Placement
<1> QED BY <1>1, <1>2, <1>3, ChanStart, PTL DEF ChanSpec, KeepsScheduler

-----------------------------------------------------------------------------
(* Refinement *)

\* A PROC's end of type t.
EndOf(t, p) == [type |-> t, proc |-> p]

\* The channels p is queued on, in terms of the content of the queues.
LEMMA WaitingRange ==
  ASSUME NEW p, NEW t
  PROVE  /\ WaitingOn(p, t) = {c \in Chans : EndOf(t, p) \in Range(endQ[c])}
         /\ WaitingOn(p, t)' = {c \in Chans : EndOf(t, p) \in Range(endQ'[c])}
BY DEF WaitingOn, EndOf, Range

\* A PROC without an end offers nothing.
LEMMA NoEndNoOffer ==
  ASSUME NEW p
  PROVE  /\ ~Queued(p) => Offer(p) = Meeting!NoOffer
         /\ ~Queued(p)' => Offer(p)' = Meeting!NoOffer
<1>1. \A t : EndOf(t, p).proc = p
  BY DEF EndOf
<1>2. ~Queued(p) => \A t : WaitingOn(p, t) = {}
  BY <1>1, WaitingRange DEF Queued
<1>3. ~Queued(p)' => \A t : WaitingOn(p, t)' = {}
  BY <1>1, WaitingRange DEF Queued
<1> QED BY <1>2, <1>3 DEF Offer, Meeting!NoOffer

\* A PROC whose ends stay where they are offers what it offered.
LEMMA SameOffer ==
  ASSUME NEW p,
         \A c \in Chans, t \in {"CHAN_WRITER", "CHAN_READER"} :
           EndOf(t, p) \in Range(endQ'[c]) <=> EndOf(t, p) \in Range(endQ[c])
  PROVE  Offer(p)' = Offer(p)
<1>1. \A t \in {"CHAN_WRITER", "CHAN_READER"} : WaitingOn(p, t)' = WaitingOn(p, t)
  BY WaitingRange
<1> QED BY <1>1 DEF Offer

\* What a queued end offers.
LEMMA EndOffers ==
  ASSUME CInv, Live, NEW c \in Chans, NEW e \in Range(endQ[c])
  PROVE  /\ e \in ChanEnd
         /\ Offer(e.proc) =
              [dir |-> IF e.type = "CHAN_WRITER" THEN "write" ELSE "read", on |-> {c}]
<1>1. e \in ChanEnd
  <2>1. endQ[c] \in Seq(ChanEnd)
    BY DEF CInv, ChanTypeOK
  <2> QED BY <2>1, RangeOfSeq
<1>2. e = EndOf(e.type, e.proc) /\ e.type \in {"CHAN_WRITER", "CHAN_READER"}
  BY <1>1 DEF ChanEnd, EndOf
<1>3. ASSUME NEW t, NEW d \in Chans, EndOf(t, e.proc) \in Range(endQ[d])
      PROVE  d = c /\ t = e.type
  <2>1. EndOf(t, e.proc).proc = e.proc /\ EndOf(t, e.proc).type = t
    BY DEF EndOf
  <2>2. d = c /\ EndOf(t, e.proc) = e
    BY <1>3, <2>1 DEF CInv, OneEnd
  <2> QED BY <2>1, <2>2
<1>4. ASSUME NEW t PROVE WaitingOn(e.proc, t) = IF t = e.type THEN {c} ELSE {}
  <2>1. WaitingOn(e.proc, t) = {d \in Chans : EndOf(t, e.proc) \in Range(endQ[d])}
    BY WaitingRange
  <2>2. \A d \in Chans : EndOf(t, e.proc) \in Range(endQ[d]) <=> d = c /\ t = e.type
    BY <1>2, <1>3
  <2> QED BY <2>1, <2>2
<1> QED BY <1>1, <1>2, <1>4 DEF Offer

\* An offer comes from a queued end.
LEMMA OfferedEnd ==
  ASSUME NEW p, NEW c
  PROVE  /\ Offer(p).dir = "write" /\ c \in Offer(p).on
              => c \in Chans /\ EndOf("CHAN_WRITER", p) \in Range(endQ[c])
         /\ Offer(p).dir = "read" /\ c \in Offer(p).on
              => c \in Chans /\ EndOf("CHAN_READER", p) \in Range(endQ[c])
         /\ Offer(p).dir # "alt"
BY WaitingRange DEF Offer

\* Waking the PROC at the head withdraws its offer and no other.
LEMMA AcceptOffer ==
  ASSUME CInv, Live, NEW c \in Chans, endQ[c] # <<>>, Dequeue(c), NEW p \in Proc
  PROVE  Offer(p)' = IF p = Head(endQ[c]).proc THEN Meeting!NoOffer ELSE Offer(p)
<1>1. CASE p = Head(endQ[c]).proc
  <2>1. ~Queued(p)'
    BY <1>1, DequeueFacts
  <2> QED BY <1>1, <2>1, NoEndNoOffer
<1>2. CASE p # Head(endQ[c]).proc
  <2>1. \A t : EndOf(t, p) # Head(endQ[c])
    BY <1>2 DEF EndOf
  <2>2. \A d \in Chans : Range(endQ'[d]) = IF d = c THEN Range(endQ[c]) \ {Head(endQ[c])}
                                                    ELSE Range(endQ[d])
    BY DequeueFacts
  <2>3. \A d \in Chans, t \in {"CHAN_WRITER", "CHAN_READER"} :
          EndOf(t, p) \in Range(endQ'[d]) <=> EndOf(t, p) \in Range(endQ[d])
    BY <2>1, <2>2
  <2> QED BY <1>2, <2>3, SameOffer
<1> QED BY <1>1, <1>2

\* Queueing up makes the running PROC's offer and changes no other.
LEMMA EnqueueOffer ==
  ASSUME CInv, pc = "proc", NEW c \in Chans, NEW t \in {"CHAN_WRITER", "CHAN_READER"},
         \A f \in Range(endQ[c]) : f.type = t,
         endQ' = [endQ EXCEPT ![c] = Append(@, [type |-> t, proc |-> curr_proc])],
         NEW p \in Proc
  PROVE  Offer(p)' =
           IF p = curr_proc
           THEN [dir |-> IF t = "CHAN_WRITER" THEN "write" ELSE "read", on |-> {c}]
           ELSE Offer(p)
<1> DEFINE e == EndOf(t, curr_proc)
<1>1. Live /\ curr_proc \in Proc /\ ~Queued(curr_proc)
  BY CurrentFree
<1>2. e \in ChanEnd /\ e.type = t /\ e.proc = curr_proc
  BY <1>1 DEF ChanEnd, EndOf
<1>3. endQ' = [endQ EXCEPT ![c] = Append(@, e)]
  BY DEF EndOf
<1> HIDE DEF e
<1>4. \A d \in Chans :
        Range(endQ'[d]) = IF d = c THEN Range(endQ[c]) \cup {e} ELSE Range(endQ[d])
  BY <1>1, <1>2, <1>3, EnqueueFacts
<1>5. \A u, q : EndOf(u, q) = e <=> u = t /\ q = curr_proc
  BY DEF e, EndOf
<1>6. CASE p = curr_proc
  <2>1. \A d \in Chans : \A u : EndOf(u, p) \notin Range(endQ[d])
    BY <1>1, <1>6 DEF Queued, EndOf
  <2>2. \A u : WaitingOn(p, u)' = IF u = t THEN {c} ELSE {}
    BY <1>4, <1>5, <1>6, <2>1, WaitingRange
  <2> QED BY <1>6, <2>2 DEF Offer
<1>7. CASE p # curr_proc
  <2>1. \A d \in Chans, u \in {"CHAN_WRITER", "CHAN_READER"} :
          EndOf(u, p) \in Range(endQ'[d]) <=> EndOf(u, p) \in Range(endQ[d])
    BY <1>4, <1>5, <1>7
  <2> QED BY <1>7, <2>1, SameOffer
<1> QED BY <1>6, <1>7

\* Every step is one of Rendezvous or changes nothing there.
LEMMA RendezvousStep ==
  ASSUME CInv, [ChanNext]_<<schedVars, chanVars>>
  PROVE  [Meeting!RendezvousNext]_(Meeting!rendezvousVars)
<1> DEFINE offer == [p \in Proc |-> Offer(p)]
<1>1. data \in [Proc -> Data \cup {NULL}]
  BY DEF CInv, ChanTypeOK
<1>2. CASE UNCHANGED chanVars
  <2>1. \A p \in Proc : Offer(p)' = Offer(p)
    BY <1>2, SameOffer DEF chanVars
  <2>2. offer' = offer
    BY <2>1
  <2> QED BY <1>2, <2>2 DEF Meeting!rendezvousVars, chanVars
<1>3. ASSUME NEW c \in Chans, NEW v \in Data, WriteToReader(c, v)
      PROVE  Meeting!RendezvousNext
  <2> DEFINE q == Head(endQ[c]).proc
  <2>1. /\ pc = "proc" /\ Live /\ endQ[c] # <<>> /\ Head(endQ[c]).type = "CHAN_READER"
        /\ Dequeue(c) /\ data' = [data EXCEPT ![q] = v]
    BY <1>3 DEF WriteToReader, FirstIs, chan_copydata, Live
  <2>2. curr_proc \in Proc /\ Offer(curr_proc) = Meeting!NoOffer
    BY <2>1, CurrentFree, NoEndNoOffer
  <2>3. q \in Proc /\ Offer(q) = [dir |-> "read", on |-> {c}]
    BY <2>1, HeadParked, EndOffers DEF ChanEnd
  <2>4. \A p \in Proc : Offer(p)' = IF p = q THEN Meeting!NoOffer ELSE Offer(p)
    BY <2>1, AcceptOffer
  <2> HIDE DEF q
  <2>5. offer' = [offer EXCEPT ![q] = Meeting!NoOffer]
    BY <2>3, <2>4
  <2>6. Meeting!Send(curr_proc, c, v, q)
    BY <2>1, <2>2, <2>3, <2>5 DEF Meeting!Send, Meeting!Readers
  <2> QED BY <2>2, <2>3, <2>6 DEF Meeting!RendezvousNext
<1>4. ASSUME NEW c \in Chans, ReadFromWriter(c)
      PROVE  Meeting!RendezvousNext
  <2> DEFINE q == Head(endQ[c]).proc
  <2>1. /\ pc = "proc" /\ Live /\ endQ[c] # <<>> /\ Head(endQ[c]).type = "CHAN_WRITER"
        /\ Dequeue(c) /\ data' = [data EXCEPT ![curr_proc] = data[q]]
    BY <1>4 DEF ReadFromWriter, TakeFromWriter, FirstIs, chan_copydata, Live
  <2>2. curr_proc \in Proc /\ Offer(curr_proc) = Meeting!NoOffer
    BY <2>1, CurrentFree, NoEndNoOffer
  <2>3. q \in Proc /\ Offer(q) = [dir |-> "write", on |-> {c}]
    BY <2>1, HeadParked, EndOffers DEF ChanEnd
  <2>4. \A p \in Proc : Offer(p)' = IF p = q THEN Meeting!NoOffer ELSE Offer(p)
    BY <2>1, AcceptOffer
  <2> HIDE DEF q
  <2>5. offer' = [offer EXCEPT ![q] = Meeting!NoOffer]
    BY <2>3, <2>4
  <2>6. Meeting!Receive(curr_proc, c, q)
    BY <2>1, <2>2, <2>3, <2>5 DEF Meeting!Receive, Meeting!Writers
  <2> QED BY <2>2, <2>3, <2>6 DEF Meeting!RendezvousNext
<1>5. ASSUME NEW c \in Chans, NEW v \in Data, WriteEnqueue(c, v)
      PROVE  Meeting!RendezvousNext
  <2>1. /\ pc = "proc" /\ ~FirstIs(c, "CHAN_READER")
        /\ endQ' = [endQ EXCEPT ![c] =
                      Append(@, [type |-> "CHAN_WRITER", proc |-> curr_proc])]
        /\ data' = [data EXCEPT ![curr_proc] = v]
    BY <1>5 DEF WriteEnqueue
  <2>2. curr_proc \in Proc /\ Offer(curr_proc) = Meeting!NoOffer
    BY <2>1, CurrentFree, NoEndNoOffer
  <2>3. \A f \in Range(endQ[c]) : f.type = "CHAN_WRITER"
    BY <2>1, HeadTells DEF ChanEnd
  <2>4. \A p \in Proc : Offer(p)' = IF p = curr_proc THEN [dir |-> "write", on |-> {c}]
                                                    ELSE Offer(p)
    BY <2>1, <2>3, EnqueueOffer
  <2>5. offer' = [offer EXCEPT ![curr_proc] = [dir |-> "write", on |-> {c}]]
    BY <2>2, <2>4
  <2>6. Meeting!Readers(c) = {}
    <3>1. \A p : EndOf("CHAN_READER", p) \notin Range(endQ[c])
      BY <2>3 DEF EndOf
    <3> QED BY <3>1, OfferedEnd DEF Meeting!Readers
  <2>7. Meeting!WaitToSend(curr_proc, c, v)
    BY <2>1, <2>2, <2>5, <2>6 DEF Meeting!WaitToSend
  <2> QED BY <2>2, <2>7 DEF Meeting!RendezvousNext
<1>6. ASSUME NEW c \in Chans, ReadEnqueue(c)
      PROVE  Meeting!RendezvousNext
  <2>1. /\ pc = "proc" /\ ~FirstIs(c, "CHAN_WRITER")
        /\ endQ' = [endQ EXCEPT ![c] =
                      Append(@, [type |-> "CHAN_READER", proc |-> curr_proc])]
        /\ UNCHANGED data
    BY <1>6 DEF ReadEnqueue
  <2>2. curr_proc \in Proc /\ Offer(curr_proc) = Meeting!NoOffer
    BY <2>1, CurrentFree, NoEndNoOffer
  <2>3. \A f \in Range(endQ[c]) : f.type = "CHAN_READER"
    BY <2>1, HeadTells DEF ChanEnd
  <2>4. \A p \in Proc : Offer(p)' = IF p = curr_proc THEN [dir |-> "read", on |-> {c}]
                                                    ELSE Offer(p)
    BY <2>1, <2>3, EnqueueOffer
  <2>5. offer' = [offer EXCEPT ![curr_proc] = [dir |-> "read", on |-> {c}]]
    BY <2>2, <2>4
  <2>6. Meeting!Writers(c) = {}
    <3>1. \A p : EndOf("CHAN_WRITER", p) \notin Range(endQ[c])
      BY <2>3 DEF EndOf
    <3> QED BY <3>1, OfferedEnd DEF Meeting!Writers
  <2>7. Meeting!WaitToReceive(curr_proc, "read", {c})
    BY <2>1, <2>2, <2>5, <2>6 DEF Meeting!WaitToReceive
  <2> QED BY <2>2, <2>7 DEF Meeting!RendezvousNext
<1> QED BY <1>2, <1>3, <1>4, <1>5, <1>6 DEF ChanNext, NoChanStep, chanVars

\* Channels implement rendezvous, whatever the number of PROCs, channels and
\* values: every value written is received once, by a reader of that channel, and
\* nobody queues while a partner is queued.
THEOREM ChannelsMeet == ChanSpec => ImplementsRendezvous
<1>1. SchedInit /\ ChanInit => Meeting!RendezvousInit
  <2> SUFFICES ASSUME ChanInit PROVE Meeting!RendezvousInit
    OBVIOUS
  <2>1. \A c \in Chans : endQ[c] = <<>>
    BY DEF ChanInit
  <2>2. Range(<<>>) = {}
    BY DEF Range
  <2>3. \A p \in Proc : ~Queued(p)
    BY <2>1, <2>2 DEF Queued
  <2>4. \A p \in Proc : Offer(p) = Meeting!NoOffer
    BY <2>3, NoEndNoOffer
  <2> QED BY <2>4 DEF Meeting!RendezvousInit, ChanInit
<1>2. CInv /\ [ChanNext]_<<schedVars, chanVars>>
        => [Meeting!RendezvousNext]_(Meeting!rendezvousVars)
  BY RendezvousStep
<1>3. CInv /\ [ChanNext]_<<schedVars, chanVars>> => CInv'
  BY ChanStep
<1> QED
  BY <1>1, <1>2, <1>3, ChanStart, PTL
     DEF ChanSpec, ImplementsRendezvous, Meeting!RendezvousSpec

-----------------------------------------------------------------------------
(* The altsleep tree with one timer at most *)

\* The fields of time guards that hang alone.
NoKids == [s \in {"left", "right"} |-> [n \in Proc |-> NULL]]
NoParents == [n \in Proc |-> NULL]
Blacks == [n \in Proc |-> "BLACK"]

\* A tree without links, whose root is x.
Bare(x, colors) == [root |-> x, kid |-> NoKids, parent |-> NoParents, color |-> colors]

\* The tree whose root is x and only node, or the empty one when x is NULL.
Lone(x) == Bare(x, Blacks)

\* The assignments of RB_INSERT, RB_REMOVE and calloc, one by one.
ClearLeft(t, n) == [t EXCEPT !.kid.left[n] = NULL]
ClearRight(t, n) == [t EXCEPT !.kid.right[n] = NULL]
ClearParent(t, n) == [t EXCEPT !.parent[n] = NULL]
SetRoot(t, n) == [t EXCEPT !.root = n]

\* On such a tree they change nothing but the root and the colors.
LEMMA BareFields ==
  ASSUME NEW p \in Proc, NEW x, NEW c
  PROVE  /\ ClearLeft(Bare(x, c), p) = Bare(x, c)
         /\ ClearRight(Bare(x, c), p) = Bare(x, c)
         /\ ClearParent(Bare(x, c), p) = Bare(x, c)
         /\ \A y : SetRoot(Bare(x, c), y) = Bare(y, c)
         /\ \A b : RB!Paint(Bare(x, c), p, b) = Bare(x, [c EXCEPT ![p] = b])
<1>1. /\ [NoKids EXCEPT !.left[p] = NULL] = NoKids
      /\ [NoKids EXCEPT !.right[p] = NULL] = NoKids
  BY DEF NoKids
<1>2. [NoParents EXCEPT ![p] = NULL] = NoParents
  BY DEF NoParents
<1>3. ClearLeft(Bare(x, c), p) = Bare(x, c)
  BY <1>1 DEF Bare, ClearLeft
<1>4. ClearRight(Bare(x, c), p) = Bare(x, c)
  BY <1>1 DEF Bare, ClearRight
<1>5. ClearParent(Bare(x, c), p) = Bare(x, c)
  BY <1>2 DEF Bare, ClearParent
<1>6. ASSUME NEW y PROVE SetRoot(Bare(x, c), y) = Bare(y, c)
  BY DEF Bare, SetRoot
<1>7. ASSUME NEW b PROVE RB!Paint(Bare(x, c), p, b) = Bare(x, [c EXCEPT ![p] = b])
  BY DEF Bare, RB!Paint
<1> QED BY <1>3, <1>4, <1>5, <1>6, <1>7

\* RB_INIT makes an empty one.
LEMMA LoneStart == RB!RB_INIT = Lone(NULL)
BY DEF RB!RB_INIT, Lone, Bare, NoKids, NoParents, Blacks, RB!Side

\* The number of rounds of a loop over the nodes.
LEMMA LoopRounds == RB!Cardinality(Proc) = Cardinality(Proc) /\ Cardinality(Proc) \in Nat
<1>1. RB!Cardinality(Proc) = Cardinality(Proc)
  BY DEF RB!Cardinality, Cardinality
<1> QED BY <1>1, SchedAssumption, FS_CardinalityType

\* Its nodes.
LEMMA LoneLinked ==
  ASSUME NEW x \in Proc \cup {NULL}
  PROVE  RB!Linked(Lone(x)) = {x} \ {NULL}
<1> DEFINE N == Cardinality(Proc)
           start == {x} \ {NULL}
           step(S) == S \cup RB!Kids(Lone(x), S)
           it == CHOOSE it : it = [i \in 0..N |-> IF i = 0 THEN start ELSE step(it[i - 1])]
<1>1. N \in Nat
  BY LoopRounds
<1>2. step(start) = start
  BY DEF RB!Kids, Lone, Bare, NoKids, RB!Side
<1>3. RB!Linked(Lone(x)) = it[N]
  BY LoopRounds DEF RB!Linked, RB!Below, RB!Loop, Lone, Bare
<1> HIDE DEF start, N, step
<1>4. it = [i \in 0..N |-> IF i = 0 THEN start ELSE step(it[i - 1])]
  <2> DEFINE f == [i \in 0..N |-> start]
  <2>1. f = [i \in 0..N |-> IF i = 0 THEN start ELSE step(f[i - 1])]
    <3>1. ASSUME NEW i \in 0..N, i # 0 PROVE f[i - 1] = start
      BY <1>1, <3>1
    <3> HIDE DEF f
    <3>2. \A i \in 0..N : start = IF i = 0 THEN start ELSE step(f[i - 1])
      BY <1>2, <3>1
    <3> QED BY <3>2 DEF f
  <2> QED BY <2>1
<1> HIDE DEF it
<1>5. it[0] = start /\ \A i \in 1..N : it[i - 1] = start => it[i] = start
  BY <1>1, <1>2, <1>4
<1>6. it[N] = start
  BY <1>1, <1>5, Constantly
<1> QED BY <1>3, <1>6 DEF start

\* The walk to the left ends where there is no left child.
LEMMA LeftmostLeaf ==
  ASSUME NEW t, NEW n, t.kid.left[n] = NULL
  PROVE  RB!Leftmost(t, n) = n
<1> DEFINE N == Cardinality(Proc)
           start == n
           step(x) == IF t.kid.left[x] = NULL THEN x ELSE t.kid.left[x]
           it == CHOOSE it : it = [i \in 0..N |-> IF i = 0 THEN start ELSE step(it[i - 1])]
<1>1. N \in Nat
  BY LoopRounds
<1>2. step(start) = start
  OBVIOUS
<1>3. RB!Leftmost(t, n) = it[N]
  BY LoopRounds DEF RB!Leftmost, RB!Loop
<1> HIDE DEF start, N, step
<1>4. it = [i \in 0..N |-> IF i = 0 THEN start ELSE step(it[i - 1])]
  <2> DEFINE f == [i \in 0..N |-> start]
  <2>1. f = [i \in 0..N |-> IF i = 0 THEN start ELSE step(f[i - 1])]
    <3>1. ASSUME NEW i \in 0..N, i # 0 PROVE f[i - 1] = start
      BY <1>1, <3>1
    <3> HIDE DEF f
    <3>2. \A i \in 0..N : start = IF i = 0 THEN start ELSE step(f[i - 1])
      BY <1>2, <3>1
    <3> QED BY <3>2 DEF f
  <2> QED BY <2>1
<1> HIDE DEF it
<1>5. it[0] = start /\ \A i \in 1..N : it[i - 1] = start => it[i] = start
  BY <1>1, <1>2, <1>4
<1>6. it[N] = start
  BY <1>1, <1>5, Constantly
<1> QED BY <1>3, <1>6 DEF start

\* The descent into an empty tree ends at once.
LEMMA DescendEmpty ==
  ASSUME NEW t, t.root = NULL, NEW key, NEW k
  PROVE  RB!Descend(t, key, k) = [tmp |-> NULL, parent |-> NULL, side |-> "left", hit |-> FALSE]
<1> DEFINE N == Cardinality(Proc)
           start == [tmp |-> NULL, parent |-> NULL, side |-> "left", hit |-> FALSE]
           step(x) ==
             IF x.tmp = NULL \/ x.hit THEN x
             ELSE IF k = key[x.tmp] THEN [x EXCEPT !.hit = TRUE]
             ELSE LET s == IF k < key[x.tmp] THEN "left" ELSE "right"
                  IN  [tmp |-> t.kid[s][x.tmp], parent |-> x.tmp, side |-> s, hit |-> FALSE]
           it == CHOOSE it : it = [i \in 0..N |-> IF i = 0 THEN start ELSE step(it[i - 1])]
<1>1. N \in Nat
  BY LoopRounds
<1>2. step(start) = start
  OBVIOUS
<1>3. RB!Descend(t, key, k) = step(it[N])
  BY LoopRounds DEF RB!Descend, RB!Loop
<1> HIDE DEF start, N, step
<1>4. it = [i \in 0..N |-> IF i = 0 THEN start ELSE step(it[i - 1])]
  <2> DEFINE f == [i \in 0..N |-> start]
  <2>1. f = [i \in 0..N |-> IF i = 0 THEN start ELSE step(f[i - 1])]
    <3>1. ASSUME NEW i \in 0..N, i # 0 PROVE f[i - 1] = start
      BY <1>1, <3>1
    <3> HIDE DEF f
    <3>2. \A i \in 0..N : start = IF i = 0 THEN start ELSE step(f[i - 1])
      BY <1>2, <3>1
    <3> QED BY <3>2 DEF f
  <2> QED BY <2>1
<1> HIDE DEF it
<1>5. it[0] = start /\ \A i \in 1..N : it[i - 1] = start => it[i] = start
  BY <1>1, <1>2, <1>4
<1>6. it[N] = start
  BY <1>1, <1>5, Constantly
<1> QED BY <1>2, <1>3, <1>6 DEF start

\* RB_INSERT_COLOR of a root paints it.
LEMMA InsertedRoot ==
  ASSUME NEW t, NEW n, t.parent[n] = NULL
  PROVE  RB!RB_INSERT_COLOR(t, n) = RB!Paint(t, t.root, "BLACK")
<1> DEFINE N == Cardinality(Proc)
           start == [t |-> t, elm |-> n]
           step(x) == RB!InsertColorStep(x)
           it == CHOOSE it : it = [i \in 0..N |-> IF i = 0 THEN start ELSE step(it[i - 1])]
<1>1. N \in Nat
  BY LoopRounds
<1>2. step(start) = start
  BY DEF RB!InsertColorStep
<1>3. RB!RB_INSERT_COLOR(t, n) = RB!Paint(it[N].t, it[N].t.root, "BLACK")
  BY LoopRounds DEF RB!RB_INSERT_COLOR, RB!Loop
<1> HIDE DEF start, N, step
<1>4. it = [i \in 0..N |-> IF i = 0 THEN start ELSE step(it[i - 1])]
  <2> DEFINE f == [i \in 0..N |-> start]
  <2>1. f = [i \in 0..N |-> IF i = 0 THEN start ELSE step(f[i - 1])]
    <3>1. ASSUME NEW i \in 0..N, i # 0 PROVE f[i - 1] = start
      BY <1>1, <3>1
    <3> HIDE DEF f
    <3>2. \A i \in 0..N : start = IF i = 0 THEN start ELSE step(f[i - 1])
      BY <1>2, <3>1
    <3> QED BY <3>2 DEF f
  <2> QED BY <2>1
<1> HIDE DEF it
<1>5. it[0] = start /\ \A i \in 1..N : it[i - 1] = start => it[i] = start
  BY <1>1, <1>2, <1>4
<1>6. it[N] = start
  BY <1>1, <1>5, Constantly
<1> QED BY <1>3, <1>6 DEF start

\* RB_REMOVE_COLOR of an empty tree does nothing.
LEMMA RemovedLast ==
  ASSUME NEW t, t.root = NULL
  PROVE  RB!RB_REMOVE_COLOR(t, NULL, NULL) = t
<1> DEFINE N == Cardinality(Proc)
           start == [t |-> t, parent |-> NULL, elm |-> NULL]
           step(x) == RB!RemoveColorStep(x)
           it == CHOOSE it : it = [i \in 0..N |-> IF i = 0 THEN start ELSE step(it[i - 1])]
<1>1. N \in Nat
  BY LoopRounds
<1>2. step(start) = start
  BY DEF RB!RemoveColorStep
<1>3. RB!RB_REMOVE_COLOR(t, NULL, NULL) = IF it[N].elm = NULL THEN it[N].t ELSE RB!Paint(it[N].t, it[N].elm, "BLACK")
  BY LoopRounds DEF RB!RB_REMOVE_COLOR, RB!Loop
<1> HIDE DEF start, N, step
<1>4. it = [i \in 0..N |-> IF i = 0 THEN start ELSE step(it[i - 1])]
  <2> DEFINE f == [i \in 0..N |-> start]
  <2>1. f = [i \in 0..N |-> IF i = 0 THEN start ELSE step(f[i - 1])]
    <3>1. ASSUME NEW i \in 0..N, i # 0 PROVE f[i - 1] = start
      BY <1>1, <3>1
    <3> HIDE DEF f
    <3>2. \A i \in 0..N : start = IF i = 0 THEN start ELSE step(f[i - 1])
      BY <1>2, <3>1
    <3> QED BY <3>2 DEF f
  <2> QED BY <2>1
<1> HIDE DEF it
<1>5. it[0] = start /\ \A i \in 1..N : it[i - 1] = start => it[i] = start
  BY <1>1, <1>2, <1>4
<1>6. it[N] = start
  BY <1>1, <1>5, Constantly
<1> QED BY <1>3, <1>6 DEF start

\* The earliest timer is the only one.
LEMMA LoneMin ==
  ASSUME NEW x \in Proc \cup {NULL}
  PROVE  RB!RB_MIN(Lone(x)) = x
<1>1. Lone(x).root = x /\ (x # NULL => Lone(x).kid.left[x] = NULL)
  BY DEF Lone, Bare, NoKids
<1> QED BY <1>1, LeftmostLeaf DEF RB!RB_MIN

\* scheduler_addaltsleep of the first timer: its key is free and it becomes the root.
LEMMA LoneInsert ==
  ASSUME NEW x \in Proc, NEW key
  PROVE  /\ RB!RB_INSERT(Lone(NULL), key, x) = Lone(x)
         /\ \A k : ~RB!RB_Collides(Lone(NULL), key, k)
<1> DEFINE t == Lone(NULL)
           t1 == RB!Paint(ClearRight(ClearLeft(ClearParent(t, x), x), x), x, "RED")
           red == [Blacks EXCEPT ![x] = "RED"]
<1>1. t.root = NULL
  BY DEF Lone, Bare
<1>2. \A k : RB!Descend(t, key, k) =
               [tmp |-> NULL, parent |-> NULL, side |-> "left", hit |-> FALSE]
  <2> HIDE DEF t
  <2> QED BY <1>1, DescendEmpty
<1>3. \A k : RB!Descend(t, key, k).parent = NULL /\ ~RB!RB_Collides(t, key, k)
  BY <1>2 DEF RB!RB_Collides
<1>5. t1 = Bare(NULL, red)
  BY BareFields DEF Lone
<1> HIDE DEF t
<1>4. RB!RB_INSERT(t, key, x) = RB!RB_INSERT_COLOR(SetRoot(t1, x), x)
  <2> DEFINE d == RB!Descend(t, key, key[x])
  <2>1. d.parent = NULL
    BY <1>3
  <2> HIDE DEF d
  <2>2. [t EXCEPT !.parent[x] = d.parent, !.kid.left[x] = NULL,
                  !.kid.right[x] = NULL, !.color[x] = "RED"] = t1
    BY <2>1 DEF RB!Paint, ClearLeft, ClearRight, ClearParent
  <2> HIDE DEF t1
  <2> QED BY <2>1, <2>2 DEF RB!RB_INSERT, d, SetRoot
<1> HIDE DEF t1
<1>6. SetRoot(t1, x) = Bare(x, red)
  BY <1>5, BareFields
<1>7. RB!RB_INSERT_COLOR(Bare(x, red), x) = RB!Paint(Bare(x, red), x, "BLACK")
  <2>1. Bare(x, red).parent[x] = NULL /\ Bare(x, red).root = x
    BY DEF Bare, NoParents
  <2> QED BY <2>1, InsertedRoot
<1>8. RB!Paint(Bare(x, red), x, "BLACK") = Lone(x)
  <2>1. [red EXCEPT ![x] = "BLACK"] = Blacks
    BY DEF Blacks
  <2> HIDE DEF red
  <2> QED BY <2>1, BareFields DEF Lone
<1> QED BY <1>3, <1>4, <1>6, <1>7, <1>8 DEF t

\* RB_REMOVE of the only timer, linked or not, leaves an empty tree.
LEMMA LoneRemove ==
  ASSUME NEW p \in Proc, NEW x \in {p, NULL}
  PROVE  RB!RB_REMOVE(Lone(x), p) = Lone(NULL)
<1> DEFINE t == Lone(x)
<1>1. /\ t.kid.left[p] = NULL /\ t.kid.right[p] = NULL
      /\ t.parent[p] = NULL /\ t.color[p] = "BLACK"
  BY DEF Lone, Bare, NoKids, NoParents, Blacks
<1>2. SetRoot(t, NULL) = Lone(NULL) /\ Lone(NULL).root = NULL
  BY BareFields DEF Lone, Bare
<1> HIDE DEF t
<1>3. RB!RB_REMOVE(t, p) = RB!RemoveOuter(t, p)
  BY <1>1 DEF RB!RB_REMOVE
<1>4. RB!SetParent(t, NULL, NULL) = t
  BY DEF RB!SetParent
<1>5. RB!Relink(t, NULL, p, NULL) = SetRoot(t, NULL)
  BY DEF RB!Relink, SetRoot
<1>6. RB!RemoveOuter(t, p) = RB!RB_REMOVE_COLOR(SetRoot(t, NULL), NULL, NULL)
  BY <1>1, <1>4, <1>5 DEF RB!RemoveOuter
<1> QED BY <1>2, <1>3, <1>6, RemovedLast DEF t

\* calloc clears a time guard that is clear already.
LEMMA LoneRecycled ==
  ASSUME NEW x \in Proc \cup {NULL}, NEW p \in Proc
  PROVE  Recycled(Lone(x), p) = Lone(x)
<1>1. \A t : Recycled(t, p) =
               RB!Paint(ClearParent(ClearRight(ClearLeft(t, p), p), p), p, "BLACK")
  BY DEF Recycled, RB!Paint, ClearLeft, ClearRight, ClearParent
<1>2. [Blacks EXCEPT ![p] = "BLACK"] = Blacks
  BY DEF Blacks
<1> QED BY <1>1, <1>2, BareFields DEF Lone

-----------------------------------------------------------------------------
(* What the theorems ask of the programs *)

\* p may pass a time guard to ALT, or a guard on c.
HasTimer(p) == \E l \in Menu[p] : \E i \in DOMAIN l : l[i].type = "TIME"
HasChan(p, c) == \E l \in Menu[p] : \E i \in DOMAIN l : l[i].chan = c

\* One PROC uses time guards.  (RB_REMOVE of a guard that is not linked, which
\* alt_disable does, is harmless in a tree with no other guard only.)
OneTimer == \A p, q \in Proc : HasTimer(p) /\ HasTimer(q) => p = q

\* Nobody else uses ALT on a channel that an ALT waits on.  (When the first ALT of
\* altQ is accepted but has not run yet, chan_write does not look at the next.)
OneAltPerChan == \A p, q \in Proc, c \in Chans : HasChan(p, c) /\ HasChan(q, c) => p = q

\* No time guard is due at the time stamp 0, which alt_enable takes for no timer.
NeverDueAtZero ==
  \A p \in Proc : \A l \in Menu[p] : \A i \in DOMAIN l, t \in 0..MaxTime :
    l[i].type = "TIME" => (t + l[i].usec) % TimeMod # 0

-----------------------------------------------------------------------------
(* The invariant *)

\* The positions of p in q.
Places(q, p) == {i \in DOMAIN q : q[i] = p}

\* Those that are in K.
PlacesIn(q, K, p) == {i \in DOMAIN q : i \in K /\ q[i] = p}

\* The guards of p on c.
OnChannel(gs, c) == {i \in DOMAIN gs : gs[i].chan = c}
GuardsOn(p, c) == OnChannel(guards[p], c)

\* The types of all variables but the tree.
Typed ==
  /\ phase \in [Proc -> Phase]
  /\ guards \in [Proc -> Seq(Guard)]
  /\ is_accepted \in [Proc -> BOOLEAN]
  /\ winner \in [Proc -> Nat]
  /\ altQ \in [Chans -> Seq(Proc)]
  /\ usec \in [Proc -> Nat]
  /\ clock \in 0..MaxTime

\* The tree holds the timer of an ALT that waits, or nothing.
OneLeaf ==
  \E x \in Proc \cup {NULL} :
    /\ altsleep = Lone(x)
    /\ x # NULL => phase[x] = "wait" /\ TimeGuard(guards[x]) # 0

\* The guards of a PROC are among those it may pass.
FromMenu ==
  \A p \in Proc : /\ TimeGuard(guards[p]) # 0 => HasTimer(p)
                  /\ \A c \in Chans : GuardsOn(p, c) # {} => HasChan(p, c)

\* The links in altQ, as in AltQSound, and after scheduler_run too.
Linked ==
  \A p \in Proc, c \in Chans :
    Cardinality(Places(altQ[c], p)) =
      IF phase[p] = "wait" THEN Cardinality(GuardsOn(p, c)) ELSE 0

\* PROC_ALTWAIT is the state of exactly the ALTs that nobody has accepted, and
\* the others have a winner.
Accepted ==
  \A p \in Proc :
    /\ state[p] = "ALTWAIT" <=> phase[p] = "wait" /\ ~is_accepted[p]
    /\ phase[p] = "wait" /\ is_accepted[p] => winner[p] \in DOMAIN guards[p]

\* The timer of an ALT nobody has accepted is the one in the tree.
Armed ==
  \A p \in Proc :
    phase[p] = "wait" /\ ~is_accepted[p] /\ TimeGuard(guards[p]) # 0 => altsleep = Lone(p)

\* The inductive invariant.
AInv ==
  /\ CInv /\ Typed /\ OneLeaf /\ FromMenu /\ Linked
  /\ Live => Accepted /\ (NeverDueAtZero => Armed)

-----------------------------------------------------------------------------
(* Building the guards *)

\* The positions of r in a queue to which x is added.
LEMMA OneMorePlace ==
  ASSUME NEW S, NEW s \in Seq(S), NEW x \in S, NEW r
  PROVE  /\ IsFiniteSet(Places(s, r)) /\ Cardinality(Places(s, r)) \in Nat
         /\ Cardinality(Places(Append(s, x), r)) =
              Cardinality(Places(s, r)) + IF x = r THEN 1 ELSE 0
<1> DEFINE n == Len(s)
<1>1. /\ n \in Nat /\ DOMAIN s = 1..n /\ DOMAIN Append(s, x) = 1..n + 1
      /\ Append(s, x)[n + 1] = x /\ \A i \in 1..n : Append(s, x)[i] = s[i]
  BY LenProperties, AppendProperties
<1>2. IsFiniteSet(1..n)
  BY <1>1, FS_Interval
<1>3. Places(s, r) \subseteq 1..n
  BY <1>1 DEF Places
<1>4. IsFiniteSet(Places(s, r)) /\ Cardinality(Places(s, r)) \in Nat
  BY <1>2, <1>3, FS_Subset, FS_CardinalityType
<1>5. CASE x = r
  <2>1. Places(Append(s, x), r) = Places(s, r) \cup {n + 1}
    BY <1>1, <1>5 DEF Places
  <2>2. n + 1 \notin Places(s, r)
    BY <1>1, <1>3
  <2> QED BY <1>4, <1>5, <2>1, <2>2, FS_AddElement
<1>6. CASE x # r
  <2>1. Places(Append(s, x), r) = Places(s, r)
    BY <1>1, <1>6 DEF Places
  <2> QED BY <1>4, <1>6, <2>1
<1> QED BY <1>4, <1>5, <1>6

\* A part of a queue holds each element as often as the chosen positions do.
LEMMA SubqueueFacts ==
  ASSUME NEW S, NEW q \in Seq(S), NEW K
  PROVE  /\ Subqueue(q, K) \in Seq({q[i] : i \in K \cap DOMAIN q})
         /\ \A r : Cardinality(Places(Subqueue(q, K), r)) =
                     Cardinality(PlacesIn(q, K, r))
<1> DEFINE N == Len(q)
           R == {q[i] : i \in K \cap DOMAIN q}
           T == Seq(R)
           next(i, s) == IF i \in K THEN Append(s, q[i]) ELSE s
           g == [i \in 1..N |-> [s \in T |-> next(i, s)]]
           k == CHOOSE k : k = [i \in 0..N |-> IF i = 0 THEN <<>>
                                               ELSE IF i \in K THEN Append(k[i - 1], q[i])
                                               ELSE k[i - 1]]
<1>1. N \in Nat /\ DOMAIN q = 1..N
  BY LenProperties
<1>2. Subqueue(q, K) = k[N]
  BY DEF Subqueue
<1>3. \A i \in 1..N, s \in T : (i \in K => q[i] \in R) /\ next(i, s) \in T
  <2> TAKE i \in 1..N, s \in T
  <2>1. CASE i \in K
    <3>1. q[i] \in R
      BY <1>1, <2>1
    <3> HIDE DEF R
    <3> QED BY <2>1, <3>1, AppendProperties
  <2>2. CASE i \notin K
    BY <2>2
  <2> QED BY <2>1, <2>2
<1>4. PICK f \in [0..N -> T] : f[0] = <<>> /\ \A i \in 1..N : f[i] = g[i][f[i - 1]]
  <2>1. g \in [1..N -> [T -> T]]
    BY <1>3
  <2> DEFINE a == <<>>
  <2>2. a \in T
    OBVIOUS
  <2>3. N \in Nat
    BY <1>1
  <2> HIDE DEF g, T, N, a
  <2>4. \E f : Records(f, T, a, N, g)
    BY <2>1, <2>2, <2>3, Iterates
  <2> QED BY <2>4 DEF a, Records
<1>5. f = [i \in 0..N |-> IF i = 0 THEN <<>>
                          ELSE IF i \in K THEN Append(f[i - 1], q[i])
                          ELSE f[i - 1]]
  <2>1. ASSUME NEW i \in 0..N, i # 0 PROVE i \in 1..N /\ f[i - 1] \in T
    BY <1>1, <2>1
  <2>2. ASSUME NEW i \in 1..N, f[i - 1] \in T PROVE f[i] = next(i, f[i - 1])
    <3> HIDE DEF next
    <3> QED BY <1>4, <2>2
  <2> HIDE DEF T, N
  <2>3. \A i \in 0..N : f[i] = IF i = 0 THEN <<>>
                               ELSE IF i \in K THEN Append(f[i - 1], q[i])
                               ELSE f[i - 1]
    BY <1>4, <2>1, <2>2
  <2> QED BY <2>3
<1> HIDE DEF T
<1>6. k = [i \in 0..N |-> IF i = 0 THEN <<>>
                          ELSE IF i \in K THEN Append(k[i - 1], q[i])
                          ELSE k[i - 1]]
  <2> HIDE DEF N
  <2> QED BY <1>5
<1> HIDE DEF k, N
<1> DEFINE Seen(m, r) == {i \in 1..m : i \in K /\ q[i] = r}
           Good(m) == /\ k[m] \in T
                      /\ \A r : Cardinality(Places(k[m], r)) = Cardinality(Seen(m, r))
           Bad == {m \in Nat : m <= N /\ ~Good(m)}
<1>7. Good(0)
  <2>1. k[0] = <<>> /\ <<>> \in T
    BY <1>1, <1>6 DEF T
  <2>2. ASSUME NEW r PROVE Places(k[0], r) = {} /\ Seen(0, r) = {}
    BY <2>1 DEF Places
  <2> HIDE DEF Seen
  <2> QED BY <2>1, <2>2
<1>8. ASSUME NEW m \in 1..N, Good(m - 1) PROVE Good(m)
  <2>1. m \in 0..N /\ m # 0
    BY <1>1
  <2>2. k[m] = next(m, k[m - 1])
    BY <1>6, <2>1
  <2>3. k[m] \in T
    BY <1>3, <1>8, <2>2
  <2>4. ASSUME NEW r PROVE Cardinality(Places(k[m], r)) = Cardinality(Seen(m, r))
    <3>1. Cardinality(Places(k[m - 1], r)) = Cardinality(Seen(m - 1, r))
      BY <1>8
    <3>2. IsFiniteSet(Seen(m - 1, r)) /\ Cardinality(Seen(m - 1, r)) \in Nat
      <4>1. m - 1 \in Int
        BY <1>1
      <4>2. IsFiniteSet(1..m - 1) /\ Seen(m - 1, r) \subseteq 1..m - 1
        <5>1. IsFiniteSet(1..m - 1)
          BY <4>1, FS_Interval
        <5> QED BY <5>1
      <4> HIDE DEF Seen
      <4> QED BY <4>2, FS_Subset, FS_CardinalityType
    <3>3. CASE m \in K /\ q[m] = r
      <4>1. Seen(m, r) = Seen(m - 1, r) \cup {m} /\ m \notin Seen(m - 1, r)
        BY <1>1, <3>3
      <4>2. Cardinality(Seen(m, r)) = Cardinality(Seen(m - 1, r)) + 1
        <5> HIDE DEF Seen
        <5> QED BY <3>2, <4>1, FS_AddElement
      <4>3. q[m] \in R /\ k[m - 1] \in Seq(R) /\ k[m] = Append(k[m - 1], q[m])
        BY <1>3, <1>8, <2>2, <3>3 DEF T
      <4>4. Cardinality(Places(k[m], r)) = Cardinality(Places(k[m - 1], r)) + 1
        <5> HIDE DEF R, Seen
        <5> QED BY <3>3, <4>3, OneMorePlace
      <4> HIDE DEF Seen
      <4> QED BY <3>1, <4>2, <4>4
    <3>4. CASE ~(m \in K /\ q[m] = r)
      <4>1. Seen(m, r) = Seen(m - 1, r)
        BY <1>1, <3>4
      <4>2. Cardinality(Places(k[m], r)) = Cardinality(Places(k[m - 1], r))
        <5>1. CASE m \in K
          <6>1. q[m] \in R /\ k[m - 1] \in Seq(R) /\ k[m] = Append(k[m - 1], q[m])
            BY <1>3, <1>8, <2>2, <5>1 DEF T
          <6> HIDE DEF R, Seen
          <6>2. Cardinality(Places(k[m], r)) = Cardinality(Places(k[m - 1], r)) + 0
            BY <3>4, <5>1, <6>1, OneMorePlace
          <6>3. Cardinality(Places(k[m - 1], r)) \in Nat
            BY <3>1, <3>2
          <6> QED BY <6>2, <6>3
        <5>2. CASE m \notin K
          BY <2>2, <5>2
        <5> QED BY <5>1, <5>2
      <4> HIDE DEF Seen
      <4> QED BY <3>1, <4>1, <4>2
    <3> QED BY <3>3, <3>4
  <2> QED BY <2>3, <2>4
<1>9. ASSUME Bad # {} PROVE FALSE
  <2> HIDE DEF Good
  <2>1. PICK m \in Bad : \A j \in Bad : m <= j
    BY <1>9, NatMin
  <2>2. m # 0 /\ m \in Nat /\ m <= N
    BY <1>7
  <2>3. m - 1 \in Nat /\ m - 1 <= N /\ ~(m <= m - 1) /\ m \in 1..N
    BY <1>1, <2>2
  <2>4. Good(m - 1)
    BY <2>1, <2>3
  <2> QED BY <1>8, <2>3, <2>4
<1>10. Good(N)
  <2> HIDE DEF Good
  <2> QED BY <1>1, <1>9
<1>11. ASSUME NEW r PROVE PlacesIn(q, K, r) = Seen(N, r)
  BY <1>1 DEF PlacesIn
<1> HIDE DEF Seen
<1> QED BY <1>2, <1>10, <1>11 DEF T

\* The guards that alt_addguard keeps are active ones of the list.
LEMMA KeptOnes ==
  ASSUME NEW l \in Seq(GuardSpec)
  PROVE  Kept(l) \in Seq({i \in 1..Len(l) : Keeps(l, i)})
<1> DEFINE q == [i \in 1..Len(l) |-> i]
           K == {i \in 1..Len(l) : Keeps(l, i)}
<1>1. Len(l) \in Nat
  BY LenProperties
<1>2. q \in Seq(1..Len(l)) /\ DOMAIN q = 1..Len(l)
  BY <1>1
<1>3. {q[i] : i \in K \cap DOMAIN q} = K
  OBVIOUS
<1>4. Kept(l) = Subqueue(q, K)
  BY DEF Kept
<1> HIDE DEF q
<1> QED BY <1>2, <1>3, <1>4, SubqueueFacts

\* Unlinking the guards of p leaves those of the others.
LEMMA WithoutFacts ==
  ASSUME NEW q \in Seq(Proc), NEW p
  PROVE  /\ Without(q, p) \in Seq(Proc)
         /\ \A r : Cardinality(Places(Without(q, p), r)) =
                     IF r = p THEN 0 ELSE Cardinality(Places(q, r))
<1> DEFINE K == {i \in DOMAIN q : q[i] # p}
           R == {q[i] : i \in K \cap DOMAIN q}
<1>1. DOMAIN q = 1..Len(q) /\ \A i \in DOMAIN q : q[i] \in Proc
  BY LenProperties, ElementOfSeq
<1>2. R \subseteq Proc
  BY <1>1
<1>3. Without(q, p) \in Seq(R)
  BY SubqueueFacts DEF Without
<1>4. Without(q, p) \in Seq(Proc)
  <2> HIDE DEF R
  <2> QED BY <1>2, <1>3
<1>5. ASSUME NEW r PROVE Cardinality(Places(Without(q, p), r)) =
                           IF r = p THEN 0 ELSE Cardinality(Places(q, r))
  <2>1. Cardinality(Places(Without(q, p), r)) =
          Cardinality(PlacesIn(q, K, r))
    <3>1. Without(q, p) = Subqueue(q, K)
      BY DEF Without
    <3> HIDE DEF K
    <3> QED BY <3>1, SubqueueFacts
  <2>2. PlacesIn(q, K, r) = IF r = p THEN {} ELSE Places(q, r)
    BY DEF Places, PlacesIn
  <2> QED BY <2>1, <2>2, FS_EmptySet
<1> QED BY <1>4, <1>5

\* alt->guard_time is a time guard, or NULL.
LEMMA TimeGuardFacts ==
  ASSUME NEW gs \in Seq(Guard)
  PROVE  /\ TimeGuard(gs) \in Nat
         /\ TimeGuard(gs) # 0 => TimeGuard(gs) \in DOMAIN gs /\ IsTime(gs[TimeGuard(gs)])
<1> DEFINE T == {i \in DOMAIN gs : IsTime(gs[i]) /\ ~gs[i].freed}
<1>1. DOMAIN gs = 1..Len(gs) /\ Len(gs) \in Nat
  BY LenProperties
<1>2. TimeGuard(gs) = IF T = {} THEN 0 ELSE CHOOSE i \in T : TRUE
  BY DEF TimeGuard
<1>3. T # {} => (CHOOSE i \in T : TRUE) \in T
  OBVIOUS
<1> HIDE DEF T
<1>4. TimeGuard(gs) = 0 \/ TimeGuard(gs) \in T
  BY <1>2, <1>3
<1> QED BY <1>1, <1>4 DEF T

\* The guards that proxc_alt builds from its arguments l.
LEMMA GuardsBuilt ==
  ASSUME NEW p \in Proc, NEW l \in Menu[p], clock \in 0..MaxTime
  PROVE  /\ alt_addguards(l) \in Seq(Guard)
         /\ \A i \in DOMAIN alt_addguards(l) :
              LET g == alt_addguards(l)[i] IN
              /\ IsTime(g) => HasTimer(p)
              /\ g.type = "CHAN" <=> g.chan \in Chans
              /\ HasChan(p, g.chan)
              /\ g.in_chan <=> g.type = "CHAN" /\ ~FirstIs(g.chan, "CHAN_WRITER")
              /\ NeverDueAtZero /\ IsTime(g) => g.usec # 0
<1> DEFINE gs == alt_addguards(l)
           K == {i \in 1..Len(l) : Keeps(l, i)}
           n == Len(Kept(l))
           G(i) == [type |-> l[i].type, chan |-> l[i].chan,
                    usec |-> IF IsTime(l[i]) THEN (clock + l[i].usec) % TimeMod ELSE 0,
                    in_chan |-> InChan(l[i]), freed |-> Freed(l, i)]
<1>1. l \in Seq(GuardSpec)
  BY AltAssumption
<1>2. Kept(l) \in Seq(K)
  BY <1>1, KeptOnes
<1>3. n \in Nat /\ DOMAIN l = 1..Len(l) /\ \A j \in 1..n : Kept(l)[j] \in K
  <2> HIDE DEF K
  <2> QED BY <1>1, <1>2, LenProperties, ElementOfSeq
<1>4. gs = [j \in 1..n |-> G(Kept(l)[j])]
  BY DEF alt_addguards
<1>5. ASSUME NEW i \in K
      PROVE  /\ G(i) \in Guard
             /\ IsTime(G(i)) => HasTimer(p)
             /\ G(i).type = "CHAN" <=> G(i).chan \in Chans
             /\ HasChan(p, G(i).chan)
             /\ G(i).in_chan <=> G(i).type = "CHAN" /\ ~FirstIs(G(i).chan, "CHAN_WRITER")
             /\ NeverDueAtZero /\ IsTime(G(i)) => G(i).usec # 0
  <2>1. i \in DOMAIN l /\ l[i] \in GuardSpec /\ l[i].type # "NULL"
    BY <1>1, <1>3, ElementOfSeq DEF Keeps
  <2>2. /\ l[i].type \in {"SKIP", "TIME", "CHAN"} /\ l[i].chan \in Chans \cup {NULL}
        /\ l[i].usec \in Nat
    BY <2>1 DEF GuardSpec
  <2>3. (clock + l[i].usec) % TimeMod \in Nat
    BY <2>2, SchedAssumption
  <2>4. InChan(l[i]) \in BOOLEAN /\ Freed(l, i) \in BOOLEAN
    BY DEF InChan, Freed, FirstIs
  <2>5. G(i) \in Guard
    BY <2>2, <2>3, <2>4 DEF Guard
  <2>6. IsTime(G(i)) => HasTimer(p)
    BY <2>1 DEF IsTime, HasTimer
  <2>7. (G(i).type = "CHAN" <=> G(i).chan \in Chans) /\ HasChan(p, G(i).chan)
    BY <2>1, AltAssumption DEF HasChan
  <2>8. G(i).in_chan <=> G(i).type = "CHAN" /\ ~FirstIs(G(i).chan, "CHAN_WRITER")
    BY DEF InChan
  <2>9. ASSUME NeverDueAtZero, IsTime(G(i)) PROVE G(i).usec # 0
    BY <2>1, <2>9 DEF NeverDueAtZero, IsTime
  <2> QED BY <2>5, <2>6, <2>7, <2>8, <2>9
<1> HIDE DEF G, K, gs
<1>6. gs \in Seq(Guard) /\ DOMAIN gs = 1..n
  BY <1>3, <1>4, <1>5
<1>7. \A j \in DOMAIN gs : \E i \in K : gs[j] = G(i)
  BY <1>3, <1>4, <1>6
<1> QED BY <1>5, <1>6, <1>7 DEF gs

\* scheduler_addaltsleep needs no retry when there is no other timer.
LEMMA FirstKey ==
  ASSUME altsleep = Lone(NULL), NEW t \in Nat
  PROVE  AltKey(t) = t
<1>1. Main \in Proc /\ Cardinality(Proc) \in Nat
  BY SchedAssumption, LoopRounds
<1>2. \A k : ~RB!RB_Collides(altsleep, usec, k)
  BY <1>1, LoneInsert
<1>3. t \in t..t + Cardinality(Proc) /\ \A j \in t..t - 1 : FALSE
  BY <1>1
<1>4. \A k \in t..t + Cardinality(Proc) : k # t => t \in t..k - 1
  BY <1>1
<1> QED BY <1>2, <1>3, <1>4 DEF AltKey

\* What alt_enable does to the timer tree, and that alt_disable undoes it.
LEMMA TimerEnabled ==
  ASSUME OneTimer, AInv, curr_proc \in Proc, phase[curr_proc] = "none",
         NEW l \in Menu[curr_proc], NEW gs, gs = alt_addguards(l)
  PROVE  /\ EnabledUsec(gs) \in [Proc -> Nat]
         /\ TimeGuard(gs) = 0 => EnabledTree(gs) = altsleep
         /\ TimeGuard(gs) # 0 =>
              /\ altsleep = Lone(NULL)
              /\ EnabledTree(gs) = IF gs[TimeGuard(gs)].usec = 0 THEN Lone(NULL)
                                   ELSE Lone(curr_proc)
         /\ DisabledTree(EnabledTree(gs), gs, curr_proc) = altsleep
<1>1. /\ gs \in Seq(Guard)
      /\ \A i \in DOMAIN gs : IsTime(gs[i]) => HasTimer(curr_proc)
      /\ \A i \in DOMAIN gs : gs[i] \in Guard
  <2>1. clock \in 0..MaxTime
    BY DEF AInv, Typed
  <2> QED BY <2>1, GuardsBuilt, ElementOfSeq
<1>2. usec \in [Proc -> Nat]
  BY DEF AInv, Typed
<1>3. CASE TimeGuard(gs) = 0
  <2>1. EnabledUsec(gs)[curr_proc] = 0 /\ EnabledUsec(gs) \in [Proc -> Nat]
    BY <1>2, <1>3 DEF EnabledUsec
  <2> QED BY <1>3, <2>1 DEF EnabledTree, DisabledTree
<1>4. CASE TimeGuard(gs) # 0
  <2> DEFINE u == gs[TimeGuard(gs)].usec
  <2>1. HasTimer(curr_proc) /\ u \in Nat
    BY <1>1, <1>4, TimeGuardFacts DEF Guard
  <2>2. altsleep = Lone(NULL)
    <3>1. PICK x \in Proc \cup {NULL} :
            /\ altsleep = Lone(x)
            /\ x # NULL => phase[x] = "wait" /\ TimeGuard(guards[x]) # 0
      BY DEF AInv, OneLeaf
    <3>2. x # NULL => x = curr_proc
      BY <2>1, <3>1 DEF AInv, FromMenu, OneTimer
    <3> QED BY <3>1, <3>2
  <2>3. AltKey(u) = u
    BY <2>1, <2>2, FirstKey
  <2>4. EnabledUsec(gs)[curr_proc] = u /\ EnabledUsec(gs) \in [Proc -> Nat]
    BY <1>2, <1>4, <2>1, <2>3 DEF EnabledUsec
  <2>5. EnabledTree(gs) = IF u = 0 THEN Lone(NULL) ELSE Lone(curr_proc)
    BY <2>2, <2>4, LoneInsert DEF EnabledTree
  <2>6. DisabledTree(EnabledTree(gs), gs, curr_proc) = Lone(NULL)
    BY <1>4, <2>5, LoneRemove DEF DisabledTree
  <2> QED BY <1>4, <2>2, <2>4, <2>5, <2>6
<1> QED BY <1>3, <1>4

-----------------------------------------------------------------------------
(* The steps as the channels and the scheduler see them *)

\* A PROC that waits is not running, and the scheduler allows waking it.
LEMMA WakesBlocked ==
  ASSUME CInv, pc \in {"proc", "wakeup"}, NEW p \in Proc, state[p] \in Blocked
  PROVE  p # curr_proc /\ (Readies(<<p>>) => AwakeNext)
<1>1. Live /\ Steady
  BY DEF CInv, SInv, Live
<1>2. p # curr_proc /\ p \in Parked
  BY <1>1, SchedAssumption DEF Steady, Where, Queues, TotalQSound, Parked, Blocked
<1>3. <<p>> \in Batches
  <2>1. Cardinality(Proc) \in Nat /\ Cardinality(Proc) # 0
    BY SchedAssumption, FS_CardinalityType, FS_EmptySet
  <2>2. 1 \in 1..Cardinality(Proc)
    BY <2>1
  <2>3. <<p>> \in [1..1 -> Proc]
    OBVIOUS
  <2> QED BY <2>2, <2>3 DEF Batches
<1>4. Range(<<p>>) = {p} /\ IsInjective(<<p>>)
  BY SingletonFacts
<1>5. Readies(<<p>>) => AddReady(<<p>>)
  BY <1>2, <1>4 DEF AddReady
<1> QED BY <1>2, <1>3, <1>5 DEF AwakeNext

\* What Readies does to the states.
LEMMA ReadiesOne ==
  ASSUME NEW p \in Proc, Readies(<<p>>)
  PROVE  /\ state' = [q \in Proc |-> IF q = p THEN "READY" ELSE state[q]]
         /\ UNCHANGED <<pc, clock, curr_proc>>
<1>1. Range(<<p>>) = {p}
  BY SingletonFacts
<1> QED BY <1>1 DEF Readies, scheduler_addready

\* A step that leaves the queues and the waits on channels alone keeps CInv.
LEMMA AsideStep ==
  ASSUME CInv, [AwakeNext]_schedVars, UNCHANGED endQ, data' \in [Proc -> Data \cup {NULL}],
         Live => \A p \in Proc : state'[p] = "CHANWAIT" <=> state[p] = "CHANWAIT"
  PROVE  CInv'
<1>1. SInv'
  BY AwakeStep DEF CInv
<1>2. Live' => Live
  BY SleepOrAwake, StaysDown
<1>3. ChanTypeOK' /\ OneType'
  BY DEF CInv, ChanTypeOK, OneType
<1>4. Live' => OneEnd' /\ WaitsQueued'
  BY <1>2 DEF CInv, OneEnd, WaitsQueued, Queued
<1> QED BY <1>1, <1>3, <1>4 DEF CInv

\* The steps of a program with channels start or end no wait of an ALT, and
\* take no time.
LEMMA ChannelsAside ==
  ASSUME CInv, [ChanNext]_<<schedVars, chanVars>>
  PROVE  /\ CInv' /\ [AwakeNext]_schedVars /\ (Live' => Live) /\ UNCHANGED clock
         /\ Live => \A p \in Proc : state'[p] = "ALTWAIT" <=> state[p] = "ALTWAIT"
<1>1. CInv' /\ [AwakeNext]_schedVars
  BY ChanStep, ChanAwake
<1>2. Live' => Live
  BY <1>1, SleepOrAwake, StaysDown
<1>3. UNCHANGED clock
  BY DEF ChanNext, NoChanStep, WriteToReader, WriteEnqueue, ReadFromWriter, ReadEnqueue,
     TakeFromWriter, SchedStep, Yield, End, Exit, Block, Waits, Spawn, Readies, CheckQs,
     WakeProc, WakeDone, Dispatch, Continue, SwitchReady, SwitchWait, SwitchEnded, FreeDone,
     LoopExit, TeardownFree, TeardownEnd, Terminated, schedVars
<1>4. ASSUME Live, NEW p \in Proc PROVE state'[p] = "ALTWAIT" <=> state[p] = "ALTWAIT"
  <2>1. CASE NoChanStep
    BY <1>4, <2>1, NoChanWait DEF CInv, Blocked
  <2>2. ASSUME NEW c \in Chans, pc = "proc", endQ[c] # <<>>, Readies(<<Head(endQ[c]).proc>>)
        PROVE  state'[p] = "ALTWAIT" <=> state[p] = "ALTWAIT"
    <3> DEFINE q == Head(endQ[c]).proc
    <3>1. q \in Proc /\ state[q] = "CHANWAIT"
      BY <2>2, HeadParked DEF ChanEnd
    <3> HIDE DEF q
    <3>2. Readies(<<q>>)
      BY <2>2 DEF q
    <3> QED BY <3>1, <3>2, ReadiesOne
  <2>3. ASSUME Block("CHANWAIT") PROVE state'[p] = "ALTWAIT" <=> state[p] = "ALTWAIT"
    <3>1. pc = "proc" /\ state[curr_proc] = "RUNNING"
      BY <1>4, <2>3 DEF Block, Waits, CInv, SInv, Steady, Where
    <3>2. Range(<<>>) = {}
      BY DEF Range
    <3> QED BY <2>3, <3>1, <3>2 DEF Block, Waits
  <2>4. CASE UNCHANGED <<schedVars, chanVars>>
    BY <2>4 DEF schedVars
  <2> QED
    BY <2>1, <2>2, <2>3, <2>4
       DEF ChanNext, WriteToReader, WriteEnqueue, ReadFromWriter, ReadEnqueue,
           TakeFromWriter, FirstIs
<1> QED BY <1>1, <1>2, <1>3, <1>4

\* alt_select that chooses a ready guard is a chan_read, or leaves channels alone.
LEMMA ChoosesReady ==
  ASSUME AInv, NEW l \in Menu[curr_proc], NEW w, AltChoose(l, w)
  PROVE  [ChanNext]_<<schedVars, chanVars>>
<1> DEFINE gs == alt_addguards(l)
<1>1. pc = "proc" /\ w \in ReadyGuards(gs)
  BY DEF AltChoose, InUserCode
<1>2. curr_proc \in Proc /\ clock \in 0..MaxTime
  BY <1>1 DEF AInv, CInv, SInv, TypeInv, Typed
<1>3. /\ w \in DOMAIN gs
      /\ gs[w].type = "CHAN" => FirstIs(gs[w].chan, "CHAN_WRITER") /\ gs[w].chan \in Chans
  <2>1. w \in DOMAIN gs /\ (gs[w].type = "CHAN" => ~gs[w].in_chan)
    BY <1>1 DEF ReadyGuards
  <2>3. gs[w].in_chan <=> gs[w].type = "CHAN" /\ ~FirstIs(gs[w].chan, "CHAN_WRITER")
    BY <1>2, <2>1, GuardsBuilt
  <2>4. gs[w].type = "CHAN" <=> gs[w].chan \in Chans
    BY <1>2, <2>1, GuardsBuilt
  <2> QED BY <2>1, <2>3, <2>4
<1> HIDE DEF gs
<1>4. CASE gs[w].type = "CHAN"
  <2>1. TakeFromWriter(gs[w].chan)
    BY <1>4 DEF AltChoose, gs
  <2> QED BY <1>1, <1>3, <1>4, <2>1 DEF ReadFromWriter, ChanNext
<1>5. CASE gs[w].type # "CHAN"
  BY <1>5 DEF AltChoose, gs
<1> QED BY <1>4, <1>5

\* With the altsleep tree, _scheduler_checkQs goes on when Scheduler says it may.
LEMMA ChecksQs ==
  ASSUME AInv, AltCheckQs
  PROVE  NoChanStep
<1>1. clock \in Nat
  BY DEF AInv, CInv, SInv, TypeInv, SchedTypeOK
<1>2. CheckQs(SleepKeys \cup AltDeadline) /\ UNCHANGED chanVars
  BY DEF AltCheckQs
<1>3. \E other \in {{}, {clock}} : CheckQs(SleepKeys \cup other)
  <2>1. CASE readyQ # <<>> \/ SleepKeys \cup AltDeadline = {}
    <3>1. readyQ # <<>> \/ SleepKeys \cup {} = {}
      BY <2>1
    <3>2. CheckQs(SleepKeys \cup {})
      BY <1>2, <3>1 DEF CheckQs
    <3> QED BY <3>2
  <2>2. CASE \E d \in SleepKeys \cup AltDeadline : d <= clock
    <3>1. \E d \in SleepKeys \cup {clock} : d <= clock
      BY <1>1
    <3>2. CheckQs(SleepKeys \cup {clock})
      BY <1>2, <3>1 DEF CheckQs
    <3> QED BY <3>2
  <2> QED BY <1>2, <2>1, <2>2 DEF CheckQs
<1> QED BY <1>2, <1>3 DEF NoChanStep, SchedStep

-----------------------------------------------------------------------------
(* The steps keep the invariant *)

\* A step that leaves the ALTs alone.
LEMMA IdleStep ==
  ASSUME AInv, CInv', UNCHANGED altVars, clock' \in 0..MaxTime, Live' => Live,
         Live => \A p \in Proc : state'[p] = "ALTWAIT" <=> state[p] = "ALTWAIT"
  PROVE  AInv'
<1>1. Typed' /\ OneLeaf' /\ FromMenu' /\ Linked'
  BY DEF AInv, altVars, Typed, OneLeaf, FromMenu, Linked, GuardsOn
<1>2. Live' => Accepted' /\ (NeverDueAtZero => Armed')
  BY DEF AInv, altVars, Accepted, Armed
<1> QED BY <1>1, <1>2 DEF AInv

\* Channel operations that meet no ALT, and steps that have nothing to do with
\* either.
LEMMA PlainStep ==
  ASSUME AInv, [ChanNext]_<<schedVars, chanVars>>, UNCHANGED altVars
  PROVE  AInv'
<1>1. /\ CInv' /\ (Live' => Live) /\ UNCHANGED clock
      /\ Live => \A p \in Proc : state'[p] = "ALTWAIT" <=> state[p] = "ALTWAIT"
  BY ChannelsAside DEF AInv
<1>2. clock' \in 0..MaxTime
  BY <1>1 DEF AInv, Typed
<1> QED BY <1>1, <1>2, IdleStep

\* Which of the steps those are.
LEMMA PlainOnes ==
  ASSUME AInv,
         (\E c \in Chans : PlainChan(c)) \/ OtherCall \/ AltCheckQs \/ AltWakeDone
           \/ OtherStep \/ AltEnd \/ UNCHANGED allVars
  PROVE  [ChanNext]_<<schedVars, chanVars>> /\ UNCHANGED altVars
<1>1. CASE \E c \in Chans : PlainChan(c)
  BY <1>1 DEF PlainChan, ChanNext
<1>2. CASE OtherCall
  BY <1>2 DEF OtherCall, ChanNext, NoChanStep
<1>3. CASE AltCheckQs
  BY <1>3, ChecksQs DEF AltCheckQs, ChanNext
<1>4. CASE AltWakeDone
  BY <1>4 DEF AltWakeDone, ChanNext, NoChanStep, SchedStep
<1>5. CASE OtherStep
  BY <1>5 DEF OtherStep, ChanNext, NoChanStep, SchedStep
<1>6. CASE AltEnd
  BY <1>6 DEF AltEnd, ChanNext, NoChanStep
<1>7. CASE UNCHANGED allVars
  BY <1>7 DEF allVars
<1> QED BY <1>1, <1>2, <1>3, <1>4, <1>5, <1>6, <1>7

\* Time passes.
LEMMA TickStep ==
  ASSUME AInv, AltTick
  PROVE  AInv' /\ AwakeNext
<1>1. /\ Tick /\ UNCHANGED <<chanVars, altVars, state, pc>> /\ clock' = clock + 1
      /\ clock < MaxTime
  BY DEF AltTick, Tick
<1>2. AwakeNext
  BY <1>1 DEF AwakeNext
<1>3. CInv'
  <2>1. UNCHANGED endQ /\ data' \in [Proc -> Data \cup {NULL}]
    BY <1>1 DEF AInv, CInv, ChanTypeOK, chanVars
  <2> QED BY <1>1, <1>2, <2>1, AsideStep DEF AInv
<1>4. clock' \in 0..MaxTime
  BY <1>1, SchedAssumption DEF AInv, Typed
<1>5. Live' <=> Live
  BY <1>1 DEF Live
<1> QED BY <1>1, <1>2, <1>3, <1>4, <1>5, IdleStep

\* The running PROC of a step in its own code, and what AInv says of it.
LEMMA RunningOne ==
  ASSUME AInv, pc = "proc"
  PROVE  /\ curr_proc \in Proc /\ Live /\ Accepted /\ state[curr_proc] = "RUNNING"
         /\ phase[curr_proc] = "wait" => is_accepted[curr_proc]
<1>1. curr_proc \in Proc /\ Live /\ Accepted /\ state[curr_proc] = "RUNNING"
  BY DEF AInv, CInv, SInv, TypeInv, Steady, Where, Live
<1> QED BY <1>1 DEF Accepted

\* The channel guards of a PROC whose guards are left alone.
LEMMA SameGuards ==
  ASSUME NEW p, guards'[p] = guards[p], NEW c
  PROVE  GuardsOn(p, c)' = GuardsOn(p, c)
BY DEF GuardsOn

\* A step of a PROC that is not waiting in ALT, on its own ALT and without timers.
LEMMA OwnStep ==
  ASSUME AInv, pc = "proc", phase[curr_proc] # "wait", [ChanNext]_<<schedVars, chanVars>>,
         NEW gs \in Seq(Guard), TimeGuard(gs) # 0 => HasTimer(curr_proc),
         \A i \in DOMAIN gs : gs[i].chan \in Chans => HasChan(curr_proc, gs[i].chan),
         guards' = [guards EXCEPT ![curr_proc] = gs],
         NEW b \in BOOLEAN, is_accepted' = [is_accepted EXCEPT ![curr_proc] = b],
         NEW w \in Nat, winner' = [winner EXCEPT ![curr_proc] = w],
         NEW ph \in Phase \ {"wait"}, phase' = [phase EXCEPT ![curr_proc] = ph],
         usec' \in [Proc -> Nat], UNCHANGED <<altQ, altsleep>>
  PROVE  AInv'
<1>1. curr_proc \in Proc /\ Live /\ Accepted /\ state[curr_proc] = "RUNNING"
  BY RunningOne
<1>2. /\ CInv' /\ UNCHANGED clock
      /\ \A p \in Proc : state'[p] = "ALTWAIT" <=> state[p] = "ALTWAIT"
  BY <1>1, ChannelsAside DEF AInv
<1>3. Typed /\ Typed'
  BY <1>1, <1>2 DEF AInv, Typed
<1>4. /\ \A p \in Proc : p # curr_proc => /\ guards'[p] = guards[p] /\ phase'[p] = phase[p]
                                          /\ is_accepted'[p] = is_accepted[p]
                                          /\ winner'[p] = winner[p]
      /\ guards'[curr_proc] = gs /\ phase'[curr_proc] # "wait"
  BY <1>1, <1>3 DEF Typed
<1>5. OneLeaf'
  <2>1. PICK x \in Proc \cup {NULL} :
          /\ altsleep = Lone(x)
          /\ x # NULL => phase[x] = "wait" /\ TimeGuard(guards[x]) # 0
    BY DEF AInv, OneLeaf
  <2>2. x # curr_proc
    BY <1>1, <2>1, SchedAssumption
  <2>3. altsleep' = Lone(x) /\ (x # NULL => phase'[x] = "wait" /\ TimeGuard(guards'[x]) # 0)
    BY <1>4, <2>1, <2>2
  <2> QED BY <2>3 DEF OneLeaf
<1>6. FromMenu'
  BY <1>4 DEF AInv, FromMenu, GuardsOn, OnChannel
<1>7. Linked'
  <2>1. \A p \in Proc : p # curr_proc => \A c \in Chans : GuardsOn(p, c)' = GuardsOn(p, c)
    BY <1>4, SameGuards
  <2> QED BY <1>1, <1>4, <2>1 DEF AInv, Linked
<1>8. Accepted'
  BY <1>1, <1>2, <1>4 DEF Accepted
<1>9. NeverDueAtZero => Armed'
  BY <1>1, <1>4 DEF AInv, Armed
<1> QED BY <1>2, <1>3, <1>5, <1>6, <1>7, <1>8, <1>9 DEF AInv

\* alt_select with ready guards: what was enabled is disabled again.
LEMMA ChooseStep ==
  ASSUME OneTimer, AInv, NEW l \in Menu[curr_proc], NEW w \in Nat, AltChoose(l, w)
  PROVE  AInv'
<1> DEFINE gs == alt_addguards(l)
<1>1. /\ pc = "proc" /\ phase[curr_proc] = "none" /\ UNCHANGED altQ
      /\ guards' = [guards EXCEPT ![curr_proc] = gs]
      /\ is_accepted' = [is_accepted EXCEPT ![curr_proc] = FALSE]
      /\ winner' = [winner EXCEPT ![curr_proc] = w]
      /\ phase' = [phase EXCEPT ![curr_proc] = "yield"]
      /\ usec' = EnabledUsec(gs)
      /\ altsleep' = DisabledTree(EnabledTree(gs), gs, curr_proc)
  BY DEF AltChoose, InUserCode
<1>2. curr_proc \in Proc /\ clock \in 0..MaxTime
  BY <1>1, RunningOne DEF AInv, Typed
<1>3. [ChanNext]_<<schedVars, chanVars>>
  BY ChoosesReady
<1>4. gs \in Seq(Guard) /\ \A i \in DOMAIN gs : HasChan(curr_proc, gs[i].chan)
  BY <1>2, GuardsBuilt
<1>5. TimeGuard(gs) # 0 => HasTimer(curr_proc)
  BY <1>2, <1>4, GuardsBuilt, TimeGuardFacts
<1>6. usec' \in [Proc -> Nat] /\ altsleep' = altsleep
  BY <1>1, <1>2, TimerEnabled
<1>7. "yield" \in Phase \ {"wait"} /\ FALSE \in BOOLEAN
  BY DEF Phase
<1> HIDE DEF gs
<1> QED BY <1>1, <1>3, <1>4, <1>5, <1>6, <1>7, OwnStep

\* alt_complete's yield.
LEMMA AltYieldStep ==
  ASSUME AInv, AltYield
  PROVE  AInv' /\ [ChanNext]_<<schedVars, chanVars>>
<1>1. /\ pc = "proc" /\ phase[curr_proc] = "yield" /\ Yield
      /\ phase' = [phase EXCEPT ![curr_proc] = "return"]
      /\ UNCHANGED <<chanVars, guards, is_accepted, winner, altQ, altsleep, usec>>
  BY DEF AltYield
<1>2. [ChanNext]_<<schedVars, chanVars>>
  BY <1>1 DEF ChanNext, NoChanStep
<1>3. Typed /\ curr_proc \in Proc
  BY <1>1, RunningOne DEF AInv
<1>4. /\ guards' = [guards EXCEPT ![curr_proc] = guards[curr_proc]]
      /\ is_accepted' = [is_accepted EXCEPT ![curr_proc] = is_accepted[curr_proc]]
      /\ winner' = [winner EXCEPT ![curr_proc] = winner[curr_proc]]
      /\ guards[curr_proc] \in Seq(Guard) /\ is_accepted[curr_proc] \in BOOLEAN
      /\ winner[curr_proc] \in Nat /\ usec' \in [Proc -> Nat]
  BY <1>1, <1>3 DEF Typed
<1>5. /\ TimeGuard(guards[curr_proc]) # 0 => HasTimer(curr_proc)
      /\ \A i \in DOMAIN guards[curr_proc] :
           guards[curr_proc][i].chan \in Chans => HasChan(curr_proc, guards[curr_proc][i].chan)
  BY <1>3 DEF AInv, FromMenu, GuardsOn, OnChannel
<1>6. "return" \in Phase \ {"wait"}
  BY DEF Phase
<1> QED BY <1>1, <1>2, <1>4, <1>5, <1>6, OwnStep

\* The end of an ALT that chose at once.
LEMMA ReturnStep ==
  ASSUME AInv, AltReturn
  PROVE  AInv' /\ UNCHANGED altsleep
<1>1. /\ pc = "proc" /\ phase[curr_proc] = "return" /\ UNCHANGED <<schedVars, chanVars, altQ>>
      /\ altsleep' = Recycled(altsleep, curr_proc)
      /\ guards' = [guards EXCEPT ![curr_proc] = <<>>]
      /\ usec' = [usec EXCEPT ![curr_proc] = 0]
      /\ phase' = [phase EXCEPT ![curr_proc] = "none"]
      /\ winner' = [winner EXCEPT ![curr_proc] = 0]
      /\ is_accepted' = [is_accepted EXCEPT ![curr_proc] = FALSE]
  BY DEF AltReturn, Cleanup
<1>2. Typed /\ curr_proc \in Proc
  BY <1>1, RunningOne DEF AInv
<1>3. altsleep' = altsleep
  BY <1>1, <1>2, LoneRecycled DEF AInv, OneLeaf
<1>4. usec' \in [Proc -> Nat]
  BY <1>1, <1>2 DEF Typed
<1> DEFINE gs == <<>>
<1>5. gs \in Seq(Guard) /\ TimeGuard(gs) = 0 /\ \A i \in DOMAIN gs : FALSE
  BY DEF TimeGuard
<1>6. "none" \in Phase \ {"wait"} /\ FALSE \in BOOLEAN /\ 0 \in Nat
  BY DEF Phase
<1> HIDE DEF gs
<1>7. guards' = [guards EXCEPT ![curr_proc] = gs]
  BY <1>1 DEF gs
<1> QED BY <1>1, <1>3, <1>4, <1>5, <1>6, <1>7, OwnStep

\* The queue q with m guards of p linked at its tail.
Added(q, p, m) == q \o [i \in 1..m |-> p]

\* p is linked there m times, the others as before.
LEMMA CopiesAdded ==
  ASSUME NEW q \in Seq(Proc), NEW p \in Proc, NEW m \in Nat
  PROVE  /\ Added(q, p, m) \in Seq(Proc)
         /\ \A r : r # p => Places(Added(q, p, m), r) = Places(q, r)
         /\ Places(q, p) = {} => Cardinality(Places(Added(q, p, m), p)) = m
<1> DEFINE s == [i \in 1..m |-> p]
           new == q \o s
           n == Len(q)
<1>1. s \in Seq(Proc) /\ Len(s) = m
  OBVIOUS
<1>2. /\ n \in Nat /\ DOMAIN q = 1..n /\ new \in Seq(Proc) /\ DOMAIN new = 1..n + m
      /\ \A i \in 1..n + m : new[i] = IF i <= n THEN q[i] ELSE s[i - n]
  <2> HIDE DEF s
  <2>1. n \in Nat /\ DOMAIN q = 1..n
    BY LenProperties
  <2>2. new \in Seq(Proc) /\ Len(new) = n + m
    BY <1>1, ConcatProperties
  <2>3. \A i \in 1..n + Len(s) : new[i] = IF i <= n THEN q[i] ELSE s[i - n]
    BY <1>1, ConcatProperties
  <2>4. DOMAIN new = 1..n + m
    <3> HIDE DEF new
    <3> QED BY <2>2, LenProperties
  <2> QED BY <1>1, <2>1, <2>2, <2>3, <2>4
<1>3. \A i \in 1..n + m : ~(i <= n) => i - n \in 1..m
  BY <1>2
<1>4. \A i \in 1..n + m : new[i] = IF i <= n THEN q[i] ELSE p
  <2>1. \A i \in 1..m : s[i] = p
    OBVIOUS
  <2> HIDE DEF s, new
  <2> QED BY <1>2, <1>3, <2>1
<1> HIDE DEF new
<1>5. ASSUME NEW r, r # p PROVE Places(new, r) = Places(q, r)
  BY <1>2, <1>4, <1>5 DEF Places
<1>6. ASSUME Places(q, p) = {} PROVE Cardinality(Places(new, p)) = m
  <2>1. Places(new, p) = n + 1..n + m
    BY <1>2, <1>4, <1>6 DEF Places
  <2>2. Cardinality(n + 1..n + m) = m
    <3>1. CASE m = 0
      <4>1. n + 1..n + m = {}
        BY <1>2, <3>1
      <4> QED BY <3>1, <4>1, FS_EmptySet
    <3>2. CASE m # 0
      <4> DEFINE a == n + 1
                 b == n + m
      <4>1. a \in Int /\ b \in Int /\ a <= b /\ b - a + 1 = m
        BY <1>2, <3>2
      <4> HIDE DEF a, b
      <4>2. Cardinality(a..b) = b - a + 1
        BY <4>1, FS_Interval
      <4> QED BY <4>1, <4>2 DEF a, b
    <3> QED BY <3>1, <3>2
  <2> QED BY <2>1, <2>2
<1> QED BY <1>2, <1>5, <1>6 DEF new, Added

\* The number of guards of gs that alt_enable links into altQ of c.
LEMMA GuardCount ==
  ASSUME NEW gs \in Seq(Guard), NEW S \in SUBSET DOMAIN gs
  PROVE  IsFiniteSet(S) /\ Cardinality(S) \in Nat
<1>1. DOMAIN gs = 1..Len(gs) /\ Len(gs) \in Int
  BY LenProperties
<1>2. IsFiniteSet(1..Len(gs))
  BY <1>1, FS_Interval
<1> QED BY <1>1, <1>2, FS_Subset, FS_CardinalityType

\* An ALT that waits: its guards are linked, its timer is in the tree.
LEMMA AltWaitStep ==
  ASSUME OneTimer, AInv, NEW l \in Menu[curr_proc], AltWait(l)
  PROVE  AInv' /\ AwakeNext
<1> DEFINE gs == alt_addguards(l)
<1>1. /\ pc = "proc" /\ phase[curr_proc] = "none" /\ ReadyGuards(gs) = {}
      /\ guards' = [guards EXCEPT ![curr_proc] = gs]
      /\ is_accepted' = [is_accepted EXCEPT ![curr_proc] = FALSE]
      /\ winner' = [winner EXCEPT ![curr_proc] = 0]
      /\ phase' = [phase EXCEPT ![curr_proc] = "wait"]
      /\ altQ' = EnabledAltQ(gs)
      /\ usec' = EnabledUsec(gs)
      /\ altsleep' = EnabledTree(gs)
      /\ Block("ALTWAIT") /\ UNCHANGED chanVars
  BY DEF AltWait, InUserCode
<1>2. curr_proc \in Proc /\ Live /\ Accepted /\ state[curr_proc] = "RUNNING" /\ Typed
      /\ clock \in 0..MaxTime
  BY <1>1, RunningOne DEF AInv, Typed
<1>3. /\ state' = [p \in Proc |-> IF p = curr_proc THEN "ALTWAIT" ELSE state[p]]
      /\ UNCHANGED clock /\ AwakeNext
  <2>1. Range(<<>>) = {}
    BY DEF Range
  <2> QED BY <1>1, <2>1 DEF Block, Waits, AwakeNext, Blocked
<1>4. CInv'
  <2>1. UNCHANGED endQ /\ data' \in [Proc -> Data \cup {NULL}]
    BY <1>1 DEF AInv, CInv, ChanTypeOK, chanVars
  <2> QED BY <1>2, <1>3, <2>1, AsideStep DEF AInv
<1>5. /\ gs \in Seq(Guard)
      /\ \A i \in DOMAIN gs :
           /\ IsTime(gs[i]) => HasTimer(curr_proc)
           /\ gs[i].type = "CHAN" <=> gs[i].chan \in Chans
           /\ HasChan(curr_proc, gs[i].chan)
           /\ NeverDueAtZero /\ IsTime(gs[i]) => gs[i].usec # 0
  BY <1>2, GuardsBuilt
<1>6. /\ TimeGuard(gs) # 0 => /\ HasTimer(curr_proc)
                              /\ NeverDueAtZero => gs[TimeGuard(gs)].usec # 0
  BY <1>5, TimeGuardFacts
<1>7. /\ usec' \in [Proc -> Nat]
      /\ TimeGuard(gs) = 0 => altsleep' = altsleep
      /\ TimeGuard(gs) # 0 => altsleep' = IF gs[TimeGuard(gs)].usec = 0 THEN Lone(NULL)
                                          ELSE Lone(curr_proc)
  BY <1>1, <1>2, TimerEnabled
<1>8. \A c \in Chans :
        /\ altQ'[c] \in Seq(Proc)
        /\ \A p : p # curr_proc => Places(altQ'[c], p) = Places(altQ[c], p)
        /\ Cardinality(Places(altQ'[c], curr_proc)) =
             Cardinality(OnChannel(gs, c))
  <2> TAKE c \in Chans
  <2> DEFINE S == {j \in DOMAIN gs : gs[j].in_chan /\ gs[j].chan = c}
  <2>1. S = OnChannel(gs, c)
    BY <1>1, <1>5 DEF ReadyGuards, OnChannel
  <2>2. Cardinality(S) \in Nat
    <3>1. S \in SUBSET DOMAIN gs
      OBVIOUS
    <3> HIDE DEF S, gs
    <3> QED BY <1>5, <3>1, GuardCount
  <2>3. altQ'[c] = Added(altQ[c], curr_proc, Cardinality(S))
    BY <1>1 DEF EnabledAltQ, Added
  <2>4. altQ[c] \in Seq(Proc)
    BY <1>2 DEF Typed
  <2>5. Places(altQ[c], curr_proc) = {}
    <3>1. Cardinality(Places(altQ[c], curr_proc)) = 0
      BY <1>1, <1>2 DEF AInv, Linked
    <3>2. IsFiniteSet(Places(altQ[c], curr_proc))
      BY <1>2, <2>4, OneMorePlace
    <3> QED BY <3>1, <3>2, FS_EmptySet
  <2> HIDE DEF S
  <2>6. /\ altQ'[c] \in Seq(Proc)
        /\ \A p : p # curr_proc => Places(altQ'[c], p) = Places(altQ[c], p)
        /\ Cardinality(Places(altQ'[c], curr_proc)) = Cardinality(S)
    <3> DEFINE m == Cardinality(S)
    <3>1. m \in Nat
      BY <2>2
    <3> HIDE DEF m
    <3>2. /\ Added(altQ[c], curr_proc, m) \in Seq(Proc)
          /\ \A p : p # curr_proc =>
               Places(Added(altQ[c], curr_proc, m), p) = Places(altQ[c], p)
          /\ Cardinality(Places(Added(altQ[c], curr_proc, m), curr_proc)) = m
      BY <1>2, <2>4, <2>5, <3>1, CopiesAdded
    <3> QED BY <2>3, <3>2 DEF m
  <2> QED BY <2>1, <2>6
<1>9. /\ \A p \in Proc : p # curr_proc => /\ guards'[p] = guards[p] /\ phase'[p] = phase[p]
                                          /\ is_accepted'[p] = is_accepted[p]
                                          /\ winner'[p] = winner[p]
      /\ guards'[curr_proc] = gs /\ phase'[curr_proc] = "wait" /\ ~is_accepted'[curr_proc]
  <2> HIDE DEF gs
  <2> QED BY <1>1, <1>2 DEF Typed
<1>10. Typed'
  <2>1. altQ' \in [Chans -> Seq(Proc)]
    BY <1>1, <1>8 DEF EnabledAltQ
  <2> HIDE DEF gs
  <2> QED BY <1>1, <1>2, <1>3, <1>5, <1>7, <2>1 DEF Typed, Phase
<1>11. FromMenu'
  <2> HIDE DEF gs
  <2> QED BY <1>5, <1>6, <1>9 DEF AInv, FromMenu, GuardsOn, OnChannel
<1>12. Linked'
  <2>1. \A p \in Proc : p # curr_proc => \A c \in Chans : GuardsOn(p, c)' = GuardsOn(p, c)
    BY <1>9, SameGuards
  <2> HIDE DEF gs
  <2>2. PICK me \in Proc : me = curr_proc
    BY <1>2
  <2>3. \A c \in Chans : GuardsOn(me, c)' = OnChannel(gs, c)
    BY <1>9, <2>2 DEF GuardsOn
  <2>4. ASSUME NEW p \in Proc, NEW c \in Chans
        PROVE  Cardinality(Places(altQ'[c], p)) =
                 IF phase'[p] = "wait" THEN Cardinality(GuardsOn(p, c)') ELSE 0
    <3>1. CASE p = me
      BY <1>8, <1>9, <2>2, <2>3, <3>1
    <3>2. CASE p # me
      BY <1>8, <1>9, <2>1, <2>2, <3>2 DEF AInv, Linked
    <3> QED BY <3>1, <3>2
  <2> QED BY <2>4 DEF Linked
<1> HIDE DEF gs
<1>13. OneLeaf'
  <2>1. CASE TimeGuard(gs) = 0
    <3>1. PICK x \in Proc \cup {NULL} :
            /\ altsleep = Lone(x)
            /\ x # NULL => phase[x] = "wait" /\ TimeGuard(guards[x]) # 0
      BY DEF AInv, OneLeaf
    <3>2. x # curr_proc
      BY <1>1, <1>2, <3>1, SchedAssumption
    <3>3. altsleep' = Lone(x) /\ (x # NULL => phase'[x] = "wait" /\ TimeGuard(guards'[x]) # 0)
      BY <1>7, <1>9, <2>1, <3>1, <3>2
    <3> QED BY <3>3 DEF OneLeaf
  <2>2. CASE TimeGuard(gs) # 0
    <3>1. PICK p \in Proc : p = curr_proc
      BY <1>2
    <3>2. altsleep' = Lone(NULL) \/ altsleep' = Lone(p)
      BY <1>7, <2>2, <3>1
    <3>3. phase'[p] = "wait" /\ TimeGuard(guards'[p]) # 0
      BY <1>9, <2>2, <3>1
    <3> QED BY <3>2, <3>3, SchedAssumption DEF OneLeaf
  <2> QED BY <2>1, <2>2
<1>14. Accepted'
  BY <1>2, <1>3, <1>9 DEF Accepted
<1>15. ASSUME NeverDueAtZero,
              NEW p \in Proc, phase'[p] = "wait", ~is_accepted'[p], TimeGuard(guards'[p]) # 0
       PROVE  altsleep' = Lone(p)
  <2>1. CASE p = curr_proc
    BY <1>6, <1>7, <1>9, <1>15, <2>1
  <2>2. CASE p # curr_proc
    <3>1. /\ phase[p] = "wait" /\ ~is_accepted[p] /\ TimeGuard(guards[p]) # 0
          /\ altsleep = Lone(p) /\ HasTimer(p)
      BY <1>2, <1>9, <1>15, <2>2 DEF AInv, Armed, FromMenu
    <3>2. TimeGuard(gs) = 0
      BY <1>2, <1>6, <2>2, <3>1 DEF OneTimer
    <3> QED BY <1>7, <3>1, <3>2
  <2> QED BY <2>1, <2>2
<1>16. NeverDueAtZero => Armed'
  BY <1>15 DEF Armed
<1> QED BY <1>3, <1>4, <1>10, <1>11, <1>12, <1>13, <1>14, <1>16 DEF AInv

\* The end of an ALT that waited: its guards and its timer are unlinked.
LEMMA ResumeStep ==
  ASSUME OneTimer, AInv, AltResume
  PROVE  AInv'
<1>1. /\ pc = "proc" /\ phase[curr_proc] = "wait" /\ UNCHANGED <<schedVars, chanVars>>
      /\ altQ' = DisabledAltQ
      /\ altsleep' = Recycled(DisabledTree(altsleep, guards[curr_proc], curr_proc), curr_proc)
      /\ guards' = [guards EXCEPT ![curr_proc] = <<>>]
      /\ usec' = [usec EXCEPT ![curr_proc] = 0]
      /\ phase' = [phase EXCEPT ![curr_proc] = "none"]
      /\ winner' = [winner EXCEPT ![curr_proc] = 0]
      /\ is_accepted' = [is_accepted EXCEPT ![curr_proc] = FALSE]
  BY DEF AltResume, Cleanup
<1>2. curr_proc \in Proc /\ Live /\ Accepted /\ state[curr_proc] = "RUNNING" /\ Typed
  BY <1>1, RunningOne DEF AInv
<1>3. CInv' /\ UNCHANGED clock /\ UNCHANGED state
  <2>1. [ChanNext]_<<schedVars, chanVars>>
    BY <1>1
  <2> QED BY <1>1, <2>1, ChannelsAside DEF AInv, schedVars
<1> DEFINE gs == <<>>
<1>4. gs \in Seq(Guard) /\ TimeGuard(gs) = 0 /\ \A c : OnChannel(gs, c) = {}
  BY DEF TimeGuard, OnChannel
<1> HIDE DEF gs
<1>5. /\ \A p \in Proc : p # curr_proc => /\ guards'[p] = guards[p] /\ phase'[p] = phase[p]
                                          /\ is_accepted'[p] = is_accepted[p]
                                          /\ winner'[p] = winner[p]
      /\ guards'[curr_proc] = gs /\ phase'[curr_proc] = "none"
  BY <1>1, <1>2 DEF Typed, gs
<1>6. \A c \in Chans :
        /\ altQ'[c] \in Seq(Proc)
        /\ \A p : Cardinality(Places(altQ'[c], p)) =
                    IF p = curr_proc THEN 0 ELSE Cardinality(Places(altQ[c], p))
  <2> TAKE c \in Chans
  <2>1. altQ[c] \in Seq(Proc) /\ altQ'[c] = Without(altQ[c], curr_proc)
    BY <1>1, <1>2 DEF Typed, DisabledAltQ
  <2> QED BY <2>1, WithoutFacts
<1>7. Typed'
  <2>1. altQ' \in [Chans -> Seq(Proc)]
    BY <1>1, <1>6 DEF DisabledAltQ
  <2>2. guards' = [guards EXCEPT ![curr_proc] = gs]
    BY <1>1 DEF gs
  <2> QED BY <1>1, <1>2, <1>3, <1>4, <2>1, <2>2 DEF Typed, Phase
<1>8. FromMenu'
  <2>1. ASSUME NEW p \in Proc
        PROVE  /\ TimeGuard(guards'[p]) # 0 => HasTimer(p)
               /\ \A c \in Chans : OnChannel(guards'[p], c) # {} => HasChan(p, c)
    BY <1>4, <1>5 DEF AInv, FromMenu, GuardsOn
  <2> QED BY <2>1 DEF FromMenu, GuardsOn
<1>9. Linked'
  <2>1. \A p \in Proc : p # curr_proc => \A c \in Chans : GuardsOn(p, c)' = GuardsOn(p, c)
    BY <1>5, SameGuards
  <2> QED BY <1>5, <1>6, <2>1 DEF AInv, Linked
<1>10. PICK x \in Proc \cup {NULL} :
         /\ altsleep = Lone(x)
         /\ x # NULL => phase[x] = "wait" /\ TimeGuard(guards[x]) # 0
  BY DEF AInv, OneLeaf
<1>11. altsleep' = IF TimeGuard(guards[curr_proc]) = 0 THEN Lone(x) ELSE Lone(NULL)
  <2>1. CASE TimeGuard(guards[curr_proc]) = 0
    BY <1>1, <1>2, <1>10, <2>1, LoneRecycled DEF DisabledTree
  <2>2. CASE TimeGuard(guards[curr_proc]) # 0
    <3>1. x \in {curr_proc, NULL}
      BY <1>2, <1>10, <2>2 DEF AInv, FromMenu, OneTimer
    <3>2. RB!RB_REMOVE(altsleep, curr_proc) = Lone(NULL)
      BY <1>2, <1>10, <3>1, LoneRemove
    <3> QED BY <1>1, <1>2, <2>2, <3>2, LoneRecycled DEF DisabledTree
  <2> QED BY <2>1, <2>2
<1>12. OneLeaf'
  <2>1. CASE TimeGuard(guards[curr_proc]) = 0
    <3>1. x # curr_proc
      BY <1>2, <1>10, <2>1, SchedAssumption
    <3>2. altsleep' = Lone(x) /\ (x # NULL => phase'[x] = "wait" /\ TimeGuard(guards'[x]) # 0)
      BY <1>5, <1>10, <1>11, <2>1, <3>1
    <3> QED BY <3>2 DEF OneLeaf
  <2>2. CASE TimeGuard(guards[curr_proc]) # 0
    BY <1>11, <2>2 DEF OneLeaf
  <2> QED BY <2>1, <2>2
<1>13. Accepted'
  BY <1>2, <1>3, <1>5 DEF Accepted
<1>14. ASSUME NeverDueAtZero,
              NEW p \in Proc, phase'[p] = "wait", ~is_accepted'[p], TimeGuard(guards'[p]) # 0
       PROVE  altsleep' = Lone(p)
  <2>1. p # curr_proc
    BY <1>5, <1>14
  <2>2. altsleep = Lone(p) /\ TimeGuard(guards[p]) # 0 /\ HasTimer(p)
    BY <1>2, <1>5, <1>14, <2>1 DEF AInv, Armed, FromMenu
  <2>3. TimeGuard(guards[curr_proc]) = 0
    BY <1>2, <2>1, <2>2 DEF AInv, FromMenu, OneTimer
  <2> QED BY <1>10, <1>11, <2>2, <2>3
<1>15. NeverDueAtZero => Armed'
  BY <1>14 DEF Armed
<1> QED BY <1>3, <1>7, <1>8, <1>9, <1>12, <1>13, <1>15 DEF AInv

\* alt_accept of a waiting ALT: the PROC is made ready and has a winner.
LEMMA AcceptsStep ==
  ASSUME AInv, pc \in {"proc", "wakeup"}, NEW p \in Proc, phase[p] = "wait", ~is_accepted[p],
         NEW i \in DOMAIN guards[p], alt_accept(p, i), Readies(<<p>>), UNCHANGED endQ,
         data' \in [Proc -> Data \cup {NULL}], UNCHANGED <<phase, guards, altQ, usec>>,
         NEW x \in Proc \cup {NULL}, altsleep' = Lone(x),
         x # NULL => altsleep = Lone(x),
         NeverDueAtZero =>
           \A q \in Proc : q # p /\ altsleep = Lone(q) => altsleep' = Lone(q)
  PROVE  AInv' /\ AwakeNext
<1>1. Live /\ Accepted /\ Typed /\ CInv
  BY DEF AInv, Live
<1>2. state[p] = "ALTWAIT"
  BY <1>1 DEF Accepted
<1>3. AwakeNext
  BY <1>1, <1>2, WakesBlocked DEF Blocked
<1>4. /\ state' = [q \in Proc |-> IF q = p THEN "READY" ELSE state[q]]
      /\ UNCHANGED clock
  BY ReadiesOne
<1>5. CInv'
  BY <1>1, <1>2, <1>3, <1>4, AsideStep
<1>6. i \in Nat
  BY <1>1, LenProperties DEF Typed
<1>7. /\ is_accepted' = [is_accepted EXCEPT ![p] = TRUE]
      /\ winner' = [winner EXCEPT ![p] = i]
  BY DEF alt_accept
<1>8. Typed'
  BY <1>1, <1>4, <1>6, <1>7 DEF Typed
<1>9. OneLeaf'
  <2>1. x # NULL => phase[x] = "wait" /\ TimeGuard(guards[x]) # 0
    <3>1. PICK y \in Proc \cup {NULL} :
            altsleep = Lone(y) /\ (y # NULL => phase[y] = "wait" /\ TimeGuard(guards[y]) # 0)
      BY DEF AInv, OneLeaf
    <3>2. x # NULL => x = y
      BY <3>1 DEF Lone, Bare
    <3> QED BY <3>1, <3>2
  <2> QED BY <2>1 DEF OneLeaf
<1>10. FromMenu' /\ Linked'
  BY DEF AInv, FromMenu, Linked, GuardsOn
<1>11. Accepted'
  BY <1>1, <1>4, <1>7 DEF Accepted, Typed
<1>12. NeverDueAtZero => Armed'
  BY <1>1, <1>7 DEF AInv, Armed, Typed
<1> QED BY <1>3, <1>5, <1>8, <1>9, <1>10, <1>11, <1>12 DEF AInv

\* A guard linked in altQ is a guard of an ALT that waits on that channel.
LEMMA LinkedWaits ==
  ASSUME AInv, NEW c \in Chans, altQ[c] # <<>>
  PROVE  /\ Head(altQ[c]) \in Proc /\ phase[Head(altQ[c])] = "wait"
         /\ GuardsOn(Head(altQ[c]), c) # {}
         /\ ChanGuard(Head(altQ[c]), c) \in DOMAIN guards[Head(altQ[c])]
<1> DEFINE p == Head(altQ[c])
<1>1. altQ[c] \in Seq(Proc) /\ guards \in [Proc -> Seq(Guard)]
  BY DEF AInv, Typed
<1>2. p \in Proc /\ p \in Range(altQ[c])
  BY <1>1, HeadTailFacts
<1> HIDE DEF p
<1>3. Places(altQ[c], p) # {} /\ IsFiniteSet(Places(altQ[c], p))
  <2>1. Places(altQ[c], p) # {}
    BY <1>2 DEF Places, Range
  <2>2. IsFiniteSet(Places(altQ[c], p))
    BY <1>1, <1>2, OneMorePlace
  <2> QED BY <2>1, <2>2
<1>4. Cardinality(Places(altQ[c], p)) # 0
  BY <1>3, FS_EmptySet
<1>5. phase[p] = "wait" /\ Cardinality(GuardsOn(p, c)) # 0
  BY <1>2, <1>4 DEF AInv, Linked
<1>6. GuardsOn(p, c) # {}
  BY <1>5, FS_EmptySet
<1>7. DOMAIN guards[p] = 1..Len(guards[p]) /\ Len(guards[p]) \in Nat
  BY <1>1, <1>2, LenProperties
<1>8. PICK i \in GuardsOn(p, c) : \A j \in GuardsOn(p, c) : i <= j
  <2>1. GuardsOn(p, c) \in SUBSET Nat
    BY <1>7 DEF GuardsOn, OnChannel
  <2> QED BY <1>6, <2>1, NatMin
<1>9. /\ i \in DOMAIN guards[p] /\ guards[p][i].chan = c
      /\ \A j \in 1..i - 1 : guards[p][j].chan # c
  <2>1. i \in DOMAIN guards[p] /\ guards[p][i].chan = c
    BY DEF GuardsOn, OnChannel
  <2>2. ASSUME NEW j \in 1..i - 1, guards[p][j].chan = c PROVE FALSE
    <3>1. j \in DOMAIN guards[p] /\ ~(i <= j)
      BY <1>7, <2>1
    <3> QED BY <1>8, <2>2, <3>1 DEF GuardsOn, OnChannel
  <2> QED BY <2>1, <2>2
<1>10. ChanGuard(p, c) \in DOMAIN guards[p]
  BY <1>9 DEF ChanGuard
<1> QED BY <1>2, <1>5, <1>6, <1>10 DEF p

\* chan_write to an ALT.
LEMMA WriteToAltStep ==
  ASSUME AInv, NEW c \in Chans, NEW v \in Data, WriteToAlt(c, v)
  PROVE  AInv' /\ AwakeNext
<1> DEFINE p == Head(altQ[c])
           i == ChanGuard(p, c)
<1>1. /\ pc = "proc" /\ altQ[c] # <<>> /\ ~is_accepted[p] /\ alt_accept(p, i)
      /\ data' = [data EXCEPT ![p] = v] /\ Readies(<<p>>)
      /\ UNCHANGED <<endQ, phase, guards, altQ, altsleep, usec>>
  BY DEF WriteToAlt, InUserCode, AltAccepts, CanAccept, chan_copydata
<1>2. p \in Proc /\ phase[p] = "wait" /\ i \in DOMAIN guards[p]
  BY <1>1, LinkedWaits
<1>3. data' \in [Proc -> Data \cup {NULL}]
  BY <1>1 DEF AInv, CInv, ChanTypeOK
<1>4. PICK x \in Proc \cup {NULL} : altsleep = Lone(x)
  BY DEF AInv, OneLeaf
<1>5. altsleep' = Lone(x) /\ \A q \in Proc : altsleep = Lone(q) => altsleep' = Lone(q)
  BY <1>1, <1>4
<1> HIDE DEF p, i
<1> QED BY <1>1, <1>2, <1>3, <1>4, <1>5, AcceptsStep

\* A timer that is due: the ALT wins it unless a writer was first.
LEMMA WakeGuardStep ==
  ASSUME AInv, WakeGuard
  PROVE  AInv' /\ [AwakeNext]_schedVars
<1>1. PICK x \in Proc \cup {NULL} :
        /\ altsleep = Lone(x)
        /\ x # NULL => phase[x] = "wait" /\ TimeGuard(guards[x]) # 0
  BY DEF AInv, OneLeaf
<1>2. RB!RB_MIN(altsleep) = x
  BY <1>1, LoneMin
<1>3. /\ pc = "wakeup" /\ x # NULL /\ altsleep' = RB!RB_REMOVE(altsleep, x)
      /\ IF state[x] = "ALTWAIT" /\ ~is_accepted[x]
         THEN alt_accept(x, TimeGuard(guards[x])) /\ Readies(<<x>>)
         ELSE UNCHANGED <<schedVars, is_accepted, winner>>
      /\ UNCHANGED <<chanVars, phase, guards, altQ, usec>>
  BY <1>2 DEF WakeGuard, CanAccept
<1>4. x \in Proc /\ phase[x] = "wait" /\ Live /\ Accepted /\ Typed
  BY <1>1, <1>3 DEF AInv, Live
<1>5. altsleep' = Lone(NULL)
  BY <1>1, <1>3, <1>4, LoneRemove
<1>6. \A q : altsleep = Lone(q) => q = x
  BY <1>1 DEF Lone, Bare
<1>7. CASE state[x] = "ALTWAIT" /\ ~is_accepted[x]
  <2> DEFINE i == TimeGuard(guards[x])
  <2>1. i \in DOMAIN guards[x]
    BY <1>1, <1>3, <1>4, TimeGuardFacts DEF Typed
  <2>2. data' \in [Proc -> Data \cup {NULL}] /\ UNCHANGED endQ
    BY <1>3 DEF AInv, CInv, ChanTypeOK, chanVars
  <2>3. alt_accept(x, i) /\ Readies(<<x>>) /\ ~is_accepted[x]
    BY <1>3, <1>7
  <2>4. \A q \in Proc : q # x /\ altsleep = Lone(q) => altsleep' = Lone(q)
    BY <1>6
  <2>5. NULL \in Proc \cup {NULL}
    OBVIOUS
  <2> HIDE DEF i
  <2> QED BY <1>3, <1>4, <1>5, <2>1, <2>2, <2>3, <2>4, <2>5, AcceptsStep
<1>8. CASE ~(state[x] = "ALTWAIT" /\ ~is_accepted[x])
  <2>1. UNCHANGED <<schedVars, chanVars, phase, guards, altQ, usec, is_accepted, winner>>
    BY <1>3, <1>8
  <2>2. is_accepted[x]
    BY <1>4, <1>8 DEF Accepted
  <2>3. CInv' /\ UNCHANGED <<clock, state>>
    <3>1. [ChanNext]_<<schedVars, chanVars>>
      BY <2>1
    <3> QED BY <2>1, <3>1, ChannelsAside DEF AInv, schedVars
  <2>4. Typed' /\ FromMenu' /\ Linked' /\ Accepted'
    BY <1>4, <2>1, <2>3 DEF AInv, Typed, FromMenu, Linked, GuardsOn, Accepted
  <2>5. OneLeaf'
    BY <1>5 DEF OneLeaf
  <2>6. NeverDueAtZero => Armed'
    BY <1>4, <1>6, <2>1, <2>2 DEF AInv, Armed
  <2> QED BY <2>1, <2>3, <2>4, <2>5, <2>6 DEF AInv
<1> QED BY <1>7, <1>8

\* proxc_alt called with the guards l.
LEMMA BeginStep ==
  ASSUME OneTimer, AInv, pc = "proc", NEW l \in Menu[curr_proc], AltBegin(l)
  PROVE  AInv' /\ [AwakeNext]_schedVars
<1>1. ASSUME NEW w \in DOMAIN l, AltChoose(l, w) PROVE AInv' /\ [AwakeNext]_schedVars
  <2>1. curr_proc \in Proc
    BY RunningOne
  <2>2. l \in Seq(GuardSpec)
    BY <2>1, AltAssumption
  <2>3. w \in Nat
    BY <2>2, LenProperties
  <2>4. [AwakeNext]_schedVars
    BY <1>1, ChoosesReady, ChannelsAside DEF AInv
  <2> QED BY <1>1, <2>3, <2>4, ChooseStep
<1>2. CASE AltWait(l)
  BY <1>2, AltWaitStep
<1> QED BY <1>1, <1>2 DEF AltBegin

\* Every step keeps the invariant, and is one the scheduler allows.
LEMMA AltInvStep ==
  ASSUME OneTimer, AInv, [AltNext]_allVars
  PROVE  AInv' /\ [AwakeNext]_schedVars
<1>1. CASE pc = "proc" /\ \E l \in Menu[curr_proc] : AltBegin(l)
  BY <1>1, BeginStep
<1>2. CASE AltYield
  BY <1>2, AltYieldStep, ChannelsAside DEF AInv
<1>3. CASE AltResume
  BY <1>3, ResumeStep DEF AltResume
<1>4. CASE AltReturn
  BY <1>4, ReturnStep DEF AltReturn
<1>5. CASE \E c \in Chans, v \in Data : WriteToAlt(c, v)
  BY <1>5, WriteToAltStep
<1>6. CASE WakeGuard
  BY <1>6, WakeGuardStep
<1>7. CASE AltTick
  BY <1>7, TickStep
<1>8. CASE (\E c \in Chans : PlainChan(c)) \/ OtherCall \/ AltCheckQs \/ AltWakeDone
             \/ OtherStep \/ AltEnd \/ UNCHANGED allVars
  <2>1. [ChanNext]_<<schedVars, chanVars>> /\ UNCHANGED altVars
    BY <1>8, PlainOnes
  <2> QED BY <2>1, PlainStep, ChannelsAside DEF AInv
<1> QED
  BY <1>1, <1>2, <1>3, <1>4, <1>5, <1>6, <1>7, <1>8 DEF AltNext, AltStep, AltGoesOn

\* proxc_start begins without ALTs.
LEMMA AltStart == SchedInit /\ ChanInit /\ AltInit => AInv
<1> SUFFICES ASSUME SchedInit, ChanInit, AltInit PROVE AInv
  OBVIOUS
<1>1. CInv
  BY ChanStart
<1> DEFINE gs == <<>>
<1>2. /\ gs \in Seq(Guard) /\ gs \in Seq(Proc) /\ TimeGuard(gs) = 0
      /\ \A c : OnChannel(gs, c) = {} /\ \A p : Places(gs, p) = {}
  BY DEF TimeGuard, OnChannel, Places
<1>3. guards = [p \in Proc |-> gs] /\ altQ = [c \in Chans |-> gs]
  BY DEF AltInit
<1> HIDE DEF gs
<1>4. Typed
  BY <1>2, <1>3, SchedAssumption DEF Typed, AltInit, SchedInit, Phase
<1>5. OneLeaf
  BY LoneStart DEF OneLeaf, AltInit
<1>6. FromMenu
  BY <1>2, <1>3 DEF FromMenu, GuardsOn
<1>7. Linked
  BY <1>2, <1>3, FS_EmptySet DEF Linked, AltInit
<1>8. Accepted /\ Armed
  BY DEF Accepted, Armed, AltInit, SchedInit
<1> QED BY <1>1, <1>4, <1>5, <1>6, <1>7, <1>8 DEF AInv

-----------------------------------------------------------------------------
(* The theorems *)

\* Every variable of ALT keeps its type.
THEOREM AltTypeCorrect ==
  ASSUME OneTimer
  PROVE  AltSpec => []AltTypeOK
<1>1. AInv => AltTypeOK
  <2> SUFFICES ASSUME AInv PROVE AltTypeOK
    OBVIOUS
  <2>1. \A x \in Proc \cup {NULL} : Lone(x) \in RB!Tree
    BY DEF Lone, Bare, NoKids, NoParents, Blacks, RB!Tree, RB!Side, RB!Color
  <2> QED BY <2>1 DEF AInv, Typed, OneLeaf, AltTypeOK
<1>2. AInv /\ [AltNext]_allVars => AInv'
  BY AltInvStep
<1> QED BY <1>1, <1>2, AltStart, PTL DEF AltSpec

\* An ALT that waits is linked in altQ of a channel once for each of its guards on
\* it, and nobody else is: chan_write never finds a guard that alt_cleanup has
\* freed, whatever timeouts, writers and other ALTs did in between.
THEOREM AltQueuesSound ==
  ASSUME OneTimer
  PROVE  AltSpec => []AltQSound
<1>1. AInv => AltQSound
  <2> SUFFICES ASSUME AInv, NEW p \in Proc, NEW c \in Chans
               PROVE  Cardinality({i \in DOMAIN altQ[c] : altQ[c][i] = p}) =
                        IF phase[p] # "wait" THEN 0
                        ELSE Cardinality({i \in DOMAIN guards[p] : guards[p][i].chan = c})
    BY DEF AltQSound
  <2>1. /\ {i \in DOMAIN altQ[c] : altQ[c][i] = p} = Places(altQ[c], p)
        /\ {i \in DOMAIN guards[p] : guards[p][i].chan = c} = GuardsOn(p, c)
    BY DEF Places, GuardsOn, OnChannel
  <2>2. Cardinality(Places(altQ[c], p)) =
          IF phase[p] = "wait" THEN Cardinality(GuardsOn(p, c)) ELSE 0
    BY DEF AInv, Linked
  <2> QED BY <2>1, <2>2
<1>2. AInv /\ [AltNext]_allVars => AInv'
  BY AltInvStep
<1> QED BY <1>1, <1>2, AltStart, PTL DEF AltSpec

\* An ALT waits for exactly as long as nobody has accepted it, and one that goes on
\* has a winner among its guards: the race of a timeout and of several writers for
\* it has one winner (the ASSERT in alt_select holds).
THEOREM OneWinner ==
  ASSUME OneTimer
  PROVE  AltSpec => []WokenByAccept
<1>1. AInv => WokenByAccept
  BY DEF AInv, Accepted, WokenByAccept
<1>2. AInv /\ [AltNext]_allVars => AInv'
  BY AltInvStep
<1> QED BY <1>1, <1>2, AltStart, PTL DEF AltSpec

\* The altsleep tree never holds a guard that alt_cleanup has freed: whoever wins,
\* the timer is out of the tree before the ALT returns.
THEOREM TimersUnlinked ==
  ASSUME OneTimer
  PROVE  AltSpec => []TimersAllocated
<1>1. AInv => TimersAllocated
  BY LoneLinked DEF AInv, OneLeaf, TimersAllocated
<1>2. AInv /\ [AltNext]_allVars => AInv'
  BY AltInvStep
<1> QED BY <1>1, <1>2, AltStart, PTL DEF AltSpec

\* The timer of an ALT that waits on one is in the altsleep tree, provided that its
\* time does not wrap around to 0.
THEOREM TimersInTree ==
  ASSUME OneTimer, NeverDueAtZero
  PROVE  AltSpec => []TimerArmed
<1>1. AInv => TimerArmed
  <2> SUFFICES ASSUME AInv, Live, NEW p \in Proc,
                      phase[p] = "wait", ~is_accepted[p], TimeGuard(guards[p]) # 0
               PROVE  p \in RB!Linked(altsleep)
    BY DEF TimerArmed
  <2>1. altsleep = Lone(p)
    BY DEF AInv, Armed
  <2>2. p # NULL
    BY SchedAssumption
  <2> QED BY <2>1, <2>2, LoneLinked
<1>2. AInv /\ [AltNext]_allVars => AInv'
  BY AltInvStep
<1> QED BY <1>1, <1>2, AltStart, PTL DEF AltSpec

\* With ALT, too, every PROC that is woken is parked: a writer or a timeout that
\* accepts an ALT links it into readyQ once; and the queues of the channels stay
\* sound.
THEOREM AltsKeepScheduler ==
  ASSUME OneTimer
  PROVE  AltSpec => KeepsScheduler /\ []Placement /\ []EndQSound
<1>1. AInv /\ [AltNext]_allVars => [SchedNext]_schedVars
  BY AltInvStep, SleepOrAwake
<1>2. AInv /\ [AltNext]_allVars => AInv'
  BY AltInvStep
<1>3. AInv => Placement
  BY DEF AInv, CInv, SInv, Steady, Queues, Placement
<1>4. AInv => EndQSound
  BY SoundQueues DEF AInv
<1> QED BY <1>1, <1>2, <1>3, <1>4, AltStart, PTL DEF AltSpec, KeepsScheduler

-----------------------------------------------------------------------------
(* Refinement *)

\* p waits in ALT and nobody has accepted it.
Unaccepted(p) == phase[p] = "wait" /\ ~is_accepted[p]

\* The same ALTs wait after a step, with the same guards.
SameAlts ==
  \A r \in Proc : /\ Unaccepted(r)' <=> Unaccepted(r)
                  /\ Unaccepted(r) => guards'[r] = guards[r]

\* The channels of p's guards.
GuardChans(p) == {guards[p][i].chan : i \in DOMAIN guards[p]} \ {NULL}

\* What all PROCs offer.
AltOffers == [p \in Proc |-> AltOffer(p)]

\* A PROC that waits in ALT has no end in a queue: it makes one offer.
LEMMA EitherWait ==
  ASSUME AInv, Live, NEW p \in Proc, Unaccepted(p)
  PROVE  ~Queued(p) /\ Offer(p) = AltMeeting!NoOffer
<1>1. state[p] = "ALTWAIT"
  BY DEF AInv, Accepted, Unaccepted
<1>2. ~Queued(p)
  BY <1>1 DEF AInv, CInv, WaitsQueued
<1> QED BY <1>2, NoEndNoOffer DEF Meeting!NoOffer, AltMeeting!NoOffer

\* The running PROC offers nothing.
LEMMA RunningOffersNothing ==
  ASSUME AInv, pc = "proc"
  PROVE  /\ curr_proc \in Proc /\ ~Unaccepted(curr_proc)
         /\ Offer(curr_proc) = AltMeeting!NoOffer
         /\ AltOffers[curr_proc] = AltMeeting!NoOffer
<1>1. curr_proc \in Proc /\ ~Unaccepted(curr_proc)
  BY RunningOne DEF Unaccepted
<1>2. ~Queued(curr_proc)
  BY CurrentFree DEF AInv
<1>3. Offer(curr_proc) = AltMeeting!NoOffer
  BY <1>2, NoEndNoOffer DEF Meeting!NoOffer, AltMeeting!NoOffer
<1> QED BY <1>1, <1>3 DEF AltOffers, AltOffer, Unaccepted

\* A step after which the same ALTs wait with the same guards changes the offers
\* as it changes those of the queued ends.
LEMMA OffersMove ==
  ASSUME SameAlts
  PROVE  /\ (\A r \in Proc : Offer(r)' = Offer(r)) => AltOffers' = AltOffers
         /\ \A p \in Proc : \A o :
              ~Unaccepted(p) /\ (\A r \in Proc : Offer(r)' = IF r = p THEN o ELSE Offer(r))
                => AltOffers' = [AltOffers EXCEPT ![p] = o]
<1>1. ASSUME NEW r \in Proc, Offer(r)' = Offer(r) PROVE AltOffer(r)' = AltOffer(r)
  BY <1>1 DEF AltOffer, Unaccepted, SameAlts
<1>2. ASSUME NEW r \in Proc, ~Unaccepted(r) PROVE AltOffer(r)' = Offer(r)'
  BY <1>2 DEF AltOffer, Unaccepted, SameAlts
<1> QED BY <1>1, <1>2 DEF AltOffers

\* What the offers are in the abstract specification.
LEMMA AltMeetingDefs ==
  /\ \A c : AltMeeting!Writers(c) =
              {p \in Proc : AltOffers[p].dir = "write" /\ c \in AltOffers[p].on}
  /\ \A c : AltMeeting!Readers(c) =
              {p \in Proc : AltOffers[p].dir \in {"read", "alt"} /\ c \in AltOffers[p].on}
BY DEF AltMeeting!Writers, AltMeeting!Readers, AltOffers

\* A queued end is what its PROC offers, with ALT too.
LEMMA QueuedOffer ==
  ASSUME AInv, Live, NEW c \in Chans, NEW e \in Range(endQ[c])
  PROVE  /\ e.proc \in Proc /\ ~Unaccepted(e.proc)
         /\ AltOffers[e.proc] =
              [dir |-> IF e.type = "CHAN_WRITER" THEN "write" ELSE "read", on |-> {c}]
<1>1. e.proc \in Proc /\ CInv
  BY EndOffers DEF AInv, ChanEnd
<1>2. Queued(e.proc)
  BY DEF Queued
<1>3. ~Unaccepted(e.proc)
  BY <1>1, <1>2, EitherWait
<1>4. AltOffers[e.proc] = Offer(e.proc)
  BY <1>1, <1>3 DEF AltOffers, AltOffer, Unaccepted
<1> QED BY <1>1, <1>3, <1>4, EndOffers

\* Where no writer is at the head, none waits.
LEMMA NoWriters ==
  ASSUME AInv, NEW c \in Chans, ~FirstIs(c, "CHAN_WRITER")
  PROVE  AltMeeting!Writers(c) = {}
<1> SUFFICES ASSUME NEW p \in Proc, AltOffers[p].dir = "write", c \in AltOffers[p].on
             PROVE  FALSE
  BY AltMeetingDefs
<1>1. AltOffers[p] = Offer(p)
  BY DEF AltOffers, AltOffer
<1>2. EndOf("CHAN_WRITER", p) \in Range(endQ[c])
  BY <1>1, OfferedEnd
<1>3. EndOf("CHAN_WRITER", p).type # "CHAN_WRITER"
  BY <1>2, HeadTells DEF AInv
<1> QED BY <1>3 DEF EndOf

\* Where no reader is at the head and the first ALT is accepted, none waits:
\* that is why a channel may have one ALT only.
LEMMA NoReaders ==
  ASSUME OneAltPerChan, AInv, NEW c \in Chans, ~FirstIs(c, "CHAN_READER"), ~AltAccepts(c)
  PROVE  AltMeeting!Readers(c) = {}
<1> SUFFICES ASSUME NEW p \in Proc, AltOffers[p].dir \in {"read", "alt"},
                    c \in AltOffers[p].on
             PROVE  FALSE
  BY AltMeetingDefs
<1>1. CASE Unaccepted(p)
  <2>1. AltOffers[p].on = GuardChans(p)
    BY <1>1 DEF AltOffers, AltOffer, Unaccepted, GuardChans
  <2>2. GuardsOn(p, c) # {}
    BY <2>1 DEF GuardChans, GuardsOn, OnChannel
  <2>3. Cardinality(Places(altQ[c], p)) = Cardinality(GuardsOn(p, c))
    BY <1>1 DEF Unaccepted, AInv, Linked
  <2>4. GuardsOn(p, c) \in SUBSET DOMAIN guards[p] /\ guards[p] \in Seq(Guard)
    BY DEF AInv, Typed, GuardsOn, OnChannel
  <2>5. IsFiniteSet(GuardsOn(p, c)) /\ Cardinality(GuardsOn(p, c)) # 0
    BY <2>2, <2>4, GuardCount, FS_EmptySet
  <2>6. Places(altQ[c], p) # {}
    BY <2>3, <2>5, FS_EmptySet
  <2>7. altQ[c] # <<>>
    BY <2>6 DEF Places
  <2>8. Head(altQ[c]) \in Proc /\ GuardsOn(Head(altQ[c]), c) # {}
    BY <2>7, LinkedWaits
  <2>9. Head(altQ[c]) = p
    BY <2>2, <2>8 DEF AInv, FromMenu, OneAltPerChan
  <2> QED BY <1>1, <2>7, <2>9 DEF AltAccepts, CanAccept, Unaccepted
<1>2. CASE ~Unaccepted(p)
  <2>1. AltOffers[p] = Offer(p)
    BY <1>2 DEF AltOffers, AltOffer, Unaccepted
  <2>2. EndOf("CHAN_READER", p) \in Range(endQ[c])
    BY <2>1, OfferedEnd
  <2>3. EndOf("CHAN_READER", p).type # "CHAN_READER"
    BY <2>2, HeadTells DEF AInv
  <2> QED BY <2>3 DEF EndOf
<1> QED BY <1>1, <1>2

\* The value moves from the writer at the head, to READ or to an ALT that chooses.
LEMMA ReceiveStep ==
  ASSUME AInv, pc = "proc", NEW c \in Chans, FirstIs(c, "CHAN_WRITER"), TakeFromWriter(c),
         SameAlts
  PROVE  AltMeeting!RendezvousNext
<1> DEFINE q == Head(endQ[c]).proc
<1>1. /\ Live /\ endQ[c] # <<>> /\ Head(endQ[c]).type = "CHAN_WRITER" /\ CInv
      /\ Dequeue(c) /\ data' = [data EXCEPT ![curr_proc] = data[q]]
  BY DEF TakeFromWriter, FirstIs, chan_copydata, Live, AInv
<1>2. curr_proc \in Proc /\ AltOffers[curr_proc] = AltMeeting!NoOffer
  BY RunningOffersNothing
<1>3. Head(endQ[c]) \in Range(endQ[c])
  BY <1>1, HeadParked
<1>4. q \in Proc /\ ~Unaccepted(q) /\ AltOffers[q] = [dir |-> "write", on |-> {c}]
  BY <1>1, <1>3, QueuedOffer
<1>5. \A p \in Proc : Offer(p)' = IF p = q THEN AltMeeting!NoOffer ELSE Offer(p)
  BY <1>1, AcceptOffer DEF Meeting!NoOffer, AltMeeting!NoOffer
<1> HIDE DEF q
<1>6. AltOffers' = [AltOffers EXCEPT ![q] = AltMeeting!NoOffer]
  BY <1>4, <1>5, OffersMove
<1>7. q \in AltMeeting!Writers(c)
  BY <1>4, AltMeetingDefs
<1>8. AltMeeting!Receive(curr_proc, c, q)
  BY <1>1, <1>2, <1>6, <1>7 DEF AltMeeting!Receive, AltOffers
<1> QED BY <1>2, <1>4, <1>8 DEF AltMeeting!RendezvousNext

\* chan_write and chan_read without ALT.
LEMMA PlainMeets ==
  ASSUME OneAltPerChan, AInv, NEW c \in Chans, PlainChan(c)
  PROVE  AltMeeting!RendezvousNext
<1>0. /\ pc = "proc" /\ Live /\ CInv
      /\ SameAlts
  BY DEF PlainChan, InUserCode, Live, AInv, altVars, Unaccepted, SameAlts
<1>a. /\ curr_proc \in Proc /\ ~Unaccepted(curr_proc)
      /\ AltOffers[curr_proc] = AltMeeting!NoOffer
  BY <1>0, RunningOffersNothing
<1>1. ASSUME NEW v \in Data, WriteToReader(c, v)
      PROVE  AltMeeting!RendezvousNext
  <2> DEFINE q == Head(endQ[c]).proc
  <2>1. /\ endQ[c] # <<>> /\ Head(endQ[c]).type = "CHAN_READER"
        /\ Dequeue(c) /\ data' = [data EXCEPT ![q] = v]
    BY <1>1 DEF WriteToReader, FirstIs, chan_copydata
  <2>2. Head(endQ[c]) \in Range(endQ[c])
    BY <1>0, <2>1, HeadParked
  <2>3. q \in Proc /\ ~Unaccepted(q) /\ AltOffers[q] = [dir |-> "read", on |-> {c}]
    BY <1>0, <2>1, <2>2, QueuedOffer
  <2>4. \A p \in Proc : Offer(p)' = IF p = q THEN AltMeeting!NoOffer ELSE Offer(p)
    BY <1>0, <2>1, AcceptOffer DEF Meeting!NoOffer, AltMeeting!NoOffer
  <2> HIDE DEF q
  <2>5. AltOffers' = [AltOffers EXCEPT ![q] = AltMeeting!NoOffer]
    BY <1>0, <2>3, <2>4, OffersMove
  <2>6. q \in AltMeeting!Readers(c)
    BY <2>3, AltMeetingDefs
  <2>7. AltMeeting!Send(curr_proc, c, v, q)
    BY <1>a, <2>1, <2>5, <2>6 DEF AltMeeting!Send, AltOffers
  <2> QED BY <1>a, <2>3, <2>7 DEF AltMeeting!RendezvousNext
<1>2. ASSUME ~AltAccepts(c), NEW v \in Data, WriteEnqueue(c, v)
      PROVE  AltMeeting!RendezvousNext
  <2> DEFINE o == [dir |-> "write", on |-> {c}]
  <2>1. /\ ~FirstIs(c, "CHAN_READER")
        /\ endQ' = [endQ EXCEPT ![c] =
                      Append(@, [type |-> "CHAN_WRITER", proc |-> curr_proc])]
        /\ data' = [data EXCEPT ![curr_proc] = v]
    BY <1>2 DEF WriteEnqueue
  <2>2. \A f \in Range(endQ[c]) : f.type = "CHAN_WRITER"
    BY <1>0, <2>1, HeadTells DEF ChanEnd
  <2>3. \A p \in Proc : Offer(p)' = IF p = curr_proc THEN o ELSE Offer(p)
    BY <1>0, <2>1, <2>2, EnqueueOffer
  <2> HIDE DEF o
  <2>4. AltOffers' = [AltOffers EXCEPT ![curr_proc] = o]
    BY <1>0, <1>a, <2>3, OffersMove
  <2>5. AltMeeting!Readers(c) = {}
    BY <1>2, <2>1, NoReaders
  <2>6. AltMeeting!WaitToSend(curr_proc, c, v)
    BY <1>a, <2>1, <2>4, <2>5 DEF AltMeeting!WaitToSend, AltOffers, o
  <2> QED BY <1>a, <2>6 DEF AltMeeting!RendezvousNext
<1>3. CASE ReadFromWriter(c)
  BY <1>0, <1>3, ReceiveStep DEF ReadFromWriter
<1>4. ASSUME ReadEnqueue(c)
      PROVE  AltMeeting!RendezvousNext
  <2> DEFINE o == [dir |-> "read", on |-> {c}]
  <2>1. /\ ~FirstIs(c, "CHAN_WRITER") /\ UNCHANGED data
        /\ endQ' = [endQ EXCEPT ![c] =
                      Append(@, [type |-> "CHAN_READER", proc |-> curr_proc])]
    BY <1>4 DEF ReadEnqueue
  <2>2. \A f \in Range(endQ[c]) : f.type = "CHAN_READER"
    BY <1>0, <2>1, HeadTells DEF ChanEnd
  <2>3. \A p \in Proc : Offer(p)' = IF p = curr_proc THEN o ELSE Offer(p)
    BY <1>0, <2>1, <2>2, EnqueueOffer
  <2> HIDE DEF o
  <2>4. AltOffers' = [AltOffers EXCEPT ![curr_proc] = o]
    BY <1>0, <1>a, <2>3, OffersMove
  <2>5. AltMeeting!Writers(c) = {}
    BY <2>1, NoWriters
  <2>6. AltMeeting!WaitToReceive(curr_proc, "read", {c})
    BY <1>a, <2>1, <2>4, <2>5 DEF AltMeeting!WaitToReceive, AltOffers, o
  <2> QED BY <1>a, <2>6 DEF AltMeeting!RendezvousNext
<1> QED BY <1>1, <1>2, <1>3, <1>4 DEF PlainChan

\* An ALT that waits offers its channels, and no writer waits on one of them.
LEMMA WaitMeets ==
  ASSUME AInv, NEW l \in Menu[curr_proc], AltWait(l)
  PROVE  AltMeeting!RendezvousNext
<1> DEFINE gs == alt_addguards(l)
           C == {gs[i].chan : i \in DOMAIN gs} \ {NULL}
           o == [dir |-> "alt", on |-> C]
<1>1. /\ pc = "proc" /\ Live /\ ReadyGuards(gs) = {} /\ UNCHANGED <<endQ, data>>
      /\ guards' = [guards EXCEPT ![curr_proc] = gs]
      /\ is_accepted' = [is_accepted EXCEPT ![curr_proc] = FALSE]
      /\ phase' = [phase EXCEPT ![curr_proc] = "wait"]
  BY DEF AltWait, InUserCode, Live, chanVars
<1>2. /\ curr_proc \in Proc /\ AltOffers[curr_proc] = AltMeeting!NoOffer
  BY <1>1, RunningOffersNothing
<1>3. Typed
  BY DEF AInv
<1>4. /\ gs \in Seq(Guard)
      /\ \A i \in DOMAIN gs :
           /\ gs[i].type = "CHAN" <=> gs[i].chan \in Chans
           /\ gs[i].in_chan <=> gs[i].type = "CHAN" /\ ~FirstIs(gs[i].chan, "CHAN_WRITER")
  BY <1>2, <1>3, GuardsBuilt DEF Typed
<1> HIDE DEF gs
<1>5. \A i \in DOMAIN gs : gs[i].chan \in Chans => ~FirstIs(gs[i].chan, "CHAN_WRITER")
  BY <1>1, <1>4 DEF ReadyGuards
<1>6. C \in SUBSET Chans
  <2>1. \A i \in DOMAIN gs : gs[i] \in Guard
    BY <1>4, ElementOfSeq
  <2>2. \A i \in DOMAIN gs : gs[i].chan \in Chans \cup {NULL}
    BY <2>1 DEF Guard
  <2> QED BY <2>2
<1>7. \A c \in C : AltMeeting!Writers(c) = {}
  BY <1>5, <1>6, NoWriters
<1>8. ASSUME NEW r \in Proc PROVE Offer(r)' = Offer(r)
  BY <1>1, SameOffer
<1>9. ASSUME NEW r \in Proc, r = curr_proc PROVE AltOffer(r)' = o
  BY <1>1, <1>3, <1>9 DEF AltOffer, Typed
<1>10. ASSUME NEW r \in Proc, r # curr_proc PROVE AltOffer(r)' = AltOffer(r)
  BY <1>1, <1>3, <1>8, <1>10 DEF AltOffer, Typed
<1> HIDE DEF C
<1>11. AltOffers' = [AltOffers EXCEPT ![curr_proc] = o]
  BY <1>2, <1>9, <1>10 DEF AltOffers
<1>12. AltMeeting!WaitToReceive(curr_proc, "alt", C)
  BY <1>1, <1>2, <1>7, <1>11 DEF AltMeeting!WaitToReceive, AltOffers
<1> QED BY <1>2, <1>6, <1>12 DEF AltMeeting!RendezvousNext

\* Acceptance ends the offer of the ALT and changes no other.
LEMMA AcceptEndsOffer ==
  ASSUME AInv, Live, NEW p \in Proc, Unaccepted(p),
         is_accepted' = [is_accepted EXCEPT ![p] = TRUE], UNCHANGED <<endQ, phase, guards>>
  PROVE  /\ AltOffers[p].dir = "alt" /\ AltOffers[p].on = GuardChans(p)
         /\ AltOffers' = [AltOffers EXCEPT ![p] = AltMeeting!NoOffer]
<1>1. AltOffers[p].dir = "alt" /\ AltOffers[p].on = GuardChans(p)
  BY DEF AltOffers, AltOffer, Unaccepted, GuardChans
<1>2. ASSUME NEW r \in Proc PROVE Offer(r)' = Offer(r)
  BY SameOffer
<1>3. is_accepted \in [Proc -> BOOLEAN]
  BY DEF AInv, Typed
<1>4. AltOffer(p)' = AltMeeting!NoOffer
  BY <1>2, <1>3, EitherWait DEF AltOffer
<1>5. ASSUME NEW r \in Proc, r # p PROVE AltOffer(r)' = AltOffer(r)
  BY <1>2, <1>3, <1>5 DEF AltOffer
<1> QED BY <1>1, <1>4, <1>5 DEF AltOffers

\* A writer that accepts a guard hands its value to that ALT.
LEMMA WriteMeets ==
  ASSUME AInv, NEW c \in Chans, NEW v \in Data, WriteToAlt(c, v)
  PROVE  AltMeeting!RendezvousNext
<1> DEFINE p == Head(altQ[c])
<1>1. /\ pc = "proc" /\ Live /\ altQ[c] # <<>> /\ ~is_accepted[p]
      /\ is_accepted' = [is_accepted EXCEPT ![p] = TRUE]
      /\ data' = [data EXCEPT ![p] = v] /\ UNCHANGED <<endQ, phase, guards>>
  BY DEF WriteToAlt, InUserCode, AltAccepts, CanAccept, alt_accept, chan_copydata, Live
<1>2. p \in Proc /\ phase[p] = "wait" /\ GuardsOn(p, c) # {}
  BY <1>1, LinkedWaits
<1> HIDE DEF p
<1>3. curr_proc \in Proc /\ AltOffers[curr_proc] = AltMeeting!NoOffer
  BY <1>1, RunningOffersNothing
<1>4. c # NULL
  BY ChanAssumption
<1>5. c \in GuardChans(p)
  BY <1>2, <1>4 DEF GuardsOn, OnChannel, GuardChans
<1>6. /\ AltOffers[p].dir = "alt" /\ AltOffers[p].on = GuardChans(p)
      /\ AltOffers' = [AltOffers EXCEPT ![p] = AltMeeting!NoOffer]
  BY <1>1, <1>2, AcceptEndsOffer DEF Unaccepted
<1>7. p \in AltMeeting!Readers(c)
  BY <1>2, <1>5, <1>6, AltMeetingDefs
<1>8. AltMeeting!Send(curr_proc, c, v, p)
  BY <1>1, <1>3, <1>6, <1>7 DEF AltMeeting!Send, AltOffers
<1> QED BY <1>2, <1>3, <1>8 DEF AltMeeting!RendezvousNext

\* A timeout that accepts the time guard withdraws the offer.
LEMMA TimeoutMeets ==
  ASSUME AInv, WakeGuard
  PROVE  [AltMeeting!RendezvousNext]_(AltMeeting!rendezvousVars)
<1> DEFINE p == RB!RB_MIN(altsleep)
<1>1. /\ pc = "wakeup" /\ Live /\ p # NULL /\ UNCHANGED <<endQ, data, phase, guards>>
      /\ IF state[p] = "ALTWAIT" /\ CanAccept(p)
         THEN is_accepted' = [is_accepted EXCEPT ![p] = TRUE]
         ELSE is_accepted' = is_accepted
  BY DEF WakeGuard, alt_accept, Live, chanVars
<1>2. p \in Proc /\ phase[p] = "wait"
  <2>1. PICK x \in Proc \cup {NULL} :
          altsleep = Lone(x) /\ (x # NULL => phase[x] = "wait")
    BY DEF AInv, OneLeaf
  <2>2. p = x
    BY <2>1, LoneMin
  <2> QED BY <1>1, <2>1, <2>2
<1> HIDE DEF p
<1>3. CASE state[p] = "ALTWAIT" /\ CanAccept(p)
  <2>1. Unaccepted(p)
    BY <1>2, <1>3 DEF Unaccepted, CanAccept
  <2>2. /\ AltOffers[p].dir = "alt"
        /\ AltOffers' = [AltOffers EXCEPT ![p] = AltMeeting!NoOffer]
    BY <1>1, <1>2, <1>3, <2>1, AcceptEndsOffer
  <2>3. AltMeeting!Withdraw(p)
    BY <1>1, <2>2 DEF AltMeeting!Withdraw, AltOffers
  <2> QED BY <1>2, <2>3 DEF AltMeeting!RendezvousNext
<1>4. CASE ~(state[p] = "ALTWAIT" /\ CanAccept(p))
  <2>1. \A r \in Proc : Offer(r)' = Offer(r)
    BY <1>1, SameOffer
  <2>2. AltOffers' = AltOffers
    BY <1>1, <1>4, <2>1, OffersMove DEF Unaccepted, SameAlts
  <2> QED BY <1>1, <2>2 DEF AltMeeting!rendezvousVars, AltOffers
<1> QED BY <1>3, <1>4

\* Every step is one of Rendezvous or changes nothing there.
LEMMA AltMeets ==
  ASSUME OneAltPerChan, AInv, [AltNext]_allVars
  PROVE  [AltMeeting!RendezvousNext]_(AltMeeting!rendezvousVars)
<1>0. Typed
  BY DEF AInv
<1>1. ASSUME UNCHANGED chanVars,
             SameAlts
      PROVE  UNCHANGED AltMeeting!rendezvousVars
  <2>1. \A r \in Proc : Offer(r)' = Offer(r)
    BY <1>1, SameOffer DEF chanVars
  <2>2. AltOffers' = AltOffers
    BY <1>1, <2>1, OffersMove
  <2> QED BY <1>1, <2>2 DEF AltMeeting!rendezvousVars, AltOffers, chanVars
<1>2. ASSUME pc = "proc", UNCHANGED chanVars, phase[curr_proc] # "none", AltGoesOn
      PROVE  UNCHANGED AltMeeting!rendezvousVars
  <2>1. curr_proc \in Proc /\ ~Unaccepted(curr_proc)
    BY <1>2, RunningOffersNothing
  <2>2. /\ phase'[curr_proc] # "wait"
        /\ \A r \in Proc : r # curr_proc => /\ phase'[r] = phase[r] /\ guards'[r] = guards[r]
                                            /\ is_accepted'[r] = is_accepted[r]
    BY <1>0, <1>2, <2>1 DEF AltGoesOn, AltYield, AltResume, AltReturn, Cleanup, Typed
  <2> QED BY <1>1, <1>2, <2>1, <2>2 DEF Unaccepted, SameAlts
<1>3. CASE AltGoesOn
  <2>1. pc = "proc" /\ UNCHANGED chanVars /\ phase[curr_proc] # "none"
    BY <1>3 DEF AltGoesOn, AltYield, AltResume, AltReturn
  <2> QED BY <1>2, <1>3, <2>1
<1>4. ASSUME pc = "proc", NEW l \in Menu[curr_proc], NEW w \in DOMAIN l, AltChoose(l, w)
      PROVE  [AltMeeting!RendezvousNext]_(AltMeeting!rendezvousVars)
  <2> DEFINE gs == alt_addguards(l)
  <2>1. curr_proc \in Proc /\ ~Unaccepted(curr_proc)
    BY <1>4, RunningOffersNothing
  <2>2. SameAlts
    BY <1>0, <1>4, <2>1 DEF AltChoose, Typed, Unaccepted, SameAlts
  <2>3. CASE gs[w].type = "CHAN"
    <3>1. TakeFromWriter(gs[w].chan) /\ w \in ReadyGuards(gs)
      BY <1>4, <2>3 DEF AltChoose
    <3>2. w \in DOMAIN gs /\ ~gs[w].in_chan
      BY <2>3, <3>1 DEF ReadyGuards
    <3>3. /\ gs[w].type = "CHAN" <=> gs[w].chan \in Chans
          /\ gs[w].in_chan <=> gs[w].type = "CHAN" /\ ~FirstIs(gs[w].chan, "CHAN_WRITER")
      BY <1>0, <2>1, <3>2, GuardsBuilt DEF Typed
    <3> QED BY <1>4, <2>2, <2>3, <3>1, <3>2, <3>3, ReceiveStep
  <2>4. CASE gs[w].type # "CHAN"
    BY <1>1, <1>4, <2>2, <2>4 DEF AltChoose
  <2> QED BY <2>3, <2>4
<1>5. CASE pc = "proc" /\ \E l \in Menu[curr_proc] : AltBegin(l)
  BY <1>4, <1>5, WaitMeets DEF AltBegin
<1>6. CASE UNCHANGED <<chanVars, altVars>>
  BY <1>1, <1>6 DEF altVars, Unaccepted, SameAlts
<1>7. CASE OtherCall \/ AltCheckQs \/ AltWakeDone \/ OtherStep \/ AltTick \/ AltEnd
             \/ UNCHANGED allVars
  BY <1>6, <1>7 DEF OtherCall, AltCheckQs, AltWakeDone, OtherStep, AltTick, AltEnd, allVars
<1> QED
  BY <1>3, <1>5, <1>7, PlainMeets, WriteMeets, TimeoutMeets DEF AltNext, AltStep

\* With ALT, too, channels implement rendezvous when no two PROCs use ALT on one
\* channel: no value is lost or received twice when timeouts and writers race for an
\* ALT, and nobody waits next to a waiting partner.
THEOREM AltsMeet ==
  ASSUME OneTimer, OneAltPerChan
  PROVE  AltSpec => AltImplementsRendezvous
<1>1. ChanInit /\ AltInit => AltMeeting!RendezvousInit
  <2> SUFFICES ASSUME ChanInit, AltInit PROVE AltMeeting!RendezvousInit
    OBVIOUS
  <2>1. \A c \in Chans : endQ[c] = <<>>
    BY DEF ChanInit
  <2>2. Range(<<>>) = {}
    BY DEF Range
  <2>3. \A p \in Proc : ~Queued(p)
    BY <2>1, <2>2 DEF Queued
  <2>4. \A p \in Proc : AltOffer(p) = AltMeeting!NoOffer
    BY <2>3, NoEndNoOffer DEF AltOffer, AltInit, Meeting!NoOffer, AltMeeting!NoOffer
  <2> QED BY <2>4 DEF AltMeeting!RendezvousInit, ChanInit
<1>2. AInv /\ [AltNext]_allVars
        => [AltMeeting!RendezvousNext]_(AltMeeting!rendezvousVars)
  BY AltMeets
<1>3. AInv /\ [AltNext]_allVars => AInv'
  BY AltInvStep
<1> QED
  BY <1>1, <1>2, <1>3, AltStart, PTL
     DEF AltSpec, AltImplementsRendezvous, AltMeeting!RendezvousSpec

=============================================================================
