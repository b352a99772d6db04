--------------------------- MODULE SchedulerProofs ---------------------------
(***************************************************************************)
(* What Scheduler promises for every set of PROCs, every clock and every   *)
(* bound: the types, that the queues partition the PROCs, and that nobody  *)
(* wakes early.                                                            *)
(***************************************************************************)
EXTENDS Scheduler, Loops, SequenceTheorems, FiniteSetTheorems, TLAPS

-----------------------------------------------------------------------------
(* Lemmas on queues and on time stamps *)

\* Linking the PROCs of s at the tail of q, one TAILQ_INSERT_TAIL each.
LEMMA ConcatFacts ==
  ASSUME NEW S, NEW q \in Seq(S), NEW s \in Seq(S)
  PROVE  /\ q \o s \in Seq(S)
         /\ Range(q \o s) = Range(q) \cup Range(s)
         /\ (IsInjective(q) /\ IsInjective(s) /\ Range(q) \cap Range(s) = {})
              => IsInjective(q \o s)
<1>1. q \o s \in Seq(S) /\ Range(q \o s) = Range(q) \cup Range(s)
  BY ConcatProperties, RangeConcatenation
<1>2. ASSUME IsInjective(q), IsInjective(s), Range(q) \cap Range(s) = {}
      PROVE  IsInjective(q \o s)
  <2>1. \A i \in DOMAIN q : q[i] \in Range(q)
    BY DEF Range
  <2>2. \A i \in DOMAIN s : s[i] \in Range(s)
    BY DEF Range
  <2>3. SUFFICES ASSUME NEW i \in DOMAIN (q \o s), NEW j \in DOMAIN (q \o s),
                        (q \o s)[i] = (q \o s)[j]
                 PROVE  i = j
    BY DEF IsInjective
  <2>4. \A k \in 1..Len(q) + Len(s) :
          (q \o s)[k] = IF k <= Len(q) THEN q[k] ELSE s[k - Len(q)]
    BY ConcatProperties
  <2>5. DOMAIN (q \o s) = 1..Len(q) + Len(s) /\ DOMAIN q = 1..Len(q)
        /\ DOMAIN s = 1..Len(s) /\ Len(q) \in Nat /\ Len(s) \in Nat
    BY ConcatProperties, LenProperties
  <2>6. CASE i <= Len(q) /\ j <= Len(q)
    <3>1. q[i] = q[j] /\ i \in DOMAIN q /\ j \in DOMAIN q
      BY <2>3, <2>4, <2>5, <2>6
    <3> QED BY <3>1, <1>2 DEF IsInjective
  <2>7. CASE i > Len(q) /\ j > Len(q)
    <3>1. s[i - Len(q)] = s[j - Len(q)] /\ i - Len(q) \in DOMAIN s
          /\ j - Len(q) \in DOMAIN s
      BY <2>3, <2>4, <2>5, <2>7
    <3>2. i - Len(q) = j - Len(q)
      BY <3>1, <1>2 DEF IsInjective
    <3> QED BY <3>2, <2>5
  <2>8. CASE i <= Len(q) /\ j > Len(q)
    <3>1. q[i] = s[j - Len(q)] /\ i \in DOMAIN q /\ j - Len(q) \in DOMAIN s
      BY <2>3, <2>4, <2>5, <2>8
    <3> QED BY <3>1, <2>1, <2>2, <1>2
  <2>9. CASE i > Len(q) /\ j <= Len(q)
    <3>1. q[j] = s[i - Len(q)] /\ j \in DOMAIN q /\ i - Len(q) \in DOMAIN s
      BY <2>3, <2>4, <2>5, <2>9
    <3> QED BY <3>1, <2>1, <2>2, <1>2
  <2> QED BY <2>5, <2>6, <2>7, <2>8, <2>9
<1> QED BY <1>1, <1>2

\* A queue that holds one PROC.
LEMMA SingletonFacts ==
  ASSUME NEW S, NEW x \in S
  PROVE  /\ <<x>> \in Seq(S)
         /\ Range(<<x>>) = {x}
         /\ IsInjective(<<x>>)
BY DEF Range, IsInjective

\* One TAILQ_INSERT_TAIL.
LEMMA PushFacts ==
  ASSUME NEW S, NEW q \in Seq(S), NEW x \in S
  PROVE  /\ q \o <<x>> \in Seq(S)
         /\ Range(q \o <<x>>) = Range(q) \cup {x}
         /\ (IsInjective(q) /\ x \notin Range(q)) => IsInjective(q \o <<x>>)
         /\ Append(q, x) = q \o <<x>>
<1> DEFINE s == <<x>>
<1>1. s \in Seq(S) /\ Range(s) = {x} /\ IsInjective(s)
  BY SingletonFacts
<1>2. Append(q, x) = q \o s
  BY AppendIsConcat
<1> HIDE DEF s
<1>3. q \o s \in Seq(S) /\ Range(q \o s) = Range(q) \cup {x}
  BY <1>1, ConcatFacts
<1>4. ASSUME IsInjective(q), x \notin Range(q)
      PROVE  IsInjective(q \o s)
  <2>1. Range(q) \cap Range(s) = {}
    BY <1>1, <1>4
  <2> QED BY <2>1, <1>1, <1>4, ConcatFacts
<1> QED BY <1>2, <1>3, <1>4 DEF s

\* Taking the first of a queue (TAILQ_FIRST and TAILQ_REMOVE).
LEMMA HeadTailFacts ==
  ASSUME NEW S, NEW q \in Seq(S), q # <<>>
  PROVE  /\ Head(q) \in S
         /\ Tail(q) \in Seq(S)
         /\ Head(q) \in Range(q)
         /\ IsInjective(q) => /\ IsInjective(Tail(q))
                              /\ Range(Tail(q)) = Range(q) \ {Head(q)}
<1>1. /\ Len(q) \in Nat \ {0} /\ DOMAIN q = 1..Len(q)
  BY EmptySeq, LenProperties
<1>2. /\ Head(q) = q[1]
      /\ Tail(q) \in Seq(S)
      /\ Len(Tail(q)) = Len(q) - 1
      /\ \A i \in 1..Len(q) - 1 : Tail(q)[i] = q[i + 1]
      /\ DOMAIN Tail(q) = 1..Len(q) - 1
  BY <1>1, HeadTailProperties, LenProperties
<1>3. Head(q) \in S /\ Head(q) \in Range(q)
  BY <1>1, <1>2, ElementOfSeq DEF Range
<1>4. ASSUME IsInjective(q)
      PROVE  IsInjective(Tail(q)) /\ Range(Tail(q)) = Range(q) \ {Head(q)}
  <2>1. IsInjective(Tail(q))
    <3>1. SUFFICES ASSUME NEW i \in 1..Len(q) - 1, NEW j \in 1..Len(q) - 1,
                          q[i + 1] = q[j + 1]
                   PROVE  i = j
      BY <1>2 DEF IsInjective
    <3>2. i + 1 \in DOMAIN q /\ j + 1 \in DOMAIN q
      BY <1>1
    <3>3. i + 1 = j + 1
      BY <3>1, <3>2, <1>4 DEF IsInjective
    <3> QED BY <3>3
  <2>2. ASSUME NEW y \in Range(Tail(q)) PROVE y \in Range(q) /\ y # Head(q)
    <3>1. PICK i \in 1..Len(q) - 1 : y = q[i + 1]
      BY <1>2, <2>2 DEF Range
    <3>2. i + 1 \in DOMAIN q /\ 1 \in DOMAIN q /\ i + 1 # 1
      BY <1>1
    <3> QED BY <3>1, <3>2, <1>2, <1>4 DEF IsInjective, Range
  <2>3. ASSUME NEW y \in Range(q), y # Head(q) PROVE y \in Range(Tail(q))
    <3>1. PICK i \in 1..Len(q) : y = q[i]
      BY <1>1, <2>3 DEF Range
    <3>2. i # 1
      BY <3>1, <1>2, <2>3
    <3>3. i - 1 \in 1..Len(q) - 1 /\ (i - 1) + 1 = i
      BY <3>2, <1>1
    <3>4. Tail(q)[i - 1] = y /\ i - 1 \in DOMAIN Tail(q)
      BY <3>1, <3>3, <1>2
    <3> QED BY <3>4 DEF Range
  <2> QED BY <2>1, <2>2, <2>3
<1> QED BY <1>2, <1>3, <1>4

\* TAILQ_REMOVE of a linked element takes out that element and no other.
LEMMA RemoveFacts ==
  ASSUME NEW S, NEW q \in Seq(S), NEW x \in Range(q)
  PROVE  /\ TAILQ_REMOVE(q, x) \in Seq(S)
         /\ IsInjective(q) => /\ IsInjective(TAILQ_REMOVE(q, x))
                              /\ Range(TAILQ_REMOVE(q, x)) = Range(q) \ {x}
<1> DEFINE i == CHOOSE j \in 1..Len(q) : q[j] = x
           n == Len(q)
           r == TAILQ_REMOVE(q, x)
<1>1. n \in Nat /\ DOMAIN q = 1..n
  BY LenProperties
<1>2. \E j \in 1..n : q[j] = x
  BY <1>1 DEF Range
<1>3. i \in 1..n /\ q[i] = x
  BY <1>2
<1>4. r = [j \in 1..n - 1 |-> IF j < i THEN q[j] ELSE q[j + 1]]
  BY DEF TAILQ_REMOVE
<1> HIDE DEF i, r
<1>5. n - 1 \in Nat
  BY <1>1, <1>3
<1>6. \A j \in 1..n : q[j] \in S
  BY ElementOfSeq
<1>7. r \in [1..n - 1 -> S]
  BY <1>1, <1>3, <1>4, <1>6
<1>8. r \in Seq(S) /\ DOMAIN r = 1..n - 1
  BY <1>5, <1>7
<1>9. ASSUME IsInjective(q)
      PROVE  IsInjective(r) /\ Range(r) = Range(q) \ {x}
  <2>0. \A a, b \in 1..n : q[a] = q[b] => a = b
    BY <1>1, <1>9 DEF IsInjective
  <2>1. IsInjective(r)
    <3>1. SUFFICES ASSUME NEW a \in 1..n - 1, NEW b \in 1..n - 1, r[a] = r[b]
                   PROVE  a = b
      BY <1>8 DEF IsInjective
    <3> QED BY <3>1, <2>0, <1>1, <1>3, <1>4
  <2>2. ASSUME NEW y \in Range(r) PROVE y \in Range(q) /\ y # x
    <3>1. PICK a \in 1..n - 1 : y = r[a]
      BY <1>8, <2>2 DEF Range
    <3>2. PICK b \in 1..n : b # i /\ y = q[b]
      BY <3>1, <1>1, <1>3, <1>4
    <3> QED BY <3>2, <2>0, <1>1, <1>3 DEF Range
  <2>3. ASSUME NEW y \in Range(q), y # x PROVE y \in Range(r)
    <3>1. PICK b \in 1..n : y = q[b]
      BY <1>1, <2>3 DEF Range
    <3>2. b # i
      BY <3>1, <2>3, <1>3
    <3>3. \E a \in 1..n - 1 : r[a] = y
      <4>1. CASE b < i
        <5>1. b \in 1..n - 1 /\ r[b] = q[b] BY <4>1, <1>1, <1>3, <1>4
        <5> QED BY <5>1, <3>1
      <4>2. CASE b > i
        <5>1. b - 1 \in 1..n - 1 /\ ~(b - 1 < i) /\ (b - 1) + 1 = b
          BY <4>2, <1>1, <1>3
        <5>2. r[b - 1] = q[b] BY <5>1, <1>4
        <5> QED BY <5>1, <5>2, <3>1
      <4> QED BY <4>1, <4>2, <3>2, <1>1, <1>3
    <3> QED BY <3>3, <1>8 DEF Range
  <2> QED BY <2>1, <2>2, <2>3
<1> QED BY <1>8, <1>9 DEF r

\* The only multiple of M strictly between -M and M is 0.
LEMMA MultipleSmall ==
  ASSUME NEW M \in Nat \ {0}, NEW d \in Int, M * d < M, -M < M * d
  PROVE  d = 0
<1>1. CASE d >= 1
  <2>1. M * (d - 1) >= 0 BY <1>1
  <2>2. M * (d - 1) = M * d - M OBVIOUS
  <2> QED BY <2>1, <2>2
<1>2. CASE d <= -1
  <2>1. M * (-1 - d) >= 0 BY <1>2
  <2>2. M * (-1 - d) = - M * d - M OBVIOUS
  <2> QED BY <2>1, <2>2
<1> QED BY <1>1, <1>2

\* Fewer than M consecutive increments of a key modulo M never repeat a key.
LEMMA ModInjective ==
  ASSUME NEW t \in Nat, NEW M \in Nat \ {0}, NEW a \in Nat, NEW b \in Nat,
         a < M, b < M, (t + a) % M = (t + b) % M
  PROVE  a = b
<1> DEFINE x == (t + a) \div M
           y == (t + b) \div M
<1>1. x \in Int /\ t + a = M * x + ((t + a) % M)
  OBVIOUS
<1>2. y \in Int /\ t + b = M * y + ((t + b) % M)
  OBVIOUS
<1> HIDE DEF x, y
<1>3. (t + a) % M \in Int /\ M * x \in Int /\ M * y \in Int
  BY <1>1, <1>2
<1>4. M * (x - y) = M * x - M * y
  BY <1>1, <1>2
<1>5. M * (x - y) = a - b
  BY <1>1, <1>2, <1>3, <1>4
<1>6. x - y = 0
  <2>1. x - y \in Int BY <1>1, <1>2
  <2>2. M * (x - y) < M /\ -M < M * (x - y) BY <1>5
  <2> QED BY <2>1, <2>2, MultipleSmall
<1> QED BY <1>5, <1>6

\* TAILQ_REMOVE returns a queue, whether or not x is in it.
LEMMA RemoveType ==
  ASSUME NEW S, NEW q \in Seq(S), NEW x
  PROVE  TAILQ_REMOVE(q, x) \in Seq(S)
<1> DEFINE i == CHOOSE j \in 1..Len(q) : q[j] = x
           n == Len(q)
<1>1. TAILQ_REMOVE(q, x) = [j \in 1..n - 1 |-> IF j < i THEN q[j] ELSE q[j + 1]]
  BY DEF TAILQ_REMOVE
<1> HIDE DEF i
<1>2. n \in Nat /\ \A j \in 1..n : q[j] \in S
  BY LenProperties, ElementOfSeq
<1>3. CASE n = 0
  <2>1. TAILQ_REMOVE(q, x) = <<>>
    BY <1>1, <1>3
  <2> QED BY <2>1
<1>4. CASE n # 0
  <2>1. n - 1 \in Nat
    BY <1>2, <1>4
  <2>2. \A j \in 1..n - 1 : j \in 1..n /\ j + 1 \in 1..n
    BY <1>2
  <2>3. TAILQ_REMOVE(q, x) \in [1..n - 1 -> S]
    BY <1>1, <1>2, <2>2
  <2> QED BY <2>1, <2>3
<1> QED BY <1>3, <1>4

-----------------------------------------------------------------------------
(* Types *)

\* The types, with what the scheduler's local pointers refer to.
TypeInv ==
  /\ SchedTypeOK
  /\ pc \in {"proc", "switch"} => curr_proc \in Proc
  /\ pc \in {"free", "tfree"} => freeing \in Proc

\* What one call hands to scheduler_addready is a sequence of PROCs.
LEMMA BatchType == \A s \in Batches : s \in Seq(Proc)
<1>1. \A n \in 1..Cardinality(Proc) : n \in Nat
  <2>1. Cardinality(Proc) \in Nat
    BY SchedAssumption, FS_CardinalityType
  <2> QED BY <2>1
<1> QED BY <1>1 DEF Batches

\* scheduler_addsleep stores a time stamp, whatever its retries did.
LEMMA SleepType ==
  ASSUME TypeInv, NEW u \in Delay, Sleep(u)
  PROVE  sleep_us' \in [Proc -> Nat] /\ due' \in [Proc -> Nat]
<1> DEFINE wake == (clock + u) % TimeMod
           tries == {k \in 0..MaxTries : FreeSlot(wake, k)}
           last == IF tries = {} THEN MaxTries ELSE CHOOSE k \in tries : TRUE
<1>1. u \in Nat /\ MaxTries \in Nat /\ TimeMod \in Nat \ {0} /\ clock \in Nat
  BY SchedAssumption DEF TypeInv, SchedTypeOK
<1>2. wake \in Nat
  BY <1>1
<1>3. last \in Nat
  BY <1>1
<1>4. (wake + last) % TimeMod \in Nat
  <2> HIDE DEF wake, last
  <2> QED BY <1>1, <1>2, <1>3
<1>5. \/ sleep_us' = sleep_us /\ due' = due
      \/ /\ sleep_us' = [sleep_us EXCEPT ![curr_proc] = (wake + last) % TimeMod]
         /\ due' = [due EXCEPT ![curr_proc] = clock + u]
  BY DEF Sleep, Tries
<1> HIDE DEF wake, last
<1>6. clock + u \in Nat
  BY <1>1
<1> QED BY <1>4, <1>5, <1>6 DEF TypeInv, SchedTypeOK

\* Every step keeps the types.
LEMMA TypeStep == TypeInv /\ [SchedNext]_schedVars => TypeInv'
<1> SUFFICES ASSUME TypeInv, [SchedNext]_schedVars PROVE TypeInv'
  OBVIOUS
<1> USE SchedAssumption DEF TypeInv, SchedTypeOK, Control, ProcState, Blocked
<1>1. CASE Yield \/ End \/ Exit
  BY <1>1 DEF Yield, End, Exit
<1>2. ASSUME NEW u \in Delay, Sleep(u) PROVE TypeInv'
  <2>1. sleep_us' \in [Proc -> Nat] /\ due' \in [Proc -> Nat]
    BY <1>2, SleepType
  <2> QED BY <1>2, <2>1 DEF Sleep
<1>3. ASSUME NEW p \in Proc, Create(p) PROVE TypeInv'
  BY <1>3, PushFacts DEF Create
<1>4. ASSUME NEW p \in Proc, Spawn(p) PROVE TypeInv'
  <2>1. readyQ \o <<p>> \in Seq(Proc) /\ Append(totalQ, p) \in Seq(Proc)
        /\ Range(<<p>>) = {p}
    BY PushFacts, SingletonFacts
  <2> QED BY <1>4, <2>1 DEF Spawn, scheduler_addready
<1>5. ASSUME NEW s \in Batches, AddReady(s) PROVE TypeInv'
  <2>1. s \in Seq(Proc) /\ readyQ \o s \in Seq(Proc) /\ Range(s) \subseteq Proc
    BY BatchType, ConcatFacts, RangeOfSeq
  <2> QED BY <1>5, <2>1 DEF AddReady, Readies, scheduler_addready
<1>6. ASSUME NEW w \in Blocked, NEW s \in Seq(Proc), Waits(w, s) PROVE TypeInv'
  <2>1. readyQ \o s \in Seq(Proc) /\ Range(s) \subseteq Proc
    BY ConcatFacts, RangeOfSeq
  <2> QED BY <1>6, <2>1 DEF Waits
<1>7. ASSUME NEW D, CheckQs(D) PROVE TypeInv'
  BY <1>7 DEF CheckQs
<1>8. ASSUME NEW p \in Proc, WakeProc(p) PROVE TypeInv'
  <2>1. readyQ \o <<p>> \in Seq(Proc) /\ Range(<<p>>) = {p}
    BY PushFacts, SingletonFacts
  <2>2. /\ readyQ' \in Seq(Proc) /\ started' \subseteq Proc
        /\ state' = [q \in Proc |-> IF q \in {p} THEN "READY" ELSE state[q]]
        /\ sleepRB' \subseteq Proc /\ due' = [due EXCEPT ![p] = 0]
        /\ UNCHANGED <<pc, curr_proc, totalQ, sleep_us, is_exit, freeing, clock, now_us>>
    BY <1>8, <2>1 DEF WakeProc, scheduler_addready
  <2>3. due' \in [Proc -> Nat]
    BY <2>2
  <2> QED BY <2>2, <2>3
<1>9. CASE WakeDone \/ Continue \/ SwitchWait \/ LoopExit \/ TeardownEnd
  <2>1. CASE WakeDone
    BY <2>1 DEF WakeDone
  <2>2. CASE Continue \/ LoopExit \/ TeardownEnd
    BY <2>2 DEF Continue, LoopExit, TeardownEnd
  <2>3. CASE SwitchWait
    BY <2>3 DEF SwitchWait
  <2> QED BY <1>9, <2>1, <2>2, <2>3
<1>10. CASE Dispatch
  BY <1>10, HeadTailFacts DEF Dispatch
<1>11. CASE SwitchReady
  <2>1. curr_proc \in Proc
    BY <1>11 DEF SwitchReady
  <2>2. readyQ \o <<curr_proc>> \in Seq(Proc) /\ Range(<<curr_proc>>) = {curr_proc}
    BY <2>1, PushFacts, SingletonFacts
  <2> QED BY <1>11, <2>1, <2>2 DEF SwitchReady, scheduler_addready
<1>12. CASE SwitchEnded
  BY <1>12, RemoveType DEF SwitchEnded
<1>13. CASE FreeDone
  BY <1>13 DEF FreeDone
<1>14. CASE TeardownFree
  BY <1>14, HeadTailFacts DEF TeardownFree
<1>15. CASE Tick
  BY <1>15 DEF Tick
<1>16. CASE UNCHANGED schedVars
  BY <1>16 DEF schedVars
<1>17. ASSUME NEW w \in Blocked, Block(w) PROVE TypeInv'
  <2>1. <<>> \in Seq(Proc)
    BY EmptySeq
  <2>2. Waits(w, <<>>)
    BY <1>17 DEF Block
  <2> QED BY <1>6, <2>1, <2>2
<1>18. ASSUME NEW s \in Batches, RunWait(s) PROVE TypeInv'
  <2>1. s \in Seq(Proc) /\ Waits("RUNWAIT", s) /\ "RUNWAIT" \in Blocked
    BY <1>18, BatchType DEF RunWait
  <2> QED BY <1>6, <2>1
<1> QED
  BY <1>1, <1>2, <1>3, <1>4, <1>5, <1>7, <1>8, <1>9, <1>10, <1>11, <1>12, <1>13,
     <1>14, <1>15, <1>16, <1>17, <1>18
     DEF SchedNext, Leave, Stay, SchedStep, Terminated

\* The state proxc_start sets up has the types.
LEMMA TypeInit == SchedInit => TypeInv
<1>1. <<Main>> \in Seq(Proc)
  BY SchedAssumption, SingletonFacts
<1> SUFFICES ASSUME SchedInit PROVE TypeInv
  OBVIOUS
<1>2. state \in [Proc -> ProcState]
  BY DEF SchedInit, ProcState
<1>3. sleep_us \in [Proc -> Nat] /\ due \in [Proc -> Nat]
  BY DEF SchedInit
<1>4. is_exit \in BOOLEAN
  BY DEF SchedInit
<1> QED
  BY <1>1, <1>2, <1>3, <1>4, SchedAssumption DEF SchedInit, TypeInv, SchedTypeOK, Control

\* Every variable of the scheduler keeps its type, in every build and with any
\* bounds: in particular curr_proc and the queues only ever hold Proc structs.
THEOREM TypeCorrect == SchedSpec => []SchedTypeOK
<1>1. TypeInv => SchedTypeOK
  BY DEF TypeInv
<1> QED BY <1>1, TypeInit, TypeStep, PTL DEF SchedSpec

-----------------------------------------------------------------------------
(* Placement *)

\* What curr_proc and freeing are at each point of scheduler_run.
Where ==
  /\ pc \in {"proc", "switch"} =>
       curr_proc \in Range(totalQ) \cap started /\ freeing = NULL
  /\ pc = "proc" => state[curr_proc] = "RUNNING"
  /\ pc \in {"loop", "wakeup", "next"} => curr_proc = NULL /\ freeing = NULL
  /\ pc = "free" => /\ freeing = curr_proc
                    /\ curr_proc \in started \ Range(totalQ)
                    /\ state[curr_proc] = "ENDED"

\* Each state of a PROC occurs only where it can.
Fits ==
  \A p \in Proc :
    /\ state[p] = "RUNNING" => p = curr_proc /\ pc \in {"proc", "switch"}
    /\ state[p] = "ENDED" => p = curr_proc /\ pc \in {"switch", "free"}
    /\ state[p] = "FREE" => p \notin started
    /\ p \in Range(totalQ) \ started => state[p] = "READY"

\* Placement while scheduler_run is running.
Queues == ReadyQSound /\ SleepRBSound /\ NoLostProc /\ TotalQSound

\* The inductive part of the invariant.
Steady == Where /\ Fits /\ Queues

\* Either ASSERT aborts a sleep that runs out of tries, or there are at most
\* MAX_TRIES other PROCs and fewer increments than time stamps.
RoomToSleep == ~NDEBUG \/ (Cardinality(Proc) <= MaxTries + 1 /\ MaxTries < TimeMod)

\* With at most MaxTries other PROCs the retries of scheduler_addsleep reach a
\* free key: MaxTries + 1 different keys cannot all be taken (pigeonhole).
LEMMA SlotFound ==
  ASSUME TypeInv, NEW t \in Nat, Cardinality(Proc) <= MaxTries + 1, MaxTries < TimeMod,
         curr_proc \in Proc \ sleepRB
  PROVE  \E k \in 0..MaxTries : FreeSlot(t, k)
<1> DEFINE key(k) == (t + k) % TimeMod
           T == {k \in 0..MaxTries : key(k) \notin SleepKeys}
           f == [k \in 0..MaxTries |-> CHOOSE p \in sleepRB : sleep_us[p] = key(k)]
<1>1. /\ MaxTries \in Nat /\ TimeMod \in Nat \ {0} /\ IsFiniteSet(Proc)
      /\ sleepRB \subseteq Proc /\ Cardinality(Proc) \in Nat
  BY SchedAssumption, FS_CardinalityType DEF TypeInv, SchedTypeOK
<1>2. T # {}
  <2>1. SUFFICES ASSUME \A k \in 0..MaxTries : key(k) \in SleepKeys PROVE FALSE
    OBVIOUS
  <2>2. \A k \in 0..MaxTries : f[k] \in sleepRB /\ sleep_us[f[k]] = key(k)
    <3> HIDE DEF key
    <3>1. \A k \in 0..MaxTries : \E p \in sleepRB : sleep_us[p] = key(k)
      BY <2>1 DEF SleepKeys
    <3> QED BY <3>1
  <2>3. f \in [0..MaxTries -> Proc \ {curr_proc}]
    <3>1. f = [k \in 0..MaxTries |-> f[k]]
      OBVIOUS
    <3> HIDE DEF f
    <3> QED BY <1>1, <2>2, <3>1
  <2>4. IsFiniteSet(0..MaxTries) /\ Cardinality(0..MaxTries) = MaxTries + 1
    <3>1. 0 <= MaxTries /\ 0 \in Int /\ MaxTries \in Int
      BY <1>1
    <3> QED BY <3>1, FS_Interval
  <2>5. /\ IsFiniteSet(Proc \ {curr_proc})
        /\ Cardinality(Proc \ {curr_proc}) < Cardinality(0..MaxTries)
    <3>1. IsFiniteSet(Proc \ {curr_proc})
      BY <1>1, FS_RemoveElement
    <3>2. Cardinality(Proc \ {curr_proc}) = Cardinality(Proc) - 1
      BY <1>1, FS_RemoveElement
    <3> QED BY <1>1, <2>4, <3>1, <3>2
  <2> HIDE DEF f, key
  <2>6. PICK x \in 0..MaxTries, y \in 0..MaxTries : x # y /\ f[x] = f[y]
    BY <2>3, <2>4, <2>5, FS_PigeonHole
  <2>7. key(x) = key(y)
    BY <2>2, <2>6
  <2>8. x \in Nat /\ y \in Nat /\ x < TimeMod /\ y < TimeMod
    BY <1>1
  <2>9. x = y
    BY <1>1, <2>7, <2>8, ModInjective DEF key
  <2> QED BY <2>6, <2>9
<1>3. T \in SUBSET Nat
  BY <1>1
<1> HIDE DEF T
<1>4. PICK k \in T : \A j \in T : k <= j
  BY <1>2, <1>3, NatMin
<1>5. k \in 0..MaxTries /\ key(k) \notin SleepKeys
  BY DEF T
<1>6. \A j \in 0..k - 1 : key(j) \in SleepKeys
  <2>1. SUFFICES ASSUME NEW j \in 0..k - 1, key(j) \notin SleepKeys PROVE FALSE
    OBVIOUS
  <2>2. j \in 0..MaxTries /\ ~(k <= j)
    BY <1>1, <1>5
  <2>3. j \in T
    BY <2>1, <2>2 DEF T
  <2> QED BY <2>2, <2>3, <1>4
<1> QED BY <1>5, <1>6 DEF FreeSlot

\* proxc_sleep puts the sleeper in the tree under a key of its own.
LEMMA SleepStep ==
  ASSUME RoomToSleep, TypeInv, TypeInv', Live, Live', Steady, NEW u \in Delay, Sleep(u)
  PROVE  Steady'
<1> DEFINE wake == (clock + u) % TimeMod
           tries == {k \in 0..MaxTries : FreeSlot(wake, k)}
           last == IF tries = {} THEN MaxTries ELSE CHOOSE k \in tries : TRUE
           us == (wake + last) % TimeMod
<1>1. CASE UNCHANGED <<state, sleepRB, sleep_us, due>>
  BY <1>1 DEF Sleep, Steady, Where, Fits, Queues, ReadyQSound, SleepRBSound,
              NoLostProc, TotalQSound, Parked, Live
<1>2. CASE ~UNCHANGED <<state, sleepRB, sleep_us, due>>
  <2>1. /\ pc = "proc" /\ pc' = "switch"
        /\ state' = [state EXCEPT ![curr_proc] = "SLEEPING"]
        /\ sleepRB' = IF tries = {} THEN sleepRB ELSE sleepRB \cup {curr_proc}
        /\ sleep_us' = [sleep_us EXCEPT ![curr_proc] = us]
        /\ UNCHANGED <<curr_proc, totalQ, readyQ, freeing, started>>
    BY <1>2 DEF Sleep, Tries, Live
  <2>2. tries # {}
    <3>1. CASE ~NDEBUG
      <4>1. tries # {}
        BY <3>1, <1>2 DEF Sleep, Tries, Live
      <4> QED BY <4>1
    <3>2. CASE NDEBUG
      <4>1. wake \in Nat
        BY SchedAssumption DEF TypeInv, SchedTypeOK
      <4>2. \E k \in 0..MaxTries : FreeSlot(wake, k)
        <5>1. curr_proc \in Proc \ sleepRB
          BY <2>1 DEF TypeInv, Steady, Queues, Where, SleepRBSound
        <5> HIDE DEF wake
        <5> QED BY <3>2, <4>1, <5>1, SlotFound DEF RoomToSleep
      <4> HIDE DEF wake
      <4> QED BY <4>2
    <3> QED BY <3>1, <3>2
  <2>3. us \notin SleepKeys
    <3>1. last \in tries
      BY <2>2
    <3> HIDE DEF last, wake
    <3> QED BY <3>1 DEF FreeSlot
  <2> HIDE DEF us, tries
  <2>4. sleepRB' = sleepRB \cup {curr_proc}
    BY <2>1, <2>2
  <2> USE DEF Steady, Queues
  <2>5. /\ curr_proc \in Proc /\ curr_proc \notin sleepRB
        /\ curr_proc \in Range(totalQ) \cap started /\ state[curr_proc] = "RUNNING"
    BY <2>1 DEF TypeInv, SchedTypeOK, Where, SleepRBSound
  <2>6. Where'
    BY <2>1, <2>5 DEF Where
  <2>7. Fits'
    BY <2>1, <2>5 DEF Fits, TypeInv, SchedTypeOK
  <2>8. ReadyQSound' /\ NoLostProc' /\ TotalQSound'
    BY <2>1, <2>4, <2>5 DEF ReadyQSound, NoLostProc, TotalQSound, TypeInv, SchedTypeOK, Blocked
  <2>9. SleepRBSound'
    <3>1. \A p \in sleepRB : sleep_us[p] # us
      BY <2>3 DEF SleepKeys
    <3> QED
      BY <3>1, <2>1, <2>4, <2>5 DEF SleepRBSound, TypeInv, SchedTypeOK
  <2> QED BY <2>6, <2>7, <2>8, <2>9
<1> QED BY <1>1, <1>2

\* The queues hold PROCs.
LEMMA QueuesInProc ==
  ASSUME TypeInv
  PROVE  Range(totalQ) \subseteq Proc /\ Range(readyQ) \subseteq Proc
BY RangeOfSeq DEF TypeInv, SchedTypeOK

\* A PROC that readies others and blocks (channels, ALT, RUN).
LEMMA WaitStep ==
  ASSUME TypeInv, TypeInv', Steady, NEW w \in Blocked, NEW s \in Seq(Proc),
         IsInjective(s), Range(s) \subseteq Parked, Waits(w, s)
  PROVE  Steady'
<1> USE DEF Steady, Queues
<1>1. /\ pc = "proc" /\ pc' = "switch" /\ readyQ' = readyQ \o s
      /\ started' = started \cup Range(s)
      /\ state' = [p \in Proc |-> IF p = curr_proc THEN w
                                  ELSE IF p \in Range(s) THEN "READY"
                                  ELSE state[p]]
      /\ UNCHANGED <<curr_proc, totalQ, sleepRB, sleep_us, freeing>>
  BY DEF Waits
<1>2. /\ curr_proc \in Proc /\ curr_proc \notin sleepRB
      /\ curr_proc \in Range(totalQ) \cap started /\ state[curr_proc] = "RUNNING"
      /\ freeing = NULL
  BY <1>1 DEF TypeInv, SchedTypeOK, Where, SleepRBSound
<1>3. /\ \A p \in Range(s) : /\ p \in Proc /\ p \in Range(totalQ) /\ p # freeing
                             /\ state[p] \in Blocked \cup {"READY"}
                             /\ p \notin Range(readyQ)
      /\ curr_proc \notin Range(s)
  BY <1>2, RangeOfSeq DEF Parked, Fits, Blocked, ReadyQSound, TypeInv, SchedTypeOK
<1>4. /\ Range(readyQ') = Range(readyQ) \cup Range(s)
      /\ IsInjective(readyQ')
  <2>1. readyQ \in Seq(Proc) /\ IsInjective(readyQ) /\ Range(readyQ) \cap Range(s) = {}
    BY <1>3 DEF ReadyQSound, TypeInv, SchedTypeOK
  <2> QED BY <1>1, <2>1, ConcatFacts
<1>5. Where'
  BY <1>1, <1>2 DEF Where
<1>6. Fits'
  BY <1>1, <1>2, <1>3 DEF Fits, Blocked
<1>7. ReadyQSound'
  BY <1>1, <1>2, <1>3, <1>4 DEF ReadyQSound, TypeInv, SchedTypeOK
<1>8. SleepRBSound'
  <2>1. \A p \in Proc : state'[p] = "SLEEPING" <=> state[p] = "SLEEPING"
    BY <1>1, <1>2, <1>3 DEF Blocked
  <2> QED BY <1>1, <2>1, QueuesInProc DEF SleepRBSound
<1>9. NoLostProc'
  BY <1>1, <1>3, <1>4, QueuesInProc DEF NoLostProc
<1>10. TotalQSound'
  BY <1>1, <1>2, <1>3 DEF TotalQSound, Blocked
<1> QED BY <1>5, <1>6, <1>7, <1>8, <1>9, <1>10

\* A wake-up of PROCs that are parked.
LEMMA ReadyStep ==
  ASSUME TypeInv, TypeInv', Live, Steady, NEW s \in Seq(Proc), AddReady(s)
  PROVE  Steady'
<1> USE DEF Steady, Queues
<1>1. /\ pc \in {"proc", "wakeup", "free"} /\ readyQ' = readyQ \o s
      /\ IsInjective(s) /\ Range(s) \subseteq Parked
      /\ started' = started \cup Range(s)
      /\ state' = [p \in Proc |-> IF p \in Range(s) THEN "READY" ELSE state[p]]
      /\ UNCHANGED <<pc, curr_proc, totalQ, sleepRB, sleep_us, freeing>>
  BY DEF AddReady, Readies, scheduler_addready
<1>2. \A p \in Range(s) : /\ p \in Proc /\ p \in Range(totalQ) /\ p # freeing
                          /\ state[p] \in Blocked \cup {"READY"}
                          /\ p \notin Range(readyQ)
  BY <1>1, RangeOfSeq DEF Parked, Fits, Blocked, ReadyQSound, TypeInv, SchedTypeOK
<1>3. curr_proc \notin Range(s)
  BY <1>1, <1>2, SchedAssumption DEF Where, Parked, Blocked
<1>4. /\ Range(readyQ') = Range(readyQ) \cup Range(s)
      /\ IsInjective(readyQ')
  <2>1. readyQ \in Seq(Proc) /\ IsInjective(readyQ) /\ Range(readyQ) \cap Range(s) = {}
    BY <1>2 DEF ReadyQSound, TypeInv, SchedTypeOK
  <2> QED BY <1>1, <2>1, ConcatFacts
<1>5. Where'
  BY <1>1, <1>3 DEF Where, TypeInv, SchedTypeOK
<1>6. Fits'
  BY <1>1, <1>2 DEF Fits, Blocked
<1>7. ReadyQSound'
  BY <1>1, <1>2, <1>3, <1>4 DEF ReadyQSound, TypeInv, SchedTypeOK
<1>8. SleepRBSound'
  <2>1. \A p \in Proc : state'[p] = "SLEEPING" <=> state[p] = "SLEEPING"
    BY <1>1, <1>2 DEF Blocked
  <2> QED BY <1>1, <2>1, QueuesInProc DEF SleepRBSound
<1>9. NoLostProc'
  BY <1>1, <1>2, <1>4 DEF NoLostProc, TypeInv, SchedTypeOK
<1>10. TotalQSound'
  BY <1>1, <1>2 DEF TotalQSound, Blocked
<1> QED BY <1>5, <1>6, <1>7, <1>8, <1>9, <1>10

\* proc_create, alone or followed by scheduler_addready.
LEMMA BirthStep ==
  ASSUME TypeInv, TypeInv', Steady, NEW p \in Proc, Create(p) \/ Spawn(p)
  PROVE  Steady'
<1> USE DEF Steady, Queues
<1>1. /\ pc = "proc" /\ state[p] = "FREE" /\ totalQ' = Append(totalQ, p)
      /\ UNCHANGED <<pc, curr_proc, sleepRB, sleep_us, freeing>>
      /\ state' = [state EXCEPT ![p] = "READY"]
      /\ \/ UNCHANGED <<readyQ, started>>
         \/ readyQ' = readyQ \o <<p>> /\ started' = started \cup {p}
  <2>1. CASE Create(p)
    BY <2>1 DEF Create
  <2>2. CASE Spawn(p)
    <3>1. Range(<<p>>) = {p}
      BY SingletonFacts
    <3>2. [q \in Proc |-> IF q \in {p} THEN "READY" ELSE state[q]]
            = [state EXCEPT ![p] = "READY"]
      BY DEF TypeInv, SchedTypeOK
    <3> QED BY <2>2, <3>1, <3>2 DEF Spawn, scheduler_addready
  <2> QED BY <2>1, <2>2
<1>2. /\ curr_proc \in Proc /\ curr_proc # p
      /\ curr_proc \in Range(totalQ) \cap started /\ state[curr_proc] = "RUNNING"
      /\ freeing = NULL
  BY <1>1 DEF TypeInv, SchedTypeOK, Where
<1>3. p \notin Range(totalQ) /\ p \notin started /\ p \notin Range(readyQ) /\ p \notin sleepRB
  BY <1>1 DEF TotalQSound, Fits, ReadyQSound, SleepRBSound
<1>4. Range(totalQ') = Range(totalQ) \cup {p} /\ IsInjective(totalQ')
  <2>1. totalQ \in Seq(Proc) /\ IsInjective(totalQ)
    BY DEF TotalQSound, TypeInv, SchedTypeOK
  <2>2. totalQ' = totalQ \o <<p>>
    BY <1>1, <2>1, PushFacts
  <2> QED BY <1>3, <2>1, <2>2, PushFacts
<1>5. /\ IsInjective(readyQ')
      /\ \/ Range(readyQ') = Range(readyQ) /\ started' = started
         \/ Range(readyQ') = Range(readyQ) \cup {p} /\ started' = started \cup {p}
  <2>1. readyQ \in Seq(Proc) /\ IsInjective(readyQ)
    BY DEF ReadyQSound, TypeInv, SchedTypeOK
  <2>2. Range(readyQ \o <<p>>) = Range(readyQ) \cup {p} /\ IsInjective(readyQ \o <<p>>)
    BY <1>3, <2>1, PushFacts
  <2> QED BY <1>1, <2>1, <2>2
<1>6. Where'
  BY <1>1, <1>2, <1>4, <1>5 DEF Where, TypeInv, SchedTypeOK
<1>7. Fits'
  BY <1>1, <1>2, <1>4, <1>5 DEF Fits, TypeInv, SchedTypeOK
<1>8. ReadyQSound'
  BY <1>1, <1>2, <1>3, <1>4, <1>5 DEF ReadyQSound, TypeInv, SchedTypeOK
<1>9. SleepRBSound'
  BY <1>1, <1>3, <1>4 DEF SleepRBSound, TypeInv, SchedTypeOK
<1>10. NoLostProc'
  BY <1>1, <1>2, <1>3, <1>4, <1>5 DEF NoLostProc, TypeInv, SchedTypeOK
<1>11. TotalQSound'
  BY <1>1, <1>2, <1>4, SchedAssumption DEF TotalQSound, TypeInv, SchedTypeOK
<1> QED BY <1>6, <1>7, <1>8, <1>9, <1>10, <1>11

\* One round of the first loop of _scheduler_wakeup.
LEMMA WakeStep ==
  ASSUME TypeInv, TypeInv', Steady, NEW p \in Proc, WakeProc(p)
  PROVE  Steady'
<1> USE DEF Steady, Queues
<1>1. /\ pc = "wakeup" /\ p \in sleepRB /\ readyQ' = readyQ \o <<p>>
      /\ sleepRB' = sleepRB \ {p} /\ started' = started \cup {p}
      /\ state' = [state EXCEPT ![p] = "READY"]
      /\ UNCHANGED <<pc, curr_proc, totalQ, sleep_us, freeing>>
  <2>1. Range(<<p>>) = {p}
    BY SingletonFacts
  <2>2. [q \in Proc |-> IF q \in {p} THEN "READY" ELSE state[q]]
          = [state EXCEPT ![p] = "READY"]
    BY DEF TypeInv, SchedTypeOK
  <2> QED BY <2>1, <2>2 DEF WakeProc, scheduler_addready, IsFirstSleeper
<1>2. /\ p \in Range(totalQ) /\ state[p] = "SLEEPING" /\ p \notin Range(readyQ)
      /\ curr_proc = NULL /\ freeing = NULL /\ p \in started
  BY <1>1 DEF SleepRBSound, ReadyQSound, Where, Fits
<1>3. Range(readyQ') = Range(readyQ) \cup {p} /\ IsInjective(readyQ')
  <2>1. readyQ \in Seq(Proc) /\ IsInjective(readyQ)
    BY DEF ReadyQSound, TypeInv, SchedTypeOK
  <2> QED BY <1>1, <1>2, <2>1, PushFacts
<1>4. Where'
  BY <1>1, <1>2 DEF Where
<1>5. Fits'
  BY <1>1, <1>2, QueuesInProc DEF Fits, TypeInv, SchedTypeOK
<1>6. ReadyQSound'
  BY <1>1, <1>2, <1>3, QueuesInProc, SchedAssumption DEF ReadyQSound, TypeInv, SchedTypeOK
<1>7. SleepRBSound'
  <2>1. \A q \in Proc : state'[q] = "SLEEPING" <=> q # p /\ state[q] = "SLEEPING"
    BY <1>1 DEF TypeInv, SchedTypeOK
  <2> QED BY <1>1, <2>1, QueuesInProc DEF SleepRBSound
<1>8. NoLostProc'
  BY <1>1, <1>2, <1>3, QueuesInProc DEF NoLostProc, TypeInv, SchedTypeOK
<1>9. TotalQSound'
  BY <1>1, <1>2 DEF TotalQSound, TypeInv, SchedTypeOK
<1> QED BY <1>4, <1>5, <1>6, <1>7, <1>8, <1>9

\* The first of readyQ is resumed.
LEMMA DispatchStep ==
  ASSUME TypeInv, TypeInv', Steady, Dispatch
  PROVE  Steady'
<1> USE DEF Steady, Queues
<1> DEFINE h == Head(readyQ)
<1>1. /\ pc = "next" /\ pc' = "proc" /\ curr_proc' = h
      /\ state' = [state EXCEPT ![h] = "RUNNING"]
      /\ sleep_us' = [sleep_us EXCEPT ![h] = 0]
      /\ UNCHANGED <<totalQ, sleepRB, freeing, started>>
  BY DEF Dispatch
<1>2. /\ h \in Proc /\ h \in Range(readyQ) /\ IsInjective(readyQ')
      /\ Range(readyQ') = Range(readyQ) \ {h}
  <2>1. readyQ \in Seq(Proc) /\ readyQ # <<>> /\ IsInjective(readyQ)
    BY DEF Dispatch, TypeInv, SchedTypeOK, ReadyQSound
  <2> QED BY <2>1, HeadTailFacts DEF Dispatch
<1> HIDE DEF h
<1>3. /\ h \in Range(totalQ) \cap started /\ state[h] = "READY" /\ h \notin sleepRB
      /\ curr_proc = NULL /\ freeing = NULL
  BY <1>1, <1>2 DEF ReadyQSound, SleepRBSound, Where
<1>4. Where'
  BY <1>1, <1>2, <1>3 DEF Where, TypeInv, SchedTypeOK
<1>5. Fits'
  BY <1>1, <1>2, <1>3, SchedAssumption DEF Fits, TypeInv, SchedTypeOK
<1>6. ReadyQSound'
  BY <1>1, <1>2, <1>3, QueuesInProc DEF ReadyQSound, TypeInv, SchedTypeOK
<1>7. SleepRBSound'
  <2>1. \A q \in Proc : state'[q] = "SLEEPING" <=> state[q] = "SLEEPING"
    BY <1>1, <1>3 DEF TypeInv, SchedTypeOK
  <2>2. \A q \in sleepRB : sleep_us'[q] = sleep_us[q]
    BY <1>1, <1>3 DEF TypeInv, SchedTypeOK
  <2> QED BY <1>1, <2>1, <2>2, QueuesInProc DEF SleepRBSound
<1>8. NoLostProc'
  BY <1>1, <1>2, <1>3, QueuesInProc, SchedAssumption DEF NoLostProc, TypeInv, SchedTypeOK
<1>9. TotalQSound'
  BY <1>1, <1>2, <1>3 DEF TotalQSound, TypeInv, SchedTypeOK
<1> QED BY <1>4, <1>5, <1>6, <1>7, <1>8, <1>9

\* A PROC that yielded goes to the back of readyQ.
LEMMA RequeueStep ==
  ASSUME TypeInv, TypeInv', Steady, SwitchReady
  PROVE  Steady'
<1> USE DEF Steady, Queues
<1> DEFINE p == curr_proc
<1>1. /\ p \in Proc /\ p \in Range(totalQ) \cap started /\ freeing = NULL
      /\ state[p] \in {"RUNNING", "READY"} /\ p \notin Range(readyQ) /\ p \notin sleepRB
  BY DEF SwitchReady, TypeInv, SchedTypeOK, Where, ReadyQSound, SleepRBSound
<1>2. /\ pc' = "loop" /\ curr_proc' = NULL /\ readyQ' = readyQ \o <<p>>
      /\ state' = [state EXCEPT ![p] = "READY"]
      /\ UNCHANGED <<totalQ, sleepRB, sleep_us, freeing, started>>
  <2>1. Range(<<p>>) = {p}
    BY <1>1, SingletonFacts
  <2>2. [q \in Proc |-> IF q \in {p} THEN "READY" ELSE state[q]]
          = [state EXCEPT ![p] = "READY"]
    BY DEF TypeInv, SchedTypeOK
  <2> QED BY <1>1, <2>1, <2>2 DEF SwitchReady, scheduler_addready
<1>3. Range(readyQ') = Range(readyQ) \cup {p} /\ IsInjective(readyQ')
  <2>1. readyQ \in Seq(Proc) /\ IsInjective(readyQ)
    BY DEF ReadyQSound, TypeInv, SchedTypeOK
  <2> QED BY <1>1, <1>2, <2>1, PushFacts
<1>4. Where'
  BY <1>1, <1>2 DEF Where
<1>5. Fits'
  BY <1>1, <1>2, QueuesInProc DEF Fits, TypeInv, SchedTypeOK
<1>6. ReadyQSound'
  BY <1>1, <1>2, <1>3, QueuesInProc, SchedAssumption DEF ReadyQSound, TypeInv, SchedTypeOK
<1>7. SleepRBSound'
  <2>1. \A q \in Proc : state'[q] = "SLEEPING" <=> state[q] = "SLEEPING"
    BY <1>1, <1>2 DEF TypeInv, SchedTypeOK
  <2> QED BY <1>2, <2>1, QueuesInProc DEF SleepRBSound
<1>8. NoLostProc'
  BY <1>1, <1>2, <1>3, QueuesInProc DEF NoLostProc, TypeInv, SchedTypeOK
<1>9. TotalQSound'
  BY <1>1, <1>2 DEF TotalQSound, TypeInv, SchedTypeOK
<1> QED BY <1>4, <1>5, <1>6, <1>7, <1>8, <1>9

\* A PROC that waits or sleeps is left to its waker.
LEMMA ParkStep ==
  ASSUME TypeInv, TypeInv', Steady, SwitchWait
  PROVE  Steady'
<1> USE DEF Steady, Queues
<1>1. /\ curr_proc \in Proc /\ curr_proc \in Range(totalQ) \cap started /\ freeing = NULL
      /\ state[curr_proc] \in Blocked \cup {"SLEEPING"}
      /\ pc' = "loop" /\ curr_proc' = NULL
      /\ UNCHANGED <<state, totalQ, readyQ, sleepRB, sleep_us, freeing, started>>
  BY DEF SwitchWait, TypeInv, SchedTypeOK, Where
<1>2. Where'
  BY <1>1 DEF Where
<1>3. Fits'
  BY <1>1 DEF Fits, SwitchWait, Blocked
<1>4. ReadyQSound'
  BY <1>1, QueuesInProc, SchedAssumption DEF ReadyQSound
<1>5. SleepRBSound' /\ TotalQSound'
  BY <1>1 DEF SleepRBSound, TotalQSound
<1>6. NoLostProc'
  <2>1. curr_proc \in sleepRB \/ state[curr_proc] \in Blocked
    BY <1>1 DEF SleepRBSound
  <2> QED BY <1>1, <2>1 DEF NoLostProc
<1> QED BY <1>2, <1>3, <1>4, <1>5, <1>6

\* An ended PROC is unlinked from totalQ.
LEMMA EndedStep ==
  ASSUME TypeInv, TypeInv', Steady, SwitchEnded
  PROVE  Steady'
<1> USE DEF Steady, Queues
<1>1. /\ curr_proc \in Proc /\ curr_proc \in Range(totalQ) \cap started /\ freeing = NULL
      /\ state[curr_proc] = "ENDED" /\ curr_proc \notin sleepRB
      /\ pc = "switch" /\ pc' = "free" /\ freeing' = curr_proc
      /\ totalQ' = TAILQ_REMOVE(totalQ, curr_proc)
      /\ UNCHANGED <<state, curr_proc, readyQ, sleepRB, sleep_us, started>>
  BY DEF SwitchEnded, TypeInv, SchedTypeOK, Where, SleepRBSound
<1>2. Range(totalQ') = Range(totalQ) \ {curr_proc} /\ IsInjective(totalQ')
  BY <1>1, RemoveFacts DEF TotalQSound, TypeInv, SchedTypeOK
<1>3. Where'
  BY <1>1, <1>2 DEF Where
<1>4. Fits'
  BY <1>1, <1>2 DEF Fits
<1>5. ReadyQSound'
  BY <1>1, <1>2 DEF ReadyQSound
<1>6. SleepRBSound'
  BY <1>1, <1>2 DEF SleepRBSound
<1>7. NoLostProc'
  BY <1>1, <1>2 DEF NoLostProc
<1>8. TotalQSound'
  BY <1>1, <1>2, SchedAssumption DEF TotalQSound
<1> QED BY <1>3, <1>4, <1>5, <1>6, <1>7, <1>8

\* The ended PROC's struct is freed.
LEMMA FreedStep ==
  ASSUME TypeInv, TypeInv', Live, Steady, FreeDone
  PROVE  Steady'
<1> USE DEF Steady, Queues
<1> DEFINE p == freeing
<1>1. /\ p \in Proc /\ p = curr_proc /\ p \notin Range(totalQ) /\ state[p] = "ENDED"
      /\ pc = "free" /\ pc' = "loop" /\ curr_proc' = NULL /\ freeing' = NULL
      /\ started' = started \ {p}
      /\ state' = [state EXCEPT ![p] = "FREE"]
      /\ UNCHANGED <<totalQ, readyQ, sleepRB, sleep_us>>
  BY DEF FreeDone, TypeInv, SchedTypeOK, Where, Live
<1>2. Where'
  BY <1>1 DEF Where
<1>3. Fits'
  BY <1>1 DEF Fits, TypeInv, SchedTypeOK
<1>4. ReadyQSound'
  BY <1>1, QueuesInProc, SchedAssumption DEF ReadyQSound, TypeInv, SchedTypeOK
<1>5. SleepRBSound'
  <2>1. \A q \in Proc : state'[q] = "SLEEPING" <=> state[q] = "SLEEPING"
    BY <1>1 DEF TypeInv, SchedTypeOK
  <2> QED BY <1>1, <2>1, QueuesInProc DEF SleepRBSound
<1>6. NoLostProc'
  BY <1>1, QueuesInProc DEF NoLostProc, TypeInv, SchedTypeOK
<1>7. TotalQSound'
  <2>1. \A q \in Proc : state'[q] # "FREE" <=> q \in Range(totalQ)
    BY <1>1 DEF TotalQSound, TypeInv, SchedTypeOK
  <2> QED BY <1>1, <2>1, SchedAssumption DEF TotalQSound
<1> QED BY <1>2, <1>3, <1>4, <1>5, <1>6, <1>7

\* Steps that move no PROC.
LEMMA QuietStep ==
  ASSUME TypeInv, TypeInv', Live, Steady,
         Yield \/ Exit \/ WakeDone \/ Continue \/ Tick \/ UNCHANGED schedVars
           \/ \E D : CheckQs(D)
  PROVE  Steady'
<1> USE DEF Steady, Queues
<1>1. /\ \/ pc' = pc
         \/ pc = "proc" /\ pc' = "switch"
         \/ pc \in {"loop", "wakeup", "next"} /\ pc' \in {"loop", "wakeup", "next"}
      /\ UNCHANGED <<state, curr_proc, totalQ, readyQ, sleepRB, sleep_us, freeing, started>>
  BY DEF Yield, Exit, WakeDone, Continue, Tick, schedVars, CheckQs
<1>2. Where'
  BY <1>1 DEF Where
<1>3. Fits'
  BY <1>1 DEF Fits
<1>4. Queues'
  BY <1>1 DEF ReadyQSound, SleepRBSound, NoLostProc, TotalQSound
<1> QED BY <1>2, <1>3, <1>4

\* A PROC's function returns.
LEMMA EndStep ==
  ASSUME TypeInv, TypeInv', Steady, End
  PROVE  Steady'
<1> USE DEF Steady, Queues
<1>1. /\ curr_proc \in Proc /\ curr_proc \in Range(totalQ) \cap started /\ freeing = NULL
      /\ state[curr_proc] = "RUNNING" /\ curr_proc \notin sleepRB
      /\ pc = "proc" /\ pc' = "switch" /\ state' = [state EXCEPT ![curr_proc] = "ENDED"]
      /\ UNCHANGED <<curr_proc, totalQ, readyQ, sleepRB, sleep_us, freeing, started>>
  BY DEF End, TypeInv, SchedTypeOK, Where, SleepRBSound
<1>2. Where'
  BY <1>1 DEF Where
<1>3. Fits'
  BY <1>1 DEF Fits, TypeInv, SchedTypeOK
<1>4. ReadyQSound'
  BY <1>1, QueuesInProc DEF ReadyQSound, TypeInv, SchedTypeOK
<1>5. SleepRBSound'
  <2>1. \A q \in Proc : state'[q] = "SLEEPING" <=> state[q] = "SLEEPING"
    BY <1>1 DEF TypeInv, SchedTypeOK
  <2> QED BY <1>1, <2>1, QueuesInProc DEF SleepRBSound
<1>6. NoLostProc'
  BY <1>1, QueuesInProc DEF NoLostProc, TypeInv, SchedTypeOK
<1>7. TotalQSound'
  BY <1>1 DEF TotalQSound, TypeInv, SchedTypeOK
<1> QED BY <1>2, <1>3, <1>4, <1>5, <1>6, <1>7

\* The inductive invariant.
SInv == TypeInv /\ (Live => Steady)

\* It holds when scheduler_run starts.
LEMMA SteadyInit == SchedInit => SInv
<1> SUFFICES ASSUME SchedInit PROVE SInv
  OBVIOUS
<1>1. TypeInv
  BY TypeInit
<1>2. Range(<<Main>>) = {Main} /\ IsInjective(<<Main>>)
  BY SchedAssumption, SingletonFacts
<1>3. Range(totalQ) = {Main} /\ Range(readyQ) = {Main}
      /\ IsInjective(totalQ) /\ IsInjective(readyQ)
  BY <1>2 DEF SchedInit
<1>4. Where /\ Fits
  BY <1>3 DEF SchedInit, Where, Fits
<1>5. Queues
  BY <1>3, SchedAssumption
     DEF SchedInit, Queues, ReadyQSound, SleepRBSound, NoLostProc, TotalQSound
<1> QED BY <1>1, <1>4, <1>5 DEF SInv, Steady

\* After scheduler_run has returned nothing leads back.
LEMMA StaysDown ==
  ASSUME ~Live, [SchedNext]_schedVars
  PROVE  ~Live'
BY DEF Live, SchedNext, Leave, Stay, SchedStep, Yield, Sleep, End, Exit, Block,
   RunWait, Waits, Create, Spawn, AddReady, Readies, CheckQs, WakeProc, WakeDone, Dispatch,
   Continue, SwitchReady, SwitchWait, SwitchEnded, FreeDone, LoopExit, TeardownFree,
   TeardownEnd, Tick, Terminated, schedVars

\* The steps that do not put the running PROC to sleep.
AwakeNext ==
  \/ Yield
  \/ End
  \/ Exit
  \/ \E w \in Blocked : Block(w)
  \/ \E s \in Batches : RunWait(s)
  \/ Stay
  \/ \E s \in Batches : AddReady(s)
  \/ SchedStep
  \/ Tick
  \/ Terminated

\* A step of the scheduler is one of those or a sleep.
LEMMA SleepOrAwake == SchedNext <=> AwakeNext \/ \E u \in Delay : Sleep(u)
BY DEF SchedNext, AwakeNext, Leave

\* They keep the invariant whatever the room in the sleep tree; once
\* scheduler_run has returned there is nothing left to keep.
LEMMA AwakeStep ==
  ASSUME SInv, [AwakeNext]_schedVars
  PROVE  SInv'
<1>1. TypeInv /\ TypeInv' /\ [SchedNext]_schedVars
  BY TypeStep, SleepOrAwake DEF SInv
<1>2. CASE ~Live
  BY <1>1, <1>2, StaysDown DEF SInv
<1>3. CASE Live
  <2> SUFFICES ASSUME Live' PROVE Steady'
    BY <1>1 DEF SInv
  <2>1. Steady
    BY <1>3 DEF SInv
  <2>2. ASSUME NEW w \in Blocked, Block(w) PROVE Steady'
    <3>1. <<>> \in Seq(Proc) /\ IsInjective(<<>>) /\ Range(<<>>) = {}
      BY DEF IsInjective, Range
    <3>2. Waits(w, <<>>)
      BY <2>2 DEF Block
    <3> QED BY <1>1, <2>1, <3>1, <3>2, WaitStep
  <2>3. ASSUME NEW s \in Batches, RunWait(s) PROVE Steady'
    <3>1. s \in Seq(Proc) /\ "RUNWAIT" \in Blocked
      BY BatchType DEF Blocked
    <3> QED BY <1>1, <2>1, <2>3, <3>1, WaitStep DEF RunWait
  <2>4. ASSUME Stay PROVE Steady'
    BY <1>1, <2>1, <2>4, BirthStep DEF Stay
  <2>5. ASSUME NEW s \in Batches, AddReady(s) PROVE Steady'
    BY <1>1, <1>3, <2>1, <2>5, BatchType, ReadyStep
  <2>6. ASSUME SchedStep PROVE Steady'
    <3>1. CASE LoopExit \/ TeardownFree \/ TeardownEnd
      BY <3>1 DEF LoopExit, TeardownFree, TeardownEnd, Live
    <3>2. CASE \E other \in {{}, {clock}} : CheckQs(SleepKeys \cup other)
      BY <1>1, <1>3, <2>1, <3>2, QuietStep
    <3> QED
      BY <1>1, <1>3, <2>1, <2>6, <3>1, <3>2, QuietStep, WakeStep, DispatchStep,
         RequeueStep, ParkStep, EndedStep, FreedStep DEF SchedStep
  <2>7. CASE Yield \/ End \/ Exit \/ Tick \/ UNCHANGED schedVars
    BY <1>1, <1>3, <2>1, <2>7, QuietStep, EndStep
  <2> QED
    BY <2>2, <2>3, <2>4, <2>5, <2>6, <2>7 DEF AwakeNext, Terminated
<1> QED BY <1>2, <1>3

\* Every step keeps it when there is room for every sleeper.
LEMMA SteadyStep ==
  ASSUME RoomToSleep, SInv, [SchedNext]_schedVars
  PROVE  SInv'
<1>1. ASSUME NEW u \in Delay, Sleep(u) PROVE SInv'
  <2>1. TypeInv /\ TypeInv' /\ Live
    BY <1>1, TypeStep DEF SInv, Sleep, Live
  <2>2. Live' => Steady'
    BY <1>1, <2>1, SleepStep DEF SInv
  <2> QED BY <2>1, <2>2 DEF SInv
<1> QED BY <1>1, AwakeStep, SleepOrAwake

\* While scheduler_run is running, readyQ, the sleep tree and the waiting states
\* partition the PROCs of totalQ, whatever calls the PROCs make in whatever
\* order: nobody is linked twice, lost, or left under another sleeper's key.
THEOREM QueuesPartition ==
  ASSUME RoomToSleep
  PROVE  SchedSpec => []Placement
<1>1. SInv => Placement
  BY DEF SInv, Steady, Queues, Placement
<1>2. SInv /\ [SchedNext]_schedVars => SInv'
  BY SteadyStep
<1> QED BY <1>1, <1>2, SteadyInit, PTL DEF SchedSpec

-----------------------------------------------------------------------------
(* Sleeping *)

\* The clock itself does not wrap around.
NoWrap == MaxTime < TimeMod

\* A sleeper's key is no earlier than the time it asked for, if that did not
\* overflow, and the time _scheduler_wakeup has read is in the past.
Keyed ==
  /\ clock <= MaxTime
  /\ pc = "wakeup" => now_us <= clock
  /\ Live => \A p \in sleepRB : due[p] < TimeMod => due[p] <= sleep_us[p]

\* A time stamp below the modulus is not reduced.
LEMMA ModSmall ==
  ASSUME NEW a \in Nat, NEW M \in Nat \ {0}, a < M
  PROVE  a % M = a
OBVIOUS

\* The retries of scheduler_addsleep only ever postpone a sleeper.
LEMMA KeyedSleep ==
  ASSUME NoWrap, SInv, Live, Keyed, NEW u \in Delay, Sleep(u)
  PROVE  \A p \in sleepRB' : due'[p] < TimeMod => due'[p] <= sleep_us'[p]
<1> DEFINE wake == (clock + u) % TimeMod
           tries == {k \in 0..MaxTries : FreeSlot(wake, k)}
           last == IF tries = {} THEN MaxTries ELSE CHOOSE k \in tries : TRUE
<1>1. /\ u \in Nat /\ clock \in Nat /\ MaxTime \in Nat /\ TimeMod \in Nat \ {0}
      /\ MaxTries \in Nat /\ MaxTime < TimeMod
      /\ due \in [Proc -> Nat] /\ sleep_us \in [Proc -> Nat] /\ sleepRB \subseteq Proc
  BY SchedAssumption DEF NoWrap, SInv, TypeInv, SchedTypeOK
<1>2. clock + u \in Nat
  BY <1>1
<1>3. wake \in Nat /\ (clock + u < TimeMod => wake = clock + u)
  BY <1>1, <1>2, ModSmall
<1>4. last \in Nat
  BY <1>1
<1>5. /\ wake + last <= MaxTime
      /\ \/ UNCHANGED <<sleepRB, sleep_us, due>>
         \/ /\ sleepRB' \subseteq sleepRB \cup {curr_proc}
            /\ sleep_us' = [sleep_us EXCEPT ![curr_proc] = (wake + last) % TimeMod]
            /\ due' = [due EXCEPT ![curr_proc] = clock + u]
  BY DEF Sleep, Tries
<1> HIDE DEF wake, last
<1>6. (wake + last) % TimeMod = wake + last
  <2>1. wake + last \in Nat /\ wake + last < TimeMod
    BY <1>1, <1>3, <1>4, <1>5
  <2> QED BY <1>1, <2>1, ModSmall
<1>7. clock + u < TimeMod => clock + u <= wake + last
  BY <1>1, <1>3, <1>4
<1>8. \A p \in sleepRB : due[p] < TimeMod => due[p] <= sleep_us[p]
  BY DEF Keyed
<1>9. CASE UNCHANGED <<sleepRB, sleep_us, due>>
  BY <1>8, <1>9
<1>10. CASE ~UNCHANGED <<sleepRB, sleep_us, due>>
  <2> SUFFICES ASSUME NEW p \in sleepRB', due'[p] < TimeMod
               PROVE  due'[p] <= sleep_us'[p]
    OBVIOUS
  <2>1. CASE p = curr_proc
    <3>1. curr_proc \in Proc
      BY DEF Sleep, SInv, TypeInv
    <3>2. due'[p] = clock + u /\ sleep_us'[p] = wake + last
      BY <1>1, <1>5, <1>6, <1>10, <2>1, <3>1
    <3> QED BY <1>7, <3>2
  <2>2. CASE p # curr_proc
    <3>1. p \in sleepRB /\ p \in Proc
      BY <1>1, <1>5, <1>10, <2>2
    <3>2. due'[p] = due[p] /\ sleep_us'[p] = sleep_us[p]
      BY <1>1, <1>5, <1>10, <2>2, <3>1
    <3> QED BY <1>8, <3>1, <3>2
  <2> QED BY <2>1, <2>2
<1> QED BY <1>9, <1>10

\* Every step keeps Keyed.
LEMMA KeyedStep ==
  ASSUME RoomToSleep, NoWrap, SInv, Keyed, [SchedNext]_schedVars
  PROVE  Keyed'
<1>1. /\ clock \in Nat /\ MaxTime \in Nat /\ clock' \in Nat /\ now_us \in Nat
      /\ due \in [Proc -> Nat] /\ sleep_us \in [Proc -> Nat] /\ sleepRB \subseteq Proc
  <2>1. SInv'
    BY SteadyStep
  <2> QED BY <2>1, SchedAssumption DEF SInv, TypeInv, SchedTypeOK
<1>2. /\ clock' <= MaxTime
      /\ pc' = "wakeup" => now_us' <= clock'
  <2>1. CASE Tick
    BY <1>1, <2>1 DEF Tick, Keyed
  <2>2. CASE ~Tick
    <3>1. clock' = clock /\ (pc' = "wakeup" => \/ pc = "wakeup" /\ now_us' = now_us
                                               \/ now_us' = clock)
      <4>1. ASSUME Leave \/ Stay PROVE clock' = clock /\ pc' # "wakeup"
        BY <4>1 DEF Leave, Stay, Yield, Sleep, End, Exit, Block, RunWait, Waits, Create, Spawn
      <4>2. ASSUME NEW s, AddReady(s)
            PROVE  clock' = clock /\ pc' = pc /\ now_us' = now_us
        BY <4>2 DEF AddReady, Readies
      <4>3. ASSUME NEW D, CheckQs(D) PROVE clock' = clock /\ now_us' = clock
        BY <4>3 DEF CheckQs
      <4>4. ASSUME NEW p, WakeProc(p) PROVE clock' = clock /\ pc' = pc /\ now_us' = now_us
        BY <4>4 DEF WakeProc
      <4>5. CASE WakeDone \/ Dispatch \/ Continue \/ SwitchReady \/ SwitchWait \/ SwitchEnded
                  \/ FreeDone \/ LoopExit \/ TeardownFree \/ TeardownEnd
        BY <4>5 DEF WakeDone, Dispatch, Continue, SwitchReady, SwitchWait, SwitchEnded,
           FreeDone, LoopExit, TeardownFree, TeardownEnd
      <4>6. CASE UNCHANGED schedVars
        BY <4>6 DEF schedVars
      <4> QED
        BY <2>2, <4>1, <4>2, <4>3, <4>4, <4>5, <4>6 DEF SchedNext, SchedStep, Terminated
    <3> QED BY <1>1, <3>1 DEF Keyed
  <2> QED BY <2>1, <2>2
<1>3. ASSUME Live' PROVE \A p \in sleepRB' : due'[p] < TimeMod => due'[p] <= sleep_us'[p]
  <2>1. Live /\ Steady
    <3>1. Live
      BY <1>3, StaysDown
    <3> QED BY <3>1 DEF SInv
  <2>2. \A p \in sleepRB : due[p] < TimeMod => due[p] <= sleep_us[p]
    BY <2>1 DEF Keyed
  <2>3. ASSUME NEW u \in Delay, Sleep(u)
        PROVE  \A p \in sleepRB' : due'[p] < TimeMod => due'[p] <= sleep_us'[p]
    BY <2>1, <2>3, KeyedSleep
  <2>4. ASSUME NEW q \in Proc, WakeProc(q)
        PROVE  \A p \in sleepRB' : due'[p] < TimeMod => due'[p] <= sleep_us'[p]
    BY <1>1, <2>2, <2>4 DEF WakeProc
  <2>5. ASSUME Dispatch
        PROVE  \A p \in sleepRB' : due'[p] < TimeMod => due'[p] <= sleep_us'[p]
    <3>1. Head(readyQ) \in Range(readyQ)
      BY <2>5, HeadTailFacts DEF Dispatch, SInv, TypeInv, SchedTypeOK
    <3>2. Head(readyQ) \notin sleepRB
      BY <2>1, <3>1 DEF Steady, Queues, ReadyQSound, SleepRBSound
    <3> QED BY <1>1, <2>2, <2>5, <3>2 DEF Dispatch
  <2>6. \/ UNCHANGED <<sleepRB, due, sleep_us>>
        \/ \E u \in Delay : Sleep(u)
        \/ \E q \in Proc : WakeProc(q)
        \/ Dispatch
    BY DEF SchedNext, Leave, Stay, SchedStep, Yield, End, Exit, Block, RunWait, Waits,
       Create, Spawn, AddReady, Readies, CheckQs, WakeDone, Continue, SwitchReady,
       SwitchWait, SwitchEnded, FreeDone, LoopExit, TeardownFree, TeardownEnd, Tick,
       Terminated, schedVars
  <2> QED BY <2>2, <2>3, <2>4, <2>5, <2>6
<1> QED BY <1>2, <1>3 DEF Keyed

\* Only _scheduler_wakeup makes a sleeper ready, and only one that is due.
LEMMA WokenInTime ==
  ASSUME SInv, Keyed, SchedNext, NEW p \in Proc,
         state[p] = "SLEEPING", state'[p] = "READY", due[p] < TimeMod
  PROVE  due[p] <= clock
<1>1. /\ state \in [Proc -> ProcState] /\ curr_proc \in Proc \cup {NULL}
      /\ readyQ \in Seq(Proc) /\ (pc \in {"proc", "switch"} => curr_proc \in Proc)
  BY DEF SInv, TypeInv, SchedTypeOK
<1>2. ASSUME NEW s, Range(s) \subseteq Parked, Live PROVE p \notin Range(s)
  <2>1. Fits
    BY <1>2 DEF SInv, Steady
  <2> QED BY <1>2, <2>1 DEF Parked, Fits, Blocked
<1>3. ASSUME NEW s \in Batches, AddReady(s) PROVE FALSE
  <2>1. Live /\ Range(s) \subseteq Parked
    BY <1>3 DEF AddReady, Live
  <2>2. p \notin Range(s)
    BY <1>2, <2>1
  <2> QED BY <1>3, <2>2 DEF AddReady, Readies, scheduler_addready
<1>4. ASSUME NEW s \in Batches, RunWait(s) PROVE FALSE
  <2>1. Live /\ Range(s) \subseteq Parked
    BY <1>4 DEF RunWait, Waits, Live
  <2>2. p \notin Range(s)
    BY <1>2, <2>1
  <2> QED BY <1>4, <2>2 DEF RunWait, Waits
<1>5. ASSUME NEW w \in Blocked, Block(w) PROVE FALSE
  <2>1. Range(<<>>) = {}
    BY DEF Range
  <2> QED BY <1>5, <2>1 DEF Block, Waits, Blocked
<1>6. ASSUME NEW q \in Proc, WakeProc(q) PROVE due[p] <= clock
  <2>1. Range(<<q>>) = {q}
    BY SingletonFacts
  <2>2. p = q
    BY <1>6, <2>1 DEF WakeProc, scheduler_addready
  <2>3. /\ pc = "wakeup" /\ p \in sleepRB /\ sleep_us[p] <= now_us
        /\ now_us \in Nat /\ clock \in Nat /\ sleep_us[p] \in Nat /\ due[p] \in Nat
    BY <1>6, <2>2 DEF WakeProc, Expired, IsFirstSleeper, SInv, TypeInv, SchedTypeOK
  <2>4. now_us <= clock /\ due[p] <= sleep_us[p]
    BY <2>3 DEF Keyed, Live
  <2> QED BY <2>3, <2>4
<1>7. ASSUME SwitchReady PROVE FALSE
  <2>1. Range(<<curr_proc>>) = {curr_proc} /\ curr_proc # p
    BY <1>1, <1>7, SingletonFacts DEF SwitchReady
  <2> QED BY <1>7, <2>1 DEF SwitchReady, scheduler_addready
<1>8. ASSUME NEW q \in Proc, Create(q) \/ Spawn(q) PROVE FALSE
  <2>1. Range(<<q>>) = {q}
    BY SingletonFacts
  <2> QED BY <1>1, <1>8, <2>1 DEF Create, Spawn, scheduler_addready
<1>9. ASSUME NEW u \in Delay, Sleep(u) PROVE FALSE
  <2>1. state' = state \/ state' = [state EXCEPT ![curr_proc] = "SLEEPING"]
    BY <1>9 DEF Sleep
  <2> QED BY <1>1, <2>1
<1>10. ASSUME Dispatch \/ FreeDone \/ End PROVE FALSE
  BY <1>1, <1>10 DEF Dispatch, FreeDone, End
<1>11. ASSUME state' = state PROVE FALSE
  BY <1>11
<1>12. \/ state' = state
       \/ \E s \in Batches : AddReady(s) \/ RunWait(s)
       \/ \E w \in Blocked : Block(w)
       \/ \E q \in Proc : WakeProc(q) \/ Create(q) \/ Spawn(q)
       \/ \E u \in Delay : Sleep(u)
       \/ SwitchReady \/ Dispatch \/ FreeDone \/ End
  BY DEF SchedNext, Leave, Stay, SchedStep, Yield, Exit, CheckQs, WakeDone, Continue,
     SwitchWait, SwitchEnded, LoopExit, TeardownFree, TeardownEnd, Tick, Terminated,
     schedVars
<1> QED
  BY <1>3, <1>4, <1>5, <1>6, <1>7, <1>8, <1>9, <1>10, <1>11, <1>12

\* No PROC becomes ready again before the time it asked SLEEP for: the increments
\* of scheduler_addsleep, the order of the wake-ups and the single reading of the
\* clock in _scheduler_wakeup never shorten a sleep.
THEOREM NeverEarly ==
  ASSUME RoomToSleep, NoWrap
  PROVE  SchedSpec => SleepNotEarly
<1> DEFINE Woken ==
             \A p \in Proc :
               (state[p] = "SLEEPING" /\ state'[p] = "READY" /\ due[p] < TimeMod)
                 => due[p] <= clock
<1>1. SchedInit => SInv /\ Keyed
  <2>1. SchedInit => Keyed
    BY SchedAssumption DEF SchedInit, Keyed
  <2> QED BY <2>1, SteadyInit
<1>2. SInv /\ Keyed /\ [SchedNext]_schedVars => SInv' /\ Keyed'
  BY SteadyStep, KeyedStep
<1>3. SInv /\ Keyed /\ [SchedNext]_schedVars => [Woken]_schedVars
  BY WokenInTime
<1> QED BY <1>1, <1>2, <1>3, PTL DEF SchedSpec, SleepNotEarly
=============================================================================
