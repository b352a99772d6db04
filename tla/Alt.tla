--------------------------------- MODULE Alt ---------------------------------
(***************************************************************************)
(* ALT: src/src/alt.c, the ALT side of chan.c and the altsleep tree of     *)
(* scheduler.c, on top of the channels and the scheduler.                  *)
(*                                                                         *)
(* proxc_alt builds its guards, enables them and either chooses a ready    *)
(* one (AltChoose, then AltYield and AltReturn) or waits in PROC_ALTWAIT   *)
(* (AltWait) until a writer (WriteToAlt) or a timeout (WakeGuard) accepts  *)
(* one; when the PROC runs again it disables its guards (AltResume).       *)
(*                                                                         *)
(* The Alt struct and the time guard of a PROC's call are identified with  *)
(* the PROC, which is in one ALT at a time.                                *)
(***************************************************************************)
EXTENDS Chan

CONSTANT Menu   \* the guard lists each PROC may pass to ALT

GuardSpec == [type : {"NULL", "SKIP", "TIME", "CHAN"}, chan : Chans \cup {NULL},
              usec : Nat]

ASSUME AltAssumption ==
  /\ Menu \in [Proc -> SUBSET Seq(GuardSpec)]
  \* scheduler_addaltsleep never runs out of tries
  /\ Cardinality(Proc) <= MaxTries
  /\ \A p \in Proc : \A l \in Menu[p] : \A i \in DOMAIN l :
       /\ l[i].type = "CHAN" <=> l[i].chan \in Chans
       /\ l[i].type = "TIME" => l[i].usec > 0

VARIABLES
  phase,        \* where the PROC is in proxc_alt
  guards,       \* alt->guards.Q
  is_accepted,  \* alt->is_accepted
  winner,       \* alt->winner: a position in guards, 0 for NULL
  altQ,         \* chan->altQ: the PROC of each guard linked there
  altsleep,     \* sched->altsleep.RB
  usec          \* guard->usec of each PROC's time guard, the key of altsleep

altVars == <<phase, guards, is_accepted, winner, altQ, altsleep, usec>>

allVars == <<schedVars, chanVars, altVars>>

RB == INSTANCE RBTree WITH Node <- Proc

Guard == [type : {"SKIP", "TIME", "CHAN"}, chan : Chans \cup {NULL}, usec : Nat,
          in_chan : BOOLEAN, freed : BOOLEAN]

Phase == {"none", "yield", "return", "wait"}

AltInit ==
  /\ phase = [p \in Proc |-> "none"]
  /\ guards = [p \in Proc |-> <<>>]
  /\ is_accepted = [p \in Proc |-> FALSE]
  /\ winner = [p \in Proc |-> 0]
  /\ altQ = [c \in Chans |-> <<>>]
  /\ altsleep = RB!RB_INIT
  /\ usec = [p \in Proc |-> 0]

-----------------------------------------------------------------------------
(* Building and enabling the guards *)

IsTime(g) == g.type = "TIME"

\* Mutant: a guard whose condition is false is kept.
KeepsInactive(l, i) ==
  IsTime(l[i]) => \A j \in 1..i - 1 : IsTime(l[j]) => l[i].usec < l[j].usec

\* alt_addguard keeps the guard at position i of l: it is active and, for a time
\* guard, earlier than the time guards before it.
Keeps(l, i) ==
  /\ l[i].type # "NULL"
  /\ IsTime(l[i]) => \A j \in 1..i - 1 : IsTime(l[j]) => l[i].usec < l[j].usec

\* An earlier time guard is freed when a later one with a lower time is added;
\* it stays linked in guards.Q.
Freed(l, i) ==
  IsTime(l[i]) /\ \E j \in i + 1..Len(l) : IsTime(l[j]) /\ l[j].usec < l[i].usec

\* Mutant: without looking for a waiting writer.
LinksAlways(g) == g.type = "CHAN"

\* A channel guard is linked into altQ when enabled unless a writer is waiting.
InChan(g) == g.type = "CHAN" /\ ~FirstIs(g.chan, "CHAN_WRITER")

\* The elements of q at the positions of K, in order.
Subqueue(q, K) ==
  LET s[i \in 0..Len(q)] == IF i = 0 THEN <<>>
                            ELSE IF i \in K THEN Append(s[i - 1], q[i])
                            ELSE s[i - 1]
  IN  s[Len(q)]

\* The positions of the kept guards, in order.
Kept(l) == Subqueue([i \in 1..Len(l) |-> i], {i \in 1..Len(l) : Keeps(l, i)})

\* alt_guardcreate and alt_addguard on the arguments of ALT, then what
\* alt_enable records in the guard.  The time guards' clock readings fall into
\* one tick.
alt_addguards(l) ==
  [n \in 1..Len(Kept(l)) |->
     LET i == Kept(l)[n] IN
     [type |-> l[i].type, chan |-> l[i].chan,
      usec |-> IF IsTime(l[i]) THEN (clock + l[i].usec) % TimeMod ELSE 0,
      in_chan |-> InChan(l[i]), freed |-> Freed(l, i)]]

\* The positions for which alt_enable returns 1.
ReadyGuards(gs) ==
  {i \in DOMAIN gs : \/ gs[i].type = "SKIP"
                     \/ gs[i].type = "CHAN" /\ ~gs[i].in_chan}

\* alt->guard_time: the time guard that is not freed (0 if there is none).
TimeGuard(gs) ==
  LET T == {i \in DOMAIN gs : IsTime(gs[i]) /\ ~gs[i].freed}
  IN  IF T = {} THEN 0 ELSE CHOOSE i \in T : TRUE

\* alt_enable links the channel guards at the tail of altQ.
EnabledAltQ(gs) ==
  [c \in Chans |->
     altQ[c] \o [i \in 1..Cardinality({j \in DOMAIN gs : gs[j].in_chan /\ gs[j].chan = c})
                   |-> curr_proc]]

\* scheduler_addaltsleep: the first key from t on that RB_INSERT accepts.
AltKey(t) ==
  CHOOSE k \in t..t + Cardinality(Proc) :
    /\ ~RB!RB_Collides(altsleep, usec, k)
    /\ \A j \in t..k - 1 : RB!RB_Collides(altsleep, usec, j)

\* The keys and the tree after scheduler_addaltsleep of curr_proc's time guard.
\* A new guard comes from calloc.
EnabledUsec(gs) ==
  [usec EXCEPT ![curr_proc] = IF TimeGuard(gs) = 0 THEN 0
                              ELSE IF gs[TimeGuard(gs)].usec = 0 THEN 0
                              ELSE AltKey(gs[TimeGuard(gs)].usec)]

\* Mutant: the guard is not inserted.
ArmsNothing(gs) == altsleep

EnabledTree(gs) ==
  IF EnabledUsec(gs)[curr_proc] = 0 THEN altsleep
  ELSE RB!RB_INSERT(altsleep, EnabledUsec(gs), curr_proc)

\* Mutant: the timer is left in the tree.
LeavesTimer(t, gs, p) == t

\* scheduler_remaltsleep on the time guard of p, whether or not it is linked.
DisabledTree(t, gs, p) ==
  IF TimeGuard(gs) = 0 THEN t ELSE RB!RB_REMOVE(t, p)

\* Mutant: the guards are left linked.
LeavesGuards == altQ

\* What is left of the queue q when all guards of p are unlinked.
Without(q, p) == Subqueue(q, {i \in DOMAIN q : q[i] # p})

\* alt_disable unlinks the channel guards of curr_proc.
DisabledAltQ == [c \in Chans |-> Without(altQ[c], curr_proc)]

\* The memory of p's time guard after alt_cleanup, ready for the next calloc.
Recycled(t, p) ==
  [t EXCEPT !.kid.left[p] = NULL, !.kid.right[p] = NULL, !.parent[p] = NULL,
            !.color[p] = "BLACK"]

\* Bound: time guards lie within the clock's range.
InTime(gs) == EnabledUsec(gs)[curr_proc] <= MaxTime

-----------------------------------------------------------------------------
(* proxc_alt *)

\* The running PROC is in its own code, not inside ALT.
InUserCode == pc = "proc" /\ phase[curr_proc] = "none"

\* alt_select with ready guards: one of them, w, wins; all guards are disabled
\* again and a channel winner takes the writer's value.
AltChoose(l, w) ==
  LET gs == alt_addguards(l) IN
  /\ InUserCode
  /\ InTime(gs)
  /\ w \in ReadyGuards(gs)
  /\ guards' = [guards EXCEPT ![curr_proc] = gs]
  /\ is_accepted' = [is_accepted EXCEPT ![curr_proc] = FALSE]
  /\ winner' = [winner EXCEPT ![curr_proc] = w]
  /\ phase' = [phase EXCEPT ![curr_proc] = "yield"]
  /\ usec' = EnabledUsec(gs)
  /\ altsleep' = DisabledTree(EnabledTree(gs), gs, curr_proc)
  /\ IF gs[w].type = "CHAN"
     THEN TakeFromWriter(gs[w].chan)
     ELSE UNCHANGED <<schedVars, chanVars>>
  /\ UNCHANGED altQ

\* alt_complete yields when there were ready guards.
AltYield ==
  /\ pc = "proc"
  /\ phase[curr_proc] = "yield"
  /\ phase' = [phase EXCEPT ![curr_proc] = "return"]
  /\ Yield
  /\ UNCHANGED <<chanVars, guards, is_accepted, winner, altQ, altsleep, usec>>

\* alt_select without ready guards.
AltWait(l) ==
  LET gs == alt_addguards(l) IN
  /\ InUserCode
  /\ InTime(gs)
  /\ ReadyGuards(gs) = {}
  /\ guards' = [guards EXCEPT ![curr_proc] = gs]
  /\ is_accepted' = [is_accepted EXCEPT ![curr_proc] = FALSE]
  /\ winner' = [winner EXCEPT ![curr_proc] = 0]
  /\ phase' = [phase EXCEPT ![curr_proc] = "wait"]
  /\ altQ' = EnabledAltQ(gs)
  /\ usec' = EnabledUsec(gs)
  /\ altsleep' = EnabledTree(gs)
  /\ Block("ALTWAIT")
  /\ UNCHANGED chanVars

\* alt_cleanup: the guards of curr_proc are freed.
Cleanup ==
  /\ guards' = [guards EXCEPT ![curr_proc] = <<>>]
  /\ usec' = [usec EXCEPT ![curr_proc] = 0]
  /\ phase' = [phase EXCEPT ![curr_proc] = "none"]
  /\ winner' = [winner EXCEPT ![curr_proc] = 0]
  /\ is_accepted' = [is_accepted EXCEPT ![curr_proc] = FALSE]

\* After the wait: alt_disable on every guard, then alt_cleanup.
AltResume ==
  /\ pc = "proc"
  /\ phase[curr_proc] = "wait"
  /\ altQ' = DisabledAltQ
  /\ altsleep' = Recycled(DisabledTree(altsleep, guards[curr_proc], curr_proc),
                          curr_proc)
  /\ Cleanup
  /\ UNCHANGED <<schedVars, chanVars>>

\* After the yield of a ready ALT: alt_cleanup only.
AltReturn ==
  /\ pc = "proc"
  /\ phase[curr_proc] = "return"
  /\ altsleep' = Recycled(altsleep, curr_proc)
  /\ Cleanup
  /\ UNCHANGED <<schedVars, chanVars, altQ>>

-----------------------------------------------------------------------------
(* Writers and timeouts *)

\* Mutant: a second guard of an ALT can be accepted.
AlwaysAccepts(p) == TRUE

\* alt_accept accepts only the first guard of an ALT.
CanAccept(p) == ~is_accepted[p]

\* Mutant: the acceptance is not recorded.
AcceptForgets(p, i) ==
  /\ winner' = [winner EXCEPT ![p] = i]
  /\ UNCHANGED is_accepted

\* alt_accept on p's guard at position i, when p can accept.
alt_accept(p, i) ==
  /\ is_accepted' = [is_accepted EXCEPT ![p] = TRUE]
  /\ winner' = [winner EXCEPT ![p] = i]

\* chan_write finds the first guard of altQ not accepted yet.
AltAccepts(c) == altQ[c] # <<>> /\ CanAccept(Head(altQ[c]))

\* The guard of p on c that is linked in altQ first.
ChanGuard(p, c) ==
  CHOOSE i \in DOMAIN guards[p] :
    /\ guards[p][i].chan = c
    /\ \A j \in 1..i - 1 : guards[p][j].chan # c

\* chan_write to an ALT.
WriteToAlt(c, v) ==
  LET p == Head(altQ[c]) IN
  /\ InUserCode
  /\ AltAccepts(c)
  /\ alt_accept(p, ChanGuard(p, c))
  /\ chan_copydata(p, v)
  /\ Readies(<<p>>)
  /\ UNCHANGED <<endQ, phase, guards, altQ, altsleep, usec>>

\* chan_write otherwise, and chan_read.
PlainChan(c) ==
  /\ InUserCode
  /\ \/ ~AltAccepts(c) /\ \E v \in Data : WriteToReader(c, v) \/ WriteEnqueue(c, v)
     \/ ReadFromWriter(c)
     \/ ReadEnqueue(c)
  /\ UNCHANGED altVars

\* The second loop of _scheduler_wakeup, entered when no sleeper is due: the
\* first guard is taken out and, when its ALT is still waiting, wins.
WakeGuard ==
  LET p == RB!RB_MIN(altsleep) IN
  /\ pc = "wakeup"
  /\ \A q \in sleepRB : ~Expired(q)
  /\ p # NULL
  /\ usec[p] <= now_us
  /\ altsleep' = RB!RB_REMOVE(altsleep, p)
  /\ IF state[p] = "ALTWAIT" /\ CanAccept(p)
     THEN alt_accept(p, TimeGuard(guards[p])) /\ Readies(<<p>>)
     ELSE UNCHANGED <<schedVars, is_accepted, winner>>
  /\ UNCHANGED <<chanVars, phase, guards, altQ, usec>>

\* _scheduler_checkQs and the end of _scheduler_wakeup, with the altsleep tree.
AltDeadline == {usec[p] : p \in {RB!RB_MIN(altsleep)} \ {NULL}}

AltCheckQs ==
  /\ CheckQs(SleepKeys \cup AltDeadline)
  /\ UNCHANGED <<chanVars, altVars>>

AltWakeDone ==
  /\ \A t \in AltDeadline : t > now_us
  /\ WakeDone
  /\ UNCHANGED <<chanVars, altVars>>

-----------------------------------------------------------------------------
(* Specification *)

\* Calls that have nothing to do with channels.
OtherCall ==
  /\ InUserCode
  /\ Yield \/ End \/ \E p \in Proc : Spawn(p)
  /\ UNCHANGED <<chanVars, altVars>>

OtherStep ==
  /\ \/ Dispatch
     \/ Continue
     \/ SwitchReady
     \/ SwitchWait
     \/ SwitchEnded
     \/ FreeDone
     \/ LoopExit
     \/ TeardownFree
     \/ TeardownEnd
  /\ UNCHANGED <<chanVars, altVars>>

\* proxc_alt called with the guards l, and its continuation.
AltBegin(l) == AltWait(l) \/ \E w \in DOMAIN l : AltChoose(l, w)

AltGoesOn == AltYield \/ AltResume \/ AltReturn

\* The pthread: the running PROC or the scheduler.
AltStep ==
  \/ pc = "proc" /\ \E l \in Menu[curr_proc] : AltBegin(l)
  \/ AltGoesOn
  \/ \E c \in Chans, v \in Data : WriteToAlt(c, v)
  \/ \E c \in Chans : PlainChan(c)
  \/ OtherCall
  \/ AltCheckQs
  \/ WakeGuard
  \/ AltWakeDone
  \/ OtherStep

AltTick == Tick /\ UNCHANGED <<chanVars, altVars>>

AltEnd == Terminated /\ UNCHANGED <<chanVars, altVars>>

AltNext == AltStep \/ AltTick \/ AltEnd

AltSpec == SchedInit /\ ChanInit /\ AltInit /\ [][AltNext]_allVars

\* Time passes, and the pthread, whose steps are those that leave the clock
\* alone, keeps executing until the program ends.  (A step of it is possible in
\* every other state, or becomes possible when time has passed.)
AltFairSpec ==
  /\ AltSpec
  /\ WF_allVars(AltTick)
  /\ []<>(pc = "end") \/ []<><<clock' = clock>>_allVars

-----------------------------------------------------------------------------
(* Properties *)

\* Every variable has its type.
AltTypeOK ==
  /\ phase \in [Proc -> Phase]
  /\ guards \in [Proc -> Seq(Guard)]
  /\ is_accepted \in [Proc -> BOOLEAN]
  /\ winner \in [Proc -> Nat]
  /\ altQ \in [Chans -> Seq(Proc)]
  /\ altsleep \in RB!Tree
  /\ usec \in [Proc -> Nat]

\* A waiting ALT is linked in altQ once for each of its channel guards and
\* nobody else is: a writer never meets a guard that alt_cleanup has freed.
AltQSound ==
  Live => \A p \in Proc, c \in Chans :
    Cardinality({i \in DOMAIN altQ[c] : altQ[c][i] = p}) =
      IF phase[p] # "wait" THEN 0
      ELSE Cardinality({i \in DOMAIN guards[p] : guards[p][i].chan = c})

\* An ALT is woken exactly by acceptance: it waits for as long as nobody has
\* accepted it, and has a winner when it goes on (the ASSERT in alt_select).
WokenByAccept ==
  Live => \A p \in Proc :
    phase[p] = "wait" =>
      /\ state[p] = "ALTWAIT" <=> ~is_accepted[p]
      /\ is_accepted[p] => winner[p] \in DOMAIN guards[p]

\* The timer of every ALT that waits on one is in the altsleep tree.
TimerArmed ==
  Live => \A p \in Proc :
    (phase[p] = "wait" /\ ~is_accepted[p] /\ TimeGuard(guards[p]) # 0)
      => p \in RB!Linked(altsleep)

\* The altsleep tree holds no guard that alt_cleanup has freed.
TimersAllocated == Live => \A p \in RB!Linked(altsleep) : phase[p] = "wait"

\* The guards that alt_select walks through are all allocated.
GuardsAllocated == \A p \in Proc : \A i \in DOMAIN guards[p] : ~guards[p][i].freed

\* A writer and an ALT that both wait on one channel have missed each other.
NobodyMissed ==
  Live => \A c \in Chans : ~(/\ FirstIs(c, "CHAN_WRITER")
                             /\ \E i \in DOMAIN altQ[c] : ~is_accepted[altQ[c][i]])

\* What each PROC offers, in the terms of Rendezvous: an ALT offers its channels
\* until it is accepted.
AltOffer(p) ==
  IF phase[p] = "wait" /\ ~is_accepted[p]
  THEN [dir |-> "alt",
        on |-> {guards[p][i].chan : i \in DOMAIN guards[p]} \ {NULL}]
  ELSE Offer(p)

AltMeeting == INSTANCE Rendezvous
                WITH Chan <- Chans, mem <- data,
                     offer <- [p \in Proc |-> AltOffer(p)]

\* Channels with ALT implement rendezvous: no value is lost or received twice
\* when a timeout and a writer race for an ALT, and nobody waits next to a
\* waiting partner.
AltImplementsRendezvous == AltMeeting!RendezvousSpec

\* An ALT with a time guard does not wait for ever.
TimeoutFires ==
  \A p \in Proc : (phase[p] = "wait" /\ TimeGuard(guards[p]) # 0)
                    ~> (phase[p] # "wait" \/ ~Live)
=============================================================================
