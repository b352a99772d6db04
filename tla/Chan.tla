-------------------------------- MODULE Chan --------------------------------
(***************************************************************************)
(* Channels without ALT: src/src/chan.c on top of the scheduler.           *)
(*                                                                         *)
(* Writers and readers of a channel wait in one queue, chan->endQ.  A call *)
(* that finds a partner at its head copies the value and wakes it; any     *)
(* other call links a ChanEnd that lives on its own stack and yields.      *)
(***************************************************************************)
EXTENDS Scheduler

CONSTANTS
  Chans,   \* the channels chan_create has returned
  Data     \* the values programs write

ASSUME ChanAssumption == NULL \notin Chans /\ NULL \notin Data

VARIABLES
  endQ,   \* chan->endQ: the type and the PROC of each ChanEnd
  data    \* *ChanEnd.data of each PROC's current or last channel operation

chanVars == <<endQ, data>>

ChanEnd == [type : {"CHAN_WRITER", "CHAN_READER"}, proc : Proc]

ChanInit ==
  /\ endQ = [c \in Chans |-> <<>>]
  /\ data = [p \in Proc |-> NULL]

\* The head of endQ is an end of type t.
FirstIs(c, t) == endQ[c] # <<>> /\ Head(endQ[c]).type = t

\* Mutant: the ChanEnd of the partner stays queued.
LeaveQueued(c) == UNCHANGED endQ

\* TAILQ_REMOVE of the partner at the head.
Dequeue(c) == endQ' = [endQ EXCEPT ![c] = Tail(@)]

\* Mutants: nothing is copied; the pointer is.
CopyNothing(to, v) == UNCHANGED data
CopyPointer(to, v) == data' = [data EXCEPT ![to] = to]

\* _chan_copydata: v is in the buffer of `to' now.
chan_copydata(to, v) == data' = [data EXCEPT ![to] = v]

-----------------------------------------------------------------------------
(* chan_write and chan_read *)

\* chan_write with a reader at the head: copy the value there and wake it.
WriteToReader(c, v) ==
  LET reader == Head(endQ[c]).proc IN
  /\ pc = "proc"
  /\ FirstIs(c, "CHAN_READER")
  /\ Dequeue(c)
  /\ chan_copydata(reader, v)
  /\ Readies(<<reader>>)

\* chan_write without one: queue up and yield.
WriteEnqueue(c, v) ==
  /\ pc = "proc"
  /\ ~FirstIs(c, "CHAN_READER")
  /\ endQ' = [endQ EXCEPT ![c] =
                Append(@, [type |-> "CHAN_WRITER", proc |-> curr_proc])]
  /\ data' = [data EXCEPT ![curr_proc] = v]
  /\ Block("CHANWAIT")

\* Take the value of the writer at the head and wake it: chan_read and
\* chan_altread.
TakeFromWriter(c) ==
  LET writer == Head(endQ[c]).proc IN
  /\ Dequeue(c)
  /\ chan_copydata(curr_proc, data[writer])
  /\ Readies(<<writer>>)

\* chan_read with a writer at the head.
ReadFromWriter(c) ==
  /\ pc = "proc"
  /\ FirstIs(c, "CHAN_WRITER")
  /\ TakeFromWriter(c)

\* chan_read without one.
ReadEnqueue(c) ==
  /\ pc = "proc"
  /\ ~FirstIs(c, "CHAN_WRITER")
  /\ endQ' = [endQ EXCEPT ![c] =
                Append(@, [type |-> "CHAN_READER", proc |-> curr_proc])]
  /\ Block("CHANWAIT")
  /\ UNCHANGED data

-----------------------------------------------------------------------------
(* Specification *)

\* The steps that leave channels alone.
NoChanStep ==
  /\ \/ Yield
     \/ End
     \/ Exit
     \/ \E p \in Proc : Spawn(p)
     \/ SchedStep
     \/ Terminated
  /\ UNCHANGED chanVars

ChanNext ==
  \/ NoChanStep
  \/ \E c \in Chans, v \in Data : WriteToReader(c, v) \/ WriteEnqueue(c, v)
  \/ \E c \in Chans : ReadFromWriter(c) \/ ReadEnqueue(c)

ChanSpec == SchedInit /\ ChanInit /\ [][ChanNext]_<<schedVars, chanVars>>

-----------------------------------------------------------------------------
(* Properties *)

\* Every variable has its type.
ChanTypeOK ==
  /\ endQ \in [Chans -> Seq(ChanEnd)]
  /\ data \in [Proc -> Data \cup {NULL}]

\* The places of p's ends in the queues.
EndsOf(p) == {at \in Chans \X (1..Cardinality(Proc)) :
                /\ at[2] \in DOMAIN endQ[at[1]]
                /\ endQ[at[1]][at[2]].proc = p}

\* chan_write and chan_read look at the head only, which is enough because a
\* queue never holds writers and readers at once; and a PROC waits on a channel
\* exactly when one ChanEnd of it is queued, so that a partner will wake it.
EndQSound ==
  /\ \A c \in Chans : \A i, j \in DOMAIN endQ[c] : endQ[c][i].type = endQ[c][j].type
  /\ Live => \A p \in Proc : /\ Cardinality(EndsOf(p)) <= 1
                             /\ state[p] = "CHANWAIT" <=> EndsOf(p) # {}

\* Waking a partner meets the scheduler's preconditions: it is parked, so it is
\* not linked into readyQ a second time.
KeepsScheduler == [][SchedNext]_schedVars

\* What each PROC offers, in the terms of Rendezvous.
WaitingOn(p, t) == {c \in Chans : \E i \in DOMAIN endQ[c] :
                                    endQ[c][i] = [type |-> t, proc |-> p]}
Offer(p) ==
  IF WaitingOn(p, "CHAN_WRITER") # {}
  THEN [dir |-> "write", on |-> WaitingOn(p, "CHAN_WRITER")]
  ELSE IF WaitingOn(p, "CHAN_READER") # {}
  THEN [dir |-> "read", on |-> WaitingOn(p, "CHAN_READER")]
  ELSE [dir |-> "none", on |-> {}]

Meeting == INSTANCE Rendezvous
             WITH Chan <- Chans, mem <- data, offer <- [p \in Proc |-> Offer(p)]

\* Channels implement rendezvous: every value written is received once, by a
\* reader of that channel, and nobody queues while a partner is queued.
ImplementsRendezvous == Meeting!RendezvousSpec
=============================================================================
