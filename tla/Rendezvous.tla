----------------------------- MODULE Rendezvous -----------------------------
(***************************************************************************)
(* What the channels of libproxc promise, without queues or scheduler: a   *)
(* write and a read meet, one of each, exactly one value is copied, and    *)
(* nobody waits while a partner for it is waiting.                         *)
(***************************************************************************)
EXTENDS Naturals

CONSTANTS Proc, Chan, Data, NULL

VARIABLES
  offer,   \* what each waiting PROC waits for
  mem      \* the buffer of each PROC's current or last channel operation

rendezvousVars == <<offer, mem>>

NoOffer == [dir |-> "none", on |-> {}]
Offers == [dir : {"none", "write", "read", "alt"}, on : SUBSET Chan]

Writers(c) == {p \in Proc : offer[p].dir = "write" /\ c \in offer[p].on}
Readers(c) == {p \in Proc : offer[p].dir \in {"read", "alt"} /\ c \in offer[p].on}

RendezvousInit ==
  /\ offer = [p \in Proc |-> NoOffer]
  /\ mem = [p \in Proc |-> NULL]

\* p writes v to c, and q, waiting to read it, gets it.
Send(p, c, v, q) ==
  /\ offer[p] = NoOffer
  /\ q \in Readers(c)
  /\ offer' = [offer EXCEPT ![q] = NoOffer]
  /\ mem' = [mem EXCEPT ![q] = v]

\* p reads c, by READ or ALT, from q, which waits to write it.
Receive(p, c, q) ==
  /\ offer[p] = NoOffer
  /\ q \in Writers(c)
  /\ offer' = [offer EXCEPT ![q] = NoOffer]
  /\ mem' = [mem EXCEPT ![p] = mem[q]]

\* p waits to write v: allowed only when nobody waits to read.
WaitToSend(p, c, v) ==
  /\ offer[p] = NoOffer
  /\ Readers(c) = {}
  /\ offer' = [offer EXCEPT ![p] = [dir |-> "write", on |-> {c}]]
  /\ mem' = [mem EXCEPT ![p] = v]

\* p waits to read one of the channels C: allowed only when nobody waits to
\* write to any of them.
WaitToReceive(p, d, C) ==
  /\ offer[p] = NoOffer
  /\ \A c \in C : Writers(c) = {}
  /\ offer' = [offer EXCEPT ![p] = [dir |-> d, on |-> C]]
  /\ UNCHANGED mem

\* An ALT that waits gives up: another guard of it won.
Withdraw(p) ==
  /\ offer[p].dir = "alt"
  /\ offer' = [offer EXCEPT ![p] = NoOffer]
  /\ UNCHANGED mem

RendezvousNext ==
  \E p \in Proc :
    \/ \E c \in Chan, v \in Data, q \in Proc : Send(p, c, v, q)
    \/ \E c \in Chan, q \in Proc : Receive(p, c, q)
    \/ \E c \in Chan, v \in Data : WaitToSend(p, c, v)
    \/ \E c \in Chan : WaitToReceive(p, "read", {c})
    \/ \E C \in SUBSET Chan : WaitToReceive(p, "alt", C)
    \/ Withdraw(p)

RendezvousSpec == RendezvousInit /\ [][RendezvousNext]_rendezvousVars
=============================================================================
