----------------------------- MODULE Coroutines -----------------------------
(***************************************************************************)
(* What a context switch promises: the scheduler and the PROCs each have a *)
(* machine of their own.  Only the running one changes, and only in its    *)
(* own steps; a switch changes who is running and nothing else.            *)
(***************************************************************************)
EXTENDS Naturals

CONSTANTS
  Co,             \* the PROCs and the scheduler
  Sched,          \* the scheduler
  None,           \* the machine of a PROC that does not exist
  AtEntry(_, _)   \* a machine of a PROC that has not run yet

VARIABLES
  running,   \* whose machine the processor executes
  machine    \* the registers, the place in the code and the stack of each

Create(w) ==
  /\ w # running
  /\ machine[w] = None
  /\ AtEntry(machine'[w], w)
  /\ \A x \in Co \ {w} : machine'[x] = machine[x]
  /\ UNCHANGED running

Compute ==
  /\ \A w \in Co \ {running} : machine'[w] = machine[w]
  /\ machine'[running] # None
  /\ UNCHANGED running

\* Between the scheduler and a PROC, in either direction.
Switch(w) ==
  /\ w # running
  /\ Sched \in {w, running}
  /\ machine[w] # None
  /\ running' = w
  /\ UNCHANGED machine

\* The scheduler frees a PROC.
Free(w) ==
  /\ running = Sched
  /\ w # Sched
  /\ machine' = [machine EXCEPT ![w] = None]
  /\ UNCHANGED running

CoInit ==
  /\ running = Sched
  /\ \A w \in Co \ {Sched} : machine[w] = None

CoNext == Compute \/ \E w \in Co : Create(w) \/ Switch(w) \/ Free(w)

CoSpec == CoInit /\ [][CoNext]_<<running, machine>>
=============================================================================
