------------------------------ MODULE TimerSet ------------------------------
(***************************************************************************)
(* What the scheduler needs of a timer tree: a set of armed timers with    *)
(* pairwise different keys, of which it can find the earliest.  This is    *)
(* the level at which module Scheduler models sched->sleep.RB.             *)
(***************************************************************************)
EXTENDS Naturals

CONSTANTS
  Node,       \* the timers
  Time,       \* the keys each timer may ask for
  TryLimit    \* the number of increments a caller tries

VARIABLES
  armed,   \* the timers in the tree
  key,     \* their keys
  first    \* what RB_MIN returned last, or NULL

CONSTANT NULL

timerVars == <<armed, key, first>>

Used == {key[n] : n \in armed}

TimerInit ==
  /\ armed = {}
  /\ key = [n \in Node |-> 0]
  /\ first = NULL

\* The timer gets the first key at or after t that is not in use.
Arm(n, t) ==
  \E k \in 0..TryLimit :
    /\ n \notin armed
    /\ t + k \notin Used
    /\ \A j \in 0..k - 1 : t + j \in Used
    /\ armed' = armed \cup {n}
    /\ key' = [key EXCEPT ![n] = t + k]
    /\ first' = NULL

\* Any timer can be disarmed.
Disarm(n) ==
  /\ n \in armed
  /\ armed' = armed \ {n}
  /\ key' = [key EXCEPT ![n] = 0]
  /\ first' = NULL

\* The earliest timer is found.
Earliest(n) ==
  /\ n \in armed
  /\ \A m \in armed : key[n] <= key[m]
  /\ first' = n
  /\ UNCHANGED <<armed, key>>

TimerNext ==
  \E n \in Node :
    \/ \E t \in Time[n] : Arm(n, t)
    \/ Disarm(n)
    \/ Earliest(n)

TimerSpec == TimerInit /\ [][TimerNext]_timerVars
=============================================================================
