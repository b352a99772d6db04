------------------------------- MODULE MCProxc -------------------------------
(* Programs that use everything, for TLC. *)
EXTENDS Proxc

CONSTANTS m, p1, p2, c1   \* PROCs and a channel

\* p1 may wait on the channel with a timeout, or with an inactive guard only.
AltWithTimeout ==
  [x \in Proc |->
     IF x # p1 THEN {}
     ELSE {<<[type |-> "CHAN", chan |-> c1, usec |-> 0],
             [type |-> "TIME", chan |-> NULL, usec |-> 1]>>,
           <<[type |-> "NULL", chan |-> NULL, usec |-> 0]>>}]

\* The main PROC opens, builds and joins, the others work, and one of them closes
\* too.
Roles ==
  [x \in Proc |-> CASE x = m  -> {"open", "close", "build", "go"}
                   [] x = p1 -> {"chan", "alt", "sleep"}
                   [] x = p2 -> {"chan", "close", "sleep"}]

\* The main PROC opens a channel, builds two PROCs and a tree, runs it and closes
\* the channel, or starts PROCs by GO, closes it and ends or goes on; the others
\* make one or two calls.
Budget == [x \in Proc |-> IF x = m THEN 6 ELSE IF x = p1 THEN 2 ELSE 1]
=============================================================================
