----------------------------- MODULE MCSleepTree -----------------------------
(* The timer tree alone, for TLC. *)
EXTENDS SleepTree

\* Nodes 1 and 2 ask for key 1, 3 and 4 for key 3, and so on: the second of a
\* pair collides with the first and takes the next key.
AskInPairs == [n \in Node |-> {2 * ((n - 1) \div 2) + 1}]
=============================================================================
