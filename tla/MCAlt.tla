-------------------------------- MODULE MCAlt --------------------------------
(* Channels with ALT, for TLC. *)
EXTENDS Alt, TLC

CONSTANTS p1, p2, c1, c2   \* PROCs and channels

OnChan(ch) == [type |-> "CHAN", chan |-> ch, usec |-> 0]
OnTime(u) == [type |-> "TIME", chan |-> NULL, usec |-> u]
OnSkip == [type |-> "SKIP", chan |-> NULL, usec |-> 0]
Inactive == [type |-> "NULL", chan |-> NULL, usec |-> 0]

\* Only p1 uses ALT.
OneAlt ==
  [x \in Proc |->
     IF x # p1 THEN {}
     ELSE {<<OnChan(c1), OnTime(1)>>, <<OnChan(c1), OnChan(c2)>>,
           <<Inactive, OnChan(c1), OnSkip>>}]

\* p1 and p2 both wait on the same channel.
TwoAlts == [x \in Proc |-> IF x \in {p1, p2} THEN {<<OnChan(c1)>>} ELSE {}]

\* p1 and p2 both use time guards.
TwoTimers == [x \in Proc |-> IF x \in {p1, p2} THEN {<<OnTime(1)>>} ELSE {}]

\* The second time guard of the ALT is the lower one.
LowerTimeLast == [x \in Proc |-> IF x = p1 THEN {<<OnTime(2), OnTime(1)>>} ELSE {}]
=============================================================================
