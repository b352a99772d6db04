-------------------------------- MODULE Lists --------------------------------
(***************************************************************************)
(* What the users of a TAILQ rely on: every queue is a sequence, an        *)
(* element is in one place of one queue at most, INSERT_TAIL appends, and  *)
(* REMOVE takes one element out and keeps the order of the others.         *)
(***************************************************************************)
EXTENDS Sequences, SequencesExt

CONSTANTS Heads, Elem

VARIABLE lists   \* the content of each queue

Unlinked(e) == \A h \in Heads : e \notin ToSet(lists[h])

AppendTo(h, e) ==
  /\ Unlinked(e)
  /\ lists' = [lists EXCEPT ![h] = Append(@, e)]

TakeOut(h, e) ==
  \E i \in DOMAIN lists[h] :
    /\ lists[h][i] = e
    /\ lists' = [lists EXCEPT ![h] = RemoveAt(@, i)]

ListsInit == lists = [h \in Heads |-> <<>>]

ListsNext == \E h \in Heads, e \in Elem : AppendTo(h, e) \/ TakeOut(h, e)

ListsSpec == ListsInit /\ [][ListsNext]_lists
=============================================================================
