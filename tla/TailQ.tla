-------------------------------- MODULE TailQ --------------------------------
(***************************************************************************)
(* The tail queues of src/src/util/queue.h, pointer by pointer, as far as  *)
(* libproxc uses them: TAILQ_INIT, INSERT_TAIL, REMOVE, FIRST, NEXT, LAST, *)
(* PREV and the walks FOREACH and FOREACH_REVERSE.                         *)
(*                                                                         *)
(* A head {tqh_first, tqh_last} and a link field {tqe_next, tqe_prev} have *)
(* the same layout: a pointer to an element, then the address of such a    *)
(* pointer.  TAILQ_LAST and TAILQ_PREV rest on that, they read a link as   *)
(* if it were a head.  Here both are cells: next is their first word, adr  *)
(* their second, and the address of a cell's first word is the cell.       *)
(*                                                                         *)
(* Elements and heads live in memory that malloc or a stack frame hands    *)
(* out and takes back, so a cell outside of its lifetime holds garbage.    *)
(***************************************************************************)
EXTENDS Naturals, Sequences, SequencesExt, FiniteSets

CONSTANTS
  Heads,    \* the queues linked through one field, e.g. the altQ of channels
  Elem,     \* the elements with that field, e.g. the guards
  NULL,
  Garbage   \* the content of uninitialised memory

ASSUME TailQAssumption ==
  /\ Heads \cap Elem = {}
  /\ {NULL, Garbage} \cap (Heads \cup Elem) = {}
  /\ IsFiniteSet(Elem)

Cell == Heads \cup Elem

VARIABLES
  next,   \* tqh_first, tqe_next
  adr,    \* tqh_last, tqe_prev
  user    \* where the code has put the element (guard->in_chan, proc->state);
          \* for a head, whether it is initialised

vars == <<next, adr, user>>

-----------------------------------------------------------------------------
(* The macros *)

TAILQ_FIRST(h) == next[h]

TAILQ_NEXT(e) == next[e]

\* Mutant: the address itself, without reading the cell there as a head.
LastIsNext(h) == next[adr[h]]

\* TAILQ_LAST and TAILQ_PREV read the cell that holds the last (the previous)
\* element's link as a head.
TAILQ_LAST(h) == next[adr[adr[h]]]

TAILQ_PREV(e) == next[adr[adr[e]]]

TAILQ_INIT(h) ==
  /\ next' = [next EXCEPT ![h] = NULL]
  /\ adr' = [adr EXCEPT ![h] = h]

\* Mutant: the new element keeps the link it has.
KeepsOldLink(h, e) ==
  /\ next' = [next EXCEPT ![adr[h]] = e]
  /\ adr' = [adr EXCEPT ![e] = adr[h], ![h] = e]

TAILQ_INSERT_TAIL(h, e) ==
  /\ next' = [next EXCEPT ![e] = NULL, ![adr[h]] = e]
  /\ adr' = [adr EXCEPT ![e] = adr[h], ![h] = e]

\* Mutant: the tail pointer stays on the removed element.
KeepsTail(h, e) ==
  /\ adr' = IF next[e] # NULL THEN [adr EXCEPT ![next[e]] = adr[e]] ELSE adr
  /\ next' = [next EXCEPT ![adr[e]] = next[e]]

\* The removed element keeps its own links.
TAILQ_REMOVE(h, e) ==
  /\ adr' = [adr EXCEPT ![IF next[e] # NULL THEN next[e] ELSE h] = adr[e]]
  /\ next' = [next EXCEPT ![adr[e]] = next[e]]

\* The elements a walk visits from x on.  (One that visits more elements than
\* there are does not end; this one gives up there.)
Walk(x, Step(_)) ==
  LET at[i \in 0..Cardinality(Elem)] ==
        IF i = 0 THEN x ELSE IF at[i - 1] \in Elem THEN Step(at[i - 1]) ELSE NULL
  IN  [i \in 1..Cardinality({j \in 0..Cardinality(Elem) : at[j] \in Elem}) |-> at[i - 1]]

TAILQ_FOREACH(h) == Walk(TAILQ_FIRST(h), TAILQ_NEXT)

TAILQ_FOREACH_REVERSE(h) == Walk(TAILQ_LAST(h), TAILQ_PREV)

-----------------------------------------------------------------------------
(* How the library uses them *)

\* scheduler_create, chan_create, proxc_par, proxc_seq, alt_init.
InitQueue(h) ==
  /\ user[h] = NULL
  /\ TAILQ_INIT(h)
  /\ user' = [user EXCEPT ![h] = h]

\* scheduler_addready, proc_create, chan_write, chan_read, chan_altenable,
\* csp_insertchilds, alt_addguard: of an element that is in no queue.
Insert(h, e) ==
  /\ user[h] = h
  /\ user[e] = NULL
  /\ TAILQ_INSERT_TAIL(h, e)
  /\ user' = [user EXCEPT ![e] = h]

\* chan_altdisable and proc_free remove any element, the others the first one.
Unlink(h, e) ==
  /\ user[e] = h
  /\ TAILQ_REMOVE(h, e)
  /\ user' = [user EXCEPT ![e] = NULL]

\* The memory of an element that is in no queue is used for something else: its
\* stack frame has returned, or it has been freed.
ReuseElem(e) ==
  /\ user[e] = NULL
  /\ next' = [next EXCEPT ![e] = Garbage]
  /\ adr' = [adr EXCEPT ![e] = Garbage]
  /\ UNCHANGED user

\* A channel, builder or ALT whose queue is empty is freed.
ReuseHead(h) ==
  /\ user[h] = h
  /\ \A e \in Elem : user[e] # h
  /\ next' = [next EXCEPT ![h] = Garbage]
  /\ adr' = [adr EXCEPT ![h] = Garbage]
  /\ user' = [user EXCEPT ![h] = NULL]

TailQInit ==
  /\ next = [x \in Cell |-> Garbage]
  /\ adr = [x \in Cell |-> Garbage]
  /\ user = [x \in Cell |-> NULL]

TailQNext ==
  \/ \E h \in Heads : InitQueue(h) \/ ReuseHead(h)
  \/ \E h \in Heads, e \in Elem : Insert(h, e) \/ Unlink(h, e)
  \/ \E e \in Elem : ReuseElem(e)

TailQSpec == TailQInit /\ [][TailQNext]_vars

-----------------------------------------------------------------------------
(* Properties *)

\* The words of a cell that is in use hold what their C type says: garbage is
\* never linked in, and no link leads to an element that is in no queue.
LinksValid ==
  \A x \in Cell : user[x] # NULL =>
    /\ next[x] \in Elem \cup {NULL}
    /\ adr[x] \in Cell
    /\ next[x] # NULL => user[next[x]] = user[x]
    /\ user[adr[x]] = user[x]

\* FOREACH_REVERSE, with which alt_select disables the guards, visits exactly
\* the elements of FOREACH, with which it enabled them, in the opposite order.
WalksAgree ==
  \A h \in Heads : user[h] = h =>
    TAILQ_FOREACH_REVERSE(h) = Reverse(TAILQ_FOREACH(h))

\* The queues as sequences.
Content(h) == IF user[h] = h THEN TAILQ_FOREACH(h) ELSE <<>>

Abstract == INSTANCE Lists WITH lists <- [h \in Heads |-> Content(h)]

\* The pointer surgery implements sequences, whatever garbage the elements held
\* and wherever in the queue an element is removed.
ImplementsLists == Abstract!ListsSpec
=============================================================================
