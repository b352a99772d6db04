---------------------------- MODULE TailQProofs ----------------------------
(***************************************************************************)
(* What the pointers of TailQ satisfy for any number of queues and of      *)
(* elements: no link leads out of its queue, and stepping backwards undoes *)
(* stepping forwards.                                                      *)
(***************************************************************************)
EXTENDS TailQ, Loops, SequenceTheorems, FiniteSetTheorems, TLAPS

\* The words of a cell, and the queue it is used for: a head for its own only.
CellTypes ==
  /\ next \in [Cell -> Cell \cup {NULL, Garbage}]
  /\ adr \in [Cell -> Cell \cup {NULL, Garbage}]
  /\ user \in [Cell -> Heads \cup {NULL}]
  /\ \A h \in Heads : user[h] \in {NULL, h}
  /\ \A e \in Elem : user[e] # NULL => user[user[e]] = user[e]

\* adr is where the pointer to a cell is stored: the cell before an element, and
\* the last cell for a head.
BackLinks ==
  /\ \A x \in Cell : user[x] # NULL /\ next[x] # NULL => adr[next[x]] = x
  /\ \A e \in Elem : user[e] # NULL => next[adr[e]] = e
  /\ \A h \in Heads : user[h] = h => next[adr[h]] = NULL
  /\ \A x \in Cell : user[x] # NULL /\ next[x] = NULL => adr[user[x]] = x

\* The inductive invariant.
TInv == CellTypes /\ LinksValid /\ BackLinks

\* No queue is initialised yet.
LEMMA TailQStart == TailQInit => TInv
BY TailQAssumption DEF TailQInit, TInv, CellTypes, LinksValid, BackLinks, Cell

\* TAILQ_INIT makes a queue of the head alone.
LEMMA InitStep ==
  ASSUME TInv, NEW h \in Heads, InitQueue(h)
  PROVE  TInv'
<1> USE TailQAssumption DEF Cell
<1>1. /\ user[h] = NULL /\ next' = [next EXCEPT ![h] = NULL]
      /\ adr' = [adr EXCEPT ![h] = h] /\ user' = [user EXCEPT ![h] = h]
  BY DEF InitQueue, TAILQ_INIT
<1>2. CellTypes'
  BY <1>1 DEF TInv, CellTypes
<1>3. LinksValid'
  BY <1>1 DEF TInv, CellTypes, LinksValid
<1>4. BackLinks'
  BY <1>1 DEF TInv, CellTypes, LinksValid, BackLinks
<1> QED BY <1>2, <1>3, <1>4 DEF TInv

\* TAILQ_INSERT_TAIL writes through tqh_last, which is the last cell's link.
LEMMA InsertStep ==
  ASSUME TInv, NEW h \in Heads, NEW e \in Elem, Insert(h, e)
  PROVE  TInv'
<1> USE TailQAssumption DEF Cell
<1>1. /\ user[h] = h /\ user[e] = NULL /\ user' = [user EXCEPT ![e] = h]
      /\ next' = [next EXCEPT ![e] = NULL, ![adr[h]] = e]
      /\ adr' = [adr EXCEPT ![e] = adr[h], ![h] = e]
  BY DEF Insert, TAILQ_INSERT_TAIL
<1>2. adr[h] \in Cell /\ user[adr[h]] = h /\ next[adr[h]] = NULL /\ adr[h] # e /\ h # e
  BY <1>1 DEF TInv, CellTypes, LinksValid, BackLinks
<1>3. CellTypes'
  BY <1>1, <1>2 DEF TInv, CellTypes
<1>4. LinksValid'
  BY <1>1, <1>2 DEF TInv, CellTypes, LinksValid
<1>5. BackLinks'
  BY <1>1, <1>2 DEF TInv, CellTypes, LinksValid, BackLinks
<1> QED BY <1>3, <1>4, <1>5 DEF TInv

\* TAILQ_REMOVE writes the link before the element, and the address in the cell
\* after it or in the head: only they refer to the element.
LEMMA UnlinkStep ==
  ASSUME TInv, NEW h \in Heads, NEW e \in Elem, Unlink(h, e)
  PROVE  TInv'
<1> USE TailQAssumption DEF Cell
<1> DEFINE z == IF next[e] # NULL THEN next[e] ELSE h
<1>1. /\ user[e] = h /\ user' = [user EXCEPT ![e] = NULL]
      /\ next' = [next EXCEPT ![adr[e]] = next[e]]
      /\ adr' = [adr EXCEPT ![z] = adr[e]]
  BY DEF Unlink, TAILQ_REMOVE
<1>2. /\ h # NULL /\ user[h] = h /\ h # e
      /\ adr[e] \in Cell /\ user[adr[e]] = h /\ next[adr[e]] = e
      /\ next[e] \in Elem \cup {NULL}
      /\ next[e] # NULL => user[next[e]] = h /\ adr[next[e]] = e
      /\ next[e] = NULL => adr[h] = e
  BY <1>1 DEF TInv, CellTypes, LinksValid, BackLinks
<1>3. z \in Cell /\ user[z] = h /\ adr[z] = e
  BY <1>2
<1> HIDE DEF z
<1>4. \A x \in Cell : /\ next'[x] = IF x = adr[e] THEN next[e] ELSE next[x]
                      /\ adr'[x] = IF x = z THEN adr[e] ELSE adr[x]
                      /\ user'[x] = IF x = e THEN NULL ELSE user[x]
  BY <1>1, <1>2, <1>3 DEF TInv, CellTypes
<1>5. CellTypes'
  BY <1>1, <1>2, <1>3 DEF TInv, CellTypes
<1>6. \A x \in Cell : user[x] # NULL /\ next[x] = e => x = adr[e]
  BY <1>2 DEF TInv, BackLinks
<1>7. \A x \in Cell : user[x] # NULL /\ adr[x] = e => x = z
  BY <1>2, <1>3 DEF TInv, CellTypes, LinksValid, BackLinks, z
<1>8. LinksValid'
  BY <1>1, <1>2, <1>3, <1>4, <1>6, <1>7 DEF TInv, CellTypes, LinksValid
<1>9. BackLinks'
  BY <1>1, <1>2, <1>3, <1>4, <1>6, <1>7 DEF TInv, CellTypes, LinksValid, BackLinks, z
<1> QED BY <1>5, <1>8, <1>9 DEF TInv

\* Nothing in use refers to memory that is handed out again.
LEMMA ReuseStep ==
  ASSUME TInv, (\E e \in Elem : ReuseElem(e)) \/ (\E h \in Heads : ReuseHead(h))
  PROVE  TInv'
<1> USE TailQAssumption DEF Cell
<1>1. PICK x \in Cell : /\ user[x] \in {NULL, x}
                        /\ \A y \in Cell : user[y] = x => y = x
                        /\ next' = [next EXCEPT ![x] = Garbage]
                        /\ adr' = [adr EXCEPT ![x] = Garbage]
                        /\ user' = [user EXCEPT ![x] = NULL]
  BY DEF ReuseElem, ReuseHead, TInv, CellTypes
<1>2. CellTypes'
  BY <1>1 DEF TInv, CellTypes
<1>3. LinksValid'
  BY <1>1 DEF TInv, CellTypes, LinksValid
<1>4. BackLinks'
  BY <1>1 DEF TInv, CellTypes, LinksValid, BackLinks
<1> QED BY <1>2, <1>3, <1>4 DEF TInv

\* Every use of the macros keeps the invariant.
LEMMA TailQStep == TInv /\ [TailQNext]_vars => TInv'
<1>1. ASSUME TInv, UNCHANGED vars PROVE TInv'
  BY <1>1 DEF vars, TInv, CellTypes, LinksValid, BackLinks
<1> QED
  BY <1>1, InitStep, InsertStep, UnlinkStep, ReuseStep DEF TailQNext

\* No link of a queue ever leads to garbage, to a freed element or into another
\* queue, for any number of queues and elements and in any order of INSERT_TAIL,
\* REMOVE and reuse.
THEOREM LinksStayValid == TailQSpec => []LinksValid
<1>1. TInv => LinksValid
  BY DEF TInv
<1> QED BY <1>1, TailQStart, TailQStep, PTL DEF TailQSpec

-----------------------------------------------------------------------------
(* Walking backwards *)

\* FOREACH_REVERSE starts where FOREACH stops, stops where it starts, and each of
\* its steps undoes one of FOREACH: TAILQ_PREV, which reads a link as if it were a
\* head, is the inverse of TAILQ_NEXT.
StepsInvert ==
  \A h \in Heads : user[h] = h =>
    /\ TAILQ_FIRST(h) = NULL <=> TAILQ_LAST(h) = NULL
    /\ \A e \in Elem : user[e] = h =>
         /\ TAILQ_PREV(e) = NULL <=> TAILQ_FIRST(h) = e
         /\ TAILQ_NEXT(e) = NULL <=> TAILQ_LAST(h) = e
         /\ \A f \in Elem : user[f] = h => (TAILQ_NEXT(e) = f <=> TAILQ_PREV(f) = e)

\* What an address in use refers to.
LEMMA AdrFacts ==
  ASSUME TInv, NEW x \in Cell, user[x] # NULL
  PROVE  /\ adr[x] \in Cell /\ user[adr[x]] = user[x]
         /\ user[x] \in Heads /\ user[user[x]] = user[x]
         /\ x \in Elem => next[adr[x]] = x
         /\ x \in Heads => user[x] = x /\ next[adr[x]] = NULL
BY TailQAssumption DEF TInv, CellTypes, LinksValid, BackLinks, Cell

\* Backwards is the inverse of forwards in every queue of every program.
THEOREM PrevInvertsNext == TailQSpec => []StepsInvert
<1>1. TInv => StepsInvert
  <2> SUFFICES ASSUME TInv, NEW h \in Heads, user[h] = h
               PROVE  /\ TAILQ_FIRST(h) = NULL <=> TAILQ_LAST(h) = NULL
                      /\ \A e \in Elem : user[e] = h =>
                           /\ TAILQ_PREV(e) = NULL <=> TAILQ_FIRST(h) = e
                           /\ TAILQ_NEXT(e) = NULL <=> TAILQ_LAST(h) = e
                           /\ \A f \in Elem : user[f] = h =>
                                (TAILQ_NEXT(e) = f <=> TAILQ_PREV(f) = e)
    BY DEF StepsInvert
  <2> USE TailQAssumption DEF Cell
  <2>1. h # NULL /\ adr[h] \in Cell /\ user[adr[h]] = h /\ next[adr[h]] = NULL
    BY AdrFacts
  <2>2. \A x \in Cell : user[x] = h /\ next[x] # NULL => next[x] \in Elem /\ adr[next[x]] = x
    BY <2>1 DEF TInv, LinksValid, BackLinks
  <2>3. \A x \in Cell : user[x] = h /\ next[x] = NULL => adr[h] = x
    BY <2>1 DEF TInv, BackLinks
  <2>4. \A x \in Cell : user[x] = h =>
          next[adr[x]] = IF x = h THEN NULL ELSE x
    BY <2>1, AdrFacts
  <2>5. TAILQ_FIRST(h) = NULL <=> TAILQ_LAST(h) = NULL
    BY <2>1, <2>2, <2>3, <2>4 DEF TAILQ_FIRST, TAILQ_LAST
  <2>6. ASSUME NEW e \in Elem, user[e] = h
        PROVE  /\ TAILQ_PREV(e) = NULL <=> TAILQ_FIRST(h) = e
               /\ TAILQ_NEXT(e) = NULL <=> TAILQ_LAST(h) = e
    <3>1. adr[e] \in Cell /\ user[adr[e]] = h /\ next[adr[e]] = e
      BY <2>1, <2>6, AdrFacts
    <3>2. TAILQ_PREV(e) = IF adr[e] = h THEN NULL ELSE adr[e]
      BY <2>4, <3>1 DEF TAILQ_PREV
    <3>3. adr[e] = h <=> next[h] = e
      BY <2>1, <2>2, <3>1
    <3>4. TAILQ_LAST(h) = IF adr[h] = h THEN NULL ELSE adr[h]
      BY <2>1, <2>4 DEF TAILQ_LAST
    <3>5. next[e] = NULL <=> adr[h] = e
      BY <2>1, <2>3, <2>6
    <3> QED BY <2>1, <2>6, <3>1, <3>2, <3>3, <3>4, <3>5 DEF TAILQ_NEXT, TAILQ_FIRST
  <2>7. ASSUME NEW e \in Elem, NEW f \in Elem, user[e] = h, user[f] = h
        PROVE  TAILQ_NEXT(e) = f <=> TAILQ_PREV(f) = e
    <3>1. adr[f] \in Cell /\ user[adr[f]] = h /\ next[adr[f]] = f
      BY <2>1, <2>7, AdrFacts
    <3>2. TAILQ_PREV(f) = IF adr[f] = h THEN NULL ELSE adr[f]
      BY <2>4, <3>1 DEF TAILQ_PREV
    <3>3. next[e] = f <=> adr[f] = e
      BY <2>2, <2>7, <3>1
    <3> QED BY <2>1, <2>7, <3>2, <3>3 DEF TAILQ_NEXT
  <2> QED BY <2>5, <2>6, <2>7
<1> QED BY <1>1, TailQStart, TailQStep, PTL DEF TailQSpec

-----------------------------------------------------------------------------
(* Walks *)

\* What a walk along s finds at its i-th position: an element, or the end.
At(s, i) == IF i \in 1..Len(s) THEN s[i] ELSE NULL

\* s lists elements, none of them twice.
Distinct(s) ==
  s \in Seq(Elem) /\ \A i, j \in 1..Len(s) : s[i] = s[j] => i = j

\* The loop of a walk that finds s in front of it visits s, and ends there.
LEMMA WalkVisits ==
  ASSUME NEW s, Distinct(s), NEW at, at[0] = At(s, 1),
         \A i \in 1..Cardinality(Elem), j \in 1..Len(s) :
           at[i - 1] = s[j] => at[i] = At(s, j + 1),
         \A i \in 1..Cardinality(Elem) : at[i - 1] \notin Elem => at[i] = NULL
  PROVE  [i \in 1..Cardinality({j \in 0..Cardinality(Elem) : at[j] \in Elem}) |-> at[i - 1]] = s
<1> DEFINE c == Cardinality(Elem)
           n == Len(s)
<1> USE TailQAssumption
<1>1. c \in Nat
  BY FS_CardinalityType
<1>2. n \in Nat /\ s \in [1..n -> Elem] /\ \A i, j \in 1..n : s[i] = s[j] => i = j
  BY DEF Distinct
<1>3. n <= c
  <2>1. s \in Injection(1..n, Elem)
    BY <1>2 DEF Injection, IsInjective
  <2>2. Cardinality(1..n) <= c
    BY <2>1, FS_Injection
  <2>3. Cardinality(1..n) = n
    <3> HIDE DEF n
    <3> QED BY <1>2, FS_Interval
  <2> QED BY <2>2, <2>3
<1>4. \A i \in 1..c, j \in 1..n : at[i - 1] = s[j] => at[i] = At(s, j + 1)
  OBVIOUS
<1>5. \A i \in 1..c : at[i - 1] \notin Elem => at[i] = NULL
  OBVIOUS
<1> HIDE DEF c, n
<1>6. \A i \in 0..c : at[i] = At(s, i + 1)
  <2> DEFINE Bad == {i \in 0..c : at[i] # At(s, i + 1)}
  <2> SUFFICES ASSUME Bad # {} PROVE FALSE
    OBVIOUS
  <2>1. PICK m \in Bad : \A k \in Bad : m <= k
    <3>1. Bad \in SUBSET Nat
      BY <1>1
    <3> QED BY <3>1, NatMin
  <2>2. m \in 0..c /\ m # 0 /\ at[m] # At(s, m + 1)
    BY DEF n
  <2>3. m - 1 \in 0..c /\ m \in 1..c /\ ~(m <= m - 1) /\ (m - 1) + 1 = m
    BY <1>1, <2>2
  <2>4. at[m - 1] = At(s, m)
    BY <2>1, <2>3
  <2>5. CASE m \in 1..n
    BY <1>4, <2>2, <2>3, <2>4, <2>5 DEF At, n
  <2>6. CASE m \notin 1..n
    <3>1. at[m - 1] = NULL /\ at[m] = NULL
      BY <1>5, <2>3, <2>4, <2>6 DEF At, n
    <3>2. m + 1 \notin 1..n
      BY <1>2, <2>3, <2>6
    <3> QED BY <2>2, <3>1, <3>2 DEF At, n
  <2> QED BY <2>5, <2>6
<1>7. {j \in 0..c : at[j] \in Elem} = 0..(n - 1)
  <2>1. \A j \in 0..c : at[j] \in Elem <=> j + 1 \in 1..n
    BY <1>2, <1>6 DEF At, n
  <2> QED BY <1>1, <1>2, <1>3, <2>1
<1>8. Cardinality(0..(n - 1)) = n
  BY <1>2, FS_Interval
<1>9. \A i \in 1..n : at[i - 1] = s[i]
  BY <1>1, <1>2, <1>3, <1>6 DEF At, n
<1>10. [i \in 1..n |-> at[i - 1]] = s
  BY <1>2, <1>9
<1> QED BY <1>7, <1>8, <1>10 DEF c

\* s is the queue of head h, as the next links give it.
Chain(h, s) ==
  /\ Distinct(s)
  /\ \A e \in Elem : user[e] = h <=> \E i \in 1..Len(s) : e = s[i]
  /\ next[h] = At(s, 1)
  /\ \A i \in 1..Len(s) : next[s[i]] = At(s, i + 1)

\* FOREACH visits the chain.
LEMMA ForeachIsChain ==
  ASSUME NEW h \in Heads, NEW s, Chain(h, s)
  PROVE  TAILQ_FOREACH(h) = s
<1> DEFINE c == Cardinality(Elem)
           at[i \in 0..c] ==
             IF i = 0 THEN next[h] ELSE IF at[i - 1] \in Elem THEN next[at[i - 1]] ELSE NULL
           w == [i \in 0..c |-> At(s, i + 1)]
<1>1. c \in Nat
  BY FS_CardinalityType, TailQAssumption
<1>2. Len(s) \in Nat /\ s \in [1..Len(s) -> Elem]
  BY DEF Chain, Distinct
<1> HIDE DEF c
<1>3. w = [i \in 0..c |->
             IF i = 0 THEN next[h] ELSE IF w[i - 1] \in Elem THEN next[w[i - 1]] ELSE NULL]
  <2>1. w[0] = next[h]
    BY <1>1 DEF Chain
  <2>2. ASSUME NEW i \in 1..c
        PROVE  w[i] = IF w[i - 1] \in Elem THEN next[w[i - 1]] ELSE NULL
    <3>1. w[i - 1] = At(s, i) /\ w[i] = At(s, i + 1)
      BY <1>1
    <3> QED BY <1>2, <3>1, TailQAssumption DEF At, Chain
  <2>3. w = [i \in 0..c |-> w[i]]
    OBVIOUS
  <2> HIDE DEF w
  <2>4. \A i \in 0..c : w[i] =
          IF i = 0 THEN next[h] ELSE IF w[i - 1] \in Elem THEN next[w[i - 1]] ELSE NULL
    BY <1>1, <2>1, <2>2
  <2> QED BY <2>3, <2>4, Zenon
<1>4. at = [i \in 0..c |->
             IF i = 0 THEN next[h] ELSE IF at[i - 1] \in Elem THEN next[at[i - 1]] ELSE NULL]
  <2> HIDE DEF w
  <2> QED BY <1>3
<1>5. TAILQ_FOREACH(h)
        = [i \in 1..Cardinality({j \in 0..Cardinality(Elem) : at[j] \in Elem}) |-> at[i - 1]]
  BY DEF TAILQ_FOREACH, Walk, TAILQ_FIRST, TAILQ_NEXT, c
<1> HIDE DEF at, w
<1>6. at[0] = At(s, 1)
  BY <1>1, <1>4 DEF Chain
<1>7. \A i \in 1..c : at[i] = IF at[i - 1] \in Elem THEN next[at[i - 1]] ELSE NULL
  BY <1>1, <1>4
<1>8. \A i \in 1..Cardinality(Elem), j \in 1..Len(s) :
        at[i - 1] = s[j] => at[i] = At(s, j + 1)
  BY <1>2, <1>7 DEF c, Chain
<1>9. \A i \in 1..Cardinality(Elem) : at[i - 1] \notin Elem => at[i] = NULL
  BY <1>7 DEF c
<1>10. Distinct(s)
  BY DEF Chain
<1> QED BY <1>5, <1>6, <1>8, <1>9, <1>10, WalkVisits

\* Backwards, FOREACH_REVERSE visits it from its end.
LEMMA ReverseIsChain ==
  ASSUME TInv, NEW h \in Heads, user[h] = h, NEW s, Chain(h, s)
  PROVE  TAILQ_FOREACH_REVERSE(h) = Reverse(s)
<1> DEFINE c == Cardinality(Elem)
           n == Len(s)
           r == Reverse(s)
           at[i \in 0..c] ==
             IF i = 0 THEN TAILQ_LAST(h)
             ELSE IF at[i - 1] \in Elem THEN TAILQ_PREV(at[i - 1]) ELSE NULL
           w == [i \in 0..c |-> At(r, i + 1)]
<1>1. c \in Nat
  BY FS_CardinalityType, TailQAssumption
<1>2. n \in Nat /\ s \in [1..n -> Elem] /\ \A i, j \in 1..n : s[i] = s[j] => i = j
  BY DEF Chain, Distinct
<1> HIDE DEF n
<1>3. r = [i \in 1..n |-> s[(n - i) + 1]]
  BY DEF Reverse, n
<1>4. Len(r) = n /\ r \in Seq(Elem)
  <2>1. r \in [1..n -> Elem]
    BY <1>2, <1>3
  <2> HIDE DEF r
  <2> QED BY <1>2, <2>1, LenProperties
<1>5. Distinct(r)
  <2> SUFFICES ASSUME NEW i \in 1..n, NEW j \in 1..n, r[i] = r[j] PROVE i = j
    BY <1>4 DEF Distinct
  <2>1. (n - i) + 1 \in 1..n /\ (n - j) + 1 \in 1..n
    BY <1>2
  <2>2. s[(n - i) + 1] = s[(n - j) + 1]
    BY <1>3
  <2> QED BY <1>2, <2>1, <2>2
<1> HIDE DEF c, r
<1>6. \A i \in 1..n : user[s[i]] = h /\ s[i] \in Elem /\ s[i] \in Cell
  BY <1>2 DEF Chain, n, Cell
<1>7. h # NULL /\ h \in Cell /\ next[adr[h]] = NULL
  BY TailQAssumption, AdrFacts DEF Cell
<1>8. TAILQ_LAST(h) = At(r, 1)
  <2>1. CASE n = 0
    <3>1. next[h] = NULL
      BY <1>2, <2>1 DEF Chain, At, n
    <3>2. adr[h] = h
      BY <1>7, <3>1 DEF TInv, BackLinks
    <3> QED BY <1>4, <1>7, <2>1, <3>2 DEF TAILQ_LAST, At
  <2>2. CASE n # 0
    <3>1. n \in 1..n /\ 1 \in 1..n /\ n + 1 \notin 1..n /\ r[1] = s[n]
      BY <1>2, <1>3, <2>2
    <3>2. next[s[n]] = NULL
      BY <3>1 DEF Chain, At, n
    <3>3. adr[h] = s[n]
      BY <1>6, <1>7, <3>1, <3>2 DEF TInv, BackLinks
    <3>4. next[adr[s[n]]] = s[n]
      BY <1>6, <1>7, <3>1, AdrFacts
    <3> QED BY <1>4, <3>1, <3>3, <3>4 DEF TAILQ_LAST, At
  <2> QED BY <2>1, <2>2
<1>9. \A i \in 1..n : TAILQ_PREV(r[i]) = At(r, i + 1)
  <2> SUFFICES ASSUME NEW i \in 1..n PROVE TAILQ_PREV(r[i]) = At(r, i + 1)
    OBVIOUS
  <2> DEFINE k == (n - i) + 1
  <2>1. k \in 1..n /\ r[i] = s[k]
    BY <1>2, <1>3
  <2>2. CASE i = n
    <3>1. k = 1 /\ i + 1 \notin 1..n
      BY <1>2, <2>2
    <3>2. next[h] = s[1]
      BY <2>1, <3>1 DEF Chain, At, n
    <3>3. adr[s[1]] = h
      BY <1>6, <1>7, <2>1, <3>1, <3>2, TailQAssumption DEF TInv, BackLinks
    <3> QED BY <1>4, <1>7, <2>1, <3>1, <3>3 DEF TAILQ_PREV, At
  <2>3. CASE i # n
    <3>1. k - 1 \in 1..n /\ (k - 1) + 1 = k /\ i + 1 \in 1..n /\ r[i + 1] = s[k - 1]
      BY <1>2, <1>3, <2>3
    <3> HIDE DEF k
    <3>2. next[s[k - 1]] = s[k]
      BY <2>1, <3>1 DEF Chain, At, n
    <3>3. adr[s[k]] = s[k - 1]
      BY <1>6, <1>7, <2>1, <3>1, <3>2, TailQAssumption DEF TInv, BackLinks
    <3>4. next[adr[s[k - 1]]] = s[k - 1]
      BY <1>6, <1>7, <3>1, AdrFacts
    <3> QED BY <1>4, <2>1, <3>1, <3>3, <3>4 DEF TAILQ_PREV, At
  <2> QED BY <2>2, <2>3
<1>10. w = [i \in 0..c |->
             IF i = 0 THEN TAILQ_LAST(h)
             ELSE IF w[i - 1] \in Elem THEN TAILQ_PREV(w[i - 1]) ELSE NULL]
  <2>1. w[0] = TAILQ_LAST(h)
    BY <1>1, <1>8
  <2>2. ASSUME NEW i \in 1..c
        PROVE  w[i] = IF w[i - 1] \in Elem THEN TAILQ_PREV(w[i - 1]) ELSE NULL
    <3>1. w[i - 1] = At(r, i) /\ w[i] = At(r, i + 1)
      BY <1>1
    <3>2. i \in 1..n => r[i] \in Elem
      BY <1>4
    <3>3. CASE i \in 1..n
      BY <1>4, <1>9, <3>1, <3>2, <3>3 DEF At
    <3>4. CASE i \notin 1..n
      <4>1. i + 1 \notin 1..n
        BY <1>1, <1>2, <3>4
      <4> QED BY <1>4, <3>1, <3>4, <4>1, TailQAssumption DEF At
    <3> QED BY <3>3, <3>4
  <2>3. w = [i \in 0..c |-> w[i]]
    OBVIOUS
  <2> HIDE DEF w
  <2>4. \A i \in 0..c : w[i] =
          IF i = 0 THEN TAILQ_LAST(h)
          ELSE IF w[i - 1] \in Elem THEN TAILQ_PREV(w[i - 1]) ELSE NULL
    BY <1>1, <2>1, <2>2
  <2> QED BY <2>3, <2>4, Zenon
<1>11. at = [i \in 0..c |->
             IF i = 0 THEN TAILQ_LAST(h)
             ELSE IF at[i - 1] \in Elem THEN TAILQ_PREV(at[i - 1]) ELSE NULL]
  <2> HIDE DEF w
  <2> QED BY <1>10
<1>12. TAILQ_FOREACH_REVERSE(h)
        = [i \in 1..Cardinality({j \in 0..Cardinality(Elem) : at[j] \in Elem}) |-> at[i - 1]]
  BY DEF TAILQ_FOREACH_REVERSE, Walk, c
<1> HIDE DEF at, w
<1>13. at[0] = At(r, 1)
  BY <1>1, <1>8, <1>11
<1>14. \A i \in 1..c : at[i] = IF at[i - 1] \in Elem THEN TAILQ_PREV(at[i - 1]) ELSE NULL
  BY <1>1, <1>11
<1>15. \A i \in 1..Cardinality(Elem), j \in 1..Len(r) :
        at[i - 1] = r[j] => at[i] = At(r, j + 1)
  BY <1>4, <1>9, <1>14 DEF c
<1>16. \A i \in 1..Cardinality(Elem) : at[i - 1] \notin Elem => at[i] = NULL
  BY <1>14 DEF c
<1>17. TAILQ_FOREACH_REVERSE(h) = r
  BY <1>5, <1>12, <1>13, <1>15, <1>16, WalkVisits
<1> QED BY <1>17 DEF r

-----------------------------------------------------------------------------
(* The queues are sequences *)

\* Every initialised head has a chain.
Chained == \A h \in Heads : user[h] = h => \E s : Chain(h, s)

\* The inductive invariant.
QInv == TInv /\ Chained

\* A chain depends on the links of its head and of its elements only.
LEMMA ChainFrame ==
  ASSUME NEW h \in Heads, NEW s, Chain(h, s), next'[h] = next[h],
         \A e \in Elem : user'[e] = h <=> user[e] = h,
         \A e \in Elem : user[e] = h => next'[e] = next[e]
  PROVE  Chain(h, s)'
<1>1. \A i \in 1..Len(s) : s[i] \in Elem /\ user[s[i]] = h
  BY DEF Chain, Distinct
<1> QED BY <1>1 DEF Chain

\* A new queue is empty.
LEMMA InitChain ==
  ASSUME TInv, NEW h \in Heads, InitQueue(h)
  PROVE  Chain(h, <<>>)' /\ \A g \in Heads \ {h} : \A s : Chain(g, s) => Chain(g, s)'
<1> USE TailQAssumption DEF Cell
<1>1. /\ user[h] = NULL /\ next' = [next EXCEPT ![h] = NULL]
      /\ user' = [user EXCEPT ![h] = h]
  BY DEF InitQueue, TAILQ_INIT
<1>2. /\ \A e \in Elem : user'[e] = user[e] /\ next'[e] = next[e] /\ user[e] # h
      /\ \A g \in Heads \ {h} : next'[g] = next[g]
      /\ next'[h] = NULL
  BY <1>1 DEF TInv, CellTypes
<1>3. Chain(h, <<>>)'
  BY <1>2 DEF Chain, Distinct, At
<1>4. ASSUME NEW g \in Heads \ {h}, NEW s, Chain(g, s) PROVE Chain(g, s)'
  BY <1>2, <1>4, ChainFrame
<1> QED BY <1>3, <1>4

\* INSERT_TAIL appends.
LEMMA InsertChain ==
  ASSUME TInv, NEW h \in Heads, NEW e \in Elem, Insert(h, e)
  PROVE  /\ \A s : Chain(h, s) => Chain(h, Append(s, e))'
         /\ \A g \in Heads \ {h} : \A s : Chain(g, s) => Chain(g, s)'
<1> USE TailQAssumption DEF Cell
<1>1. /\ user[h] = h /\ user[e] = NULL /\ user' = [user EXCEPT ![e] = h]
      /\ next' = [next EXCEPT ![e] = NULL, ![adr[h]] = e]
  BY DEF Insert, TAILQ_INSERT_TAIL
<1>2. adr[h] \in Cell /\ user[adr[h]] = h /\ next[adr[h]] = NULL /\ adr[h] # e /\ h # e
  BY <1>1 DEF TInv, CellTypes, LinksValid, BackLinks
<1>3. /\ \A x \in Cell : next'[x] = IF x = adr[h] THEN e ELSE IF x = e THEN NULL ELSE next[x]
      /\ \A x \in Cell : user'[x] = IF x = e THEN h ELSE user[x]
  BY <1>1, <1>2 DEF TInv, CellTypes
<1>4. \A g \in Heads : user[g] \in {NULL, g}
  BY DEF TInv, CellTypes
<1>5. ASSUME NEW g \in Heads \ {h}, NEW s, Chain(g, s) PROVE Chain(g, s)'
  <2>1. g # adr[h] /\ g # e /\ next'[g] = next[g]
    BY <1>2, <1>3, <1>4
  <2>2. \A f \in Elem : user[f] = g => f # e /\ f # adr[h]
    BY <1>1, <1>2
  <2>3. \A f \in Elem : user'[f] = g <=> user[f] = g
    BY <1>1, <1>3
  <2> QED BY <1>3, <1>5, <2>1, <2>2, <2>3, ChainFrame
<1>6. ASSUME NEW s, Chain(h, s) PROVE Chain(h, Append(s, e))'
  <2> DEFINE n == Len(s)
             t == Append(s, e)
  <2>1. n \in Nat /\ s \in [1..n -> Elem] /\ \A i, j \in 1..n : s[i] = s[j] => i = j
    BY <1>6 DEF Chain, Distinct
  <2>2. s \in Seq(Elem)
    BY <1>6 DEF Chain, Distinct
  <2> HIDE DEF n
  <2>3. t \in Seq(Elem) /\ Len(t) = n + 1 /\ t[n + 1] = e /\ \A i \in 1..n : t[i] = s[i]
    BY <2>2 DEF n
  <2> HIDE DEF t
  <2>4. \A i \in 1..n : user[s[i]] = h /\ s[i] # e /\ s[i] \in Elem
    BY <1>1, <1>6, <2>1 DEF Chain, n
  <2>5. Distinct(t)
    BY <2>1, <2>3, <2>4 DEF Distinct
  <2>6. \A f \in Elem : user'[f] = h <=> \E i \in 1..(n + 1) : f = t[i]
    <3>1. \A f \in Elem : user'[f] = h <=> f = e \/ \E i \in 1..n : f = s[i]
      BY <1>3, <1>6 DEF Chain, n
    <3> QED BY <2>1, <2>3, <3>1
  <2>7. CASE n = 0
    <3>1. adr[h] = h
      BY <1>1, <1>6, <2>1, <2>7 DEF Chain, At, n, TInv, BackLinks
    <3>2. next'[h] = e /\ next'[e] = NULL
      BY <1>2, <1>3, <3>1
    <3>3. next'[h] = At(t, 1) /\ \A i \in 1..Len(t) : next'[t[i]] = At(t, i + 1)
      BY <2>3, <2>7, <3>2 DEF At
    <3> QED BY <2>3, <2>5, <2>6, <3>3 DEF Chain, t
  <2>8. CASE n # 0
    <3>1. n \in 1..n /\ n + 1 \notin 1..n
      BY <2>1, <2>8
    <3>2. adr[h] = s[n]
      <4>1. next[s[n]] = NULL
        BY <1>6, <3>1 DEF Chain, At, n
      <4> QED BY <1>1, <2>4, <3>1, <4>1 DEF TInv, BackLinks
    <3>3. next'[h] = At(t, 1)
      <4>1. next'[h] = s[1]
        BY <1>2, <1>3, <1>6, <2>1, <2>4, <2>8, <3>1, <3>2 DEF Chain, At, n
      <4> QED BY <2>1, <2>3, <2>8, <4>1 DEF At
    <3>4. ASSUME NEW i \in 1..n PROVE next'[t[i]] = At(t, i + 1)
      <4>1. t[i] = s[i] /\ i + 1 \in 1..(n + 1) /\ i \in Nat
        BY <2>1, <2>3
      <4>2. CASE i = n
        BY <1>3, <2>3, <2>4, <3>2, <4>1, <4>2 DEF At
      <4>3. CASE i # n
        <5>1. s[i] # s[n] /\ i + 1 \in 1..n
          BY <2>1, <3>1, <4>1, <4>3
        <5>2. next[s[i]] = s[i + 1]
          BY <1>6, <5>1 DEF Chain, At, n
        <5> QED BY <1>3, <2>3, <2>4, <3>2, <4>1, <5>1, <5>2 DEF At
      <4> QED BY <4>2, <4>3
    <3>5. next'[t[n + 1]] = At(t, n + 1 + 1)
      <4>1. n + 1 + 1 \notin 1..(n + 1)
        BY <2>1
      <4> QED BY <1>2, <1>3, <2>3, <2>4, <3>1, <3>2, <4>1 DEF At
    <3>6. \A i \in 1..(n + 1) : i \in 1..n \/ i = n + 1
      BY <2>1
    <3>7. \A i \in 1..Len(t) : next'[t[i]] = At(t, i + 1)
      BY <2>3, <3>4, <3>5, <3>6
    <3> QED BY <2>3, <2>5, <2>6, <3>3, <3>7 DEF Chain, t
  <2> QED BY <2>7, <2>8
<1> QED BY <1>5, <1>6

\* What RemoveAt of SequencesExt leaves.
LEMMA RemoveAtFacts ==
  ASSUME NEW s \in Seq(Elem), NEW i \in 1..Len(s)
  PROVE  /\ RemoveAt(s, i) \in Seq(Elem)
         /\ Len(RemoveAt(s, i)) = Len(s) - 1
         /\ \A k \in 1..Len(s) - 1 : RemoveAt(s, i)[k] = IF k < i THEN s[k] ELSE s[k + 1]
<1> DEFINE a == SubSeq(s, 1, i - 1)
           b == SubSeq(s, i + 1, Len(s))
<1>1. Len(s) \in Nat /\ i \in Nat /\ i <= Len(s) /\ 1 <= i
  OBVIOUS
<1>2. a \in Seq(Elem) /\ Len(a) = i - 1 /\ \A k \in 1..(i - 1) : a[k] = s[k]
  OBVIOUS
<1>3. /\ b \in Seq(Elem) /\ Len(b) = Len(s) - i
      /\ \A k \in 1..(Len(s) - i) : b[k] = s[i + k]
  OBVIOUS
<1> HIDE DEF a, b
<1>4. a \o b \in Seq(Elem) /\ Len(a \o b) = Len(s) - 1
  <2>1. a \o b \in Seq(Elem) /\ Len(a \o b) = Len(a) + Len(b)
    BY <1>2, <1>3, ConcatProperties
  <2> QED BY <1>1, <1>2, <1>3, <2>1
<1>5. ASSUME NEW k \in 1..Len(s) - 1
      PROVE  (a \o b)[k] = IF k < i THEN s[k] ELSE s[k + 1]
  <2>1. CASE k < i
    <3>1. k \in 1..(i - 1)
      BY <1>1, <2>1
    <3> QED BY <1>2, <1>3, <2>1, <3>1
  <2>2. CASE ~(k < i)
    <3>1. k - (i - 1) \in 1..(Len(s) - i) /\ i + (k - (i - 1)) = k + 1
      BY <1>1, <2>2
    <3>2. (a \o b)[k] = b[k - (i - 1)]
      BY <1>1, <1>2, <1>3, <2>2, <3>1
    <3> QED BY <1>3, <2>2, <3>1, <3>2
  <2> QED BY <2>1, <2>2
<1> QED BY <1>4, <1>5 DEF RemoveAt, a, b

\* REMOVE takes its element out of the sequence, wherever it is.
LEMMA UnlinkChain ==
  ASSUME TInv, NEW h \in Heads, NEW e \in Elem, Unlink(h, e)
  PROVE  /\ \A s, i : Chain(h, s) /\ i \in 1..Len(s) /\ s[i] = e => Chain(h, RemoveAt(s, i))'
         /\ \A g \in Heads \ {h} : \A s : Chain(g, s) => Chain(g, s)'
<1> USE TailQAssumption DEF Cell
<1>1. /\ user[e] = h /\ user' = [user EXCEPT ![e] = NULL]
      /\ next' = [next EXCEPT ![adr[e]] = next[e]]
  BY DEF Unlink, TAILQ_REMOVE
<1>2. /\ h # NULL /\ user[h] = h /\ h # e
      /\ adr[e] \in Cell /\ user[adr[e]] = h /\ next[adr[e]] = e
  BY <1>1 DEF TInv, CellTypes, LinksValid, BackLinks
<1>3. /\ \A x \in Cell : next'[x] = IF x = adr[e] THEN next[e] ELSE next[x]
      /\ \A x \in Cell : user'[x] = IF x = e THEN NULL ELSE user[x]
  BY <1>1, <1>2 DEF TInv, CellTypes
<1>4. \A g \in Heads : user[g] \in {NULL, g} /\ g # NULL
  BY DEF TInv, CellTypes
<1>5. ASSUME NEW g \in Heads \ {h}, NEW s, Chain(g, s) PROVE Chain(g, s)'
  <2>1. g # adr[e] /\ next'[g] = next[g]
    BY <1>2, <1>3, <1>4
  <2>2. \A f \in Elem : user[f] = g => f # e /\ f # adr[e]
    BY <1>1, <1>2
  <2>3. \A f \in Elem : user'[f] = g <=> user[f] = g
    BY <1>1, <1>3, <1>4
  <2> QED BY <1>3, <1>5, <2>1, <2>2, <2>3, ChainFrame
<1>6. ASSUME NEW s, NEW m, Chain(h, s), m \in 1..Len(s), s[m] = e
      PROVE  Chain(h, RemoveAt(s, m))'
  <2> DEFINE n == Len(s)
             t == RemoveAt(s, m)
  <2>1. n \in Nat /\ s \in [1..n -> Elem] /\ \A i, j \in 1..n : s[i] = s[j] => i = j
    BY <1>6 DEF Chain, Distinct
  <2>2. s \in Seq(Elem)
    BY <1>6 DEF Chain, Distinct
  <2>3. /\ t \in Seq(Elem) /\ Len(t) = n - 1
        /\ \A k \in 1..n - 1 : t[k] = IF k < m THEN s[k] ELSE s[k + 1]
    BY <1>6, <2>2, RemoveAtFacts
  <2> HIDE DEF n, t
  <2>4. m \in 1..n /\ s[m] = e
    BY <1>6 DEF n
  <2>5. Distinct(t)
    <3> SUFFICES ASSUME NEW i \in 1..n - 1, NEW j \in 1..n - 1, t[i] = t[j] PROVE i = j
      BY <2>3 DEF Distinct
    <3> QED BY <2>1, <2>3, <2>4
  <2>6. \A i \in 1..n : user[s[i]] = h /\ s[i] \in Elem
    BY <1>6, <2>1 DEF Chain, n
  <2>7. \A f \in Elem : user'[f] = h <=> \E i \in 1..Len(t) : f = t[i]
    <3> SUFFICES ASSUME NEW f \in Elem
                 PROVE  user'[f] = h <=> \E i \in 1..(n - 1) : f = t[i]
      BY <2>3
    <3>1. user'[f] = h <=> f # e /\ user[f] = h
      BY <1>2, <1>3
    <3>2. user[f] = h <=> \E i \in 1..n : f = s[i]
      BY <1>6 DEF Chain, n
    <3>3. ASSUME user'[f] = h PROVE \E i \in 1..(n - 1) : f = t[i]
      <4>1. PICK i \in 1..n : f = s[i]
        BY <3>1, <3>2, <3>3
      <4>2. i # m
        BY <2>4, <3>1, <3>3, <4>1
      <4>3. CASE i < m
        <5>1. i \in 1..(n - 1) BY <2>1, <2>4, <4>3
        <5> QED BY <2>3, <4>1, <4>3, <5>1
      <4>4. CASE i > m
        <5>1. i - 1 \in 1..(n - 1) /\ ~(i - 1 < m) /\ (i - 1) + 1 = i BY <2>1, <2>4, <4>4
        <5> QED BY <2>3, <4>1, <5>1
      <4> QED BY <2>1, <2>4, <4>2, <4>3, <4>4
    <3>4. ASSUME NEW i \in 1..(n - 1), f = t[i] PROVE user'[f] = h
      <4>1. PICK k \in 1..n : f = s[k] /\ k # m
        <5>1. CASE i < m
          BY <2>1, <2>3, <2>4, <3>4, <5>1
        <5>2. CASE ~(i < m)
          <6>1. i + 1 \in 1..n /\ i + 1 # m
            BY <2>1, <2>4, <5>2
          <6> QED BY <2>3, <3>4, <5>2, <6>1
        <5> QED BY <5>1, <5>2
      <4>2. f # e
        BY <2>1, <2>4, <4>1
      <4> QED BY <3>1, <3>2, <4>1, <4>2
    <3> QED BY <3>3, <3>4
  <2>8. next[e] = At(s, m + 1)
    BY <1>6 DEF Chain
  <2>9. \A x \in Cell : user[x] = h /\ next[x] = e => x = adr[e]
    BY <1>2 DEF TInv, BackLinks
  <2>10. adr[e] = IF m = 1 THEN h ELSE s[m - 1]
    <3>1. CASE m = 1
      BY <1>2, <1>6, <2>4, <2>9, <3>1 DEF Chain, At, n
    <3>2. CASE m # 1
      <4>1. m - 1 \in 1..n /\ (m - 1) + 1 = m
        BY <2>1, <2>4, <3>2
      <4>2. next[s[m - 1]] = e
        BY <1>6, <2>4, <4>1 DEF Chain, At, n
      <4> QED BY <2>6, <2>9, <3>2, <4>1, <4>2
    <3> QED BY <3>1, <3>2
  <2>11. At(s, m + 1) = At(t, m)
    <3>1. m + 1 \in 1..n <=> m \in 1..(n - 1)
      BY <2>1, <2>4
    <3>2. m \in 1..(n - 1) => t[m] = s[m + 1]
      BY <2>1, <2>3, <2>4
    <3> QED BY <2>3, <3>1, <3>2 DEF At, n
  <2>12. next'[h] = At(t, 1)
    <3>1. CASE m = 1
      BY <1>3, <2>8, <2>10, <2>11, <3>1
    <3>2. CASE m # 1
      <4>1. 1 \in 1..n /\ 1 \in 1..(n - 1) /\ 1 < m
        BY <2>1, <2>4, <3>2
      <4>2. adr[e] # h
        <5>1. m - 1 \in 1..n
          BY <2>1, <2>4, <3>2
        <5> QED BY <2>6, <2>10, <3>2, <5>1
      <4>3. next'[h] = s[1]
        BY <1>3, <1>6, <4>1, <4>2 DEF Chain, At, n
      <4> QED BY <2>3, <4>1, <4>3 DEF At
    <3> QED BY <3>1, <3>2
  <2>13. ASSUME NEW i \in 1..(n - 1) PROVE next'[t[i]] = At(t, i + 1)
    <3>1. i \in 1..n /\ i + 1 \in 1..n /\ i \in Nat /\ m \in Nat /\ n \in Nat
      BY <2>1, <2>4
    <3>2. CASE i = m - 1
      <4>1. t[i] = s[i] /\ i + 1 = m /\ s[i] = adr[e]
        BY <2>3, <2>10, <3>1, <3>2
      <4> QED BY <1>2, <1>3, <2>8, <2>11, <4>1
    <3>3. CASE i < m - 1
      <4>1. t[i] = s[i] /\ i + 1 < m /\ i + 1 \in 1..(n - 1) /\ m - 1 \in 1..n /\ m # 1
        BY <2>3, <2>4, <3>1, <3>3
      <4>2. t[i + 1] = s[i + 1] /\ s[i] # adr[e]
        BY <2>1, <2>3, <2>10, <3>1, <3>3, <4>1
      <4>3. next[s[i]] = s[i + 1]
        BY <1>6, <3>1 DEF Chain, At, n
      <4> QED BY <1>3, <2>3, <2>6, <3>1, <4>1, <4>2, <4>3 DEF At
    <3>4. CASE i >= m
      <4>1. t[i] = s[i + 1] /\ ~(i + 1 < m)
        BY <2>3, <3>1, <3>4
      <4>2. s[i + 1] # adr[e]
        <5>1. m # 1 => m - 1 \in 1..n /\ m - 1 # i + 1
          BY <2>4, <3>1, <3>4
        <5> QED BY <2>1, <2>6, <2>10, <3>1, <5>1
      <4>3. next[s[i + 1]] = At(s, i + 1 + 1)
        BY <1>6, <3>1 DEF Chain, n
      <4>4. At(s, i + 1 + 1) = At(t, i + 1)
        <5>1. i + 1 + 1 \in 1..n <=> i + 1 \in 1..(n - 1)
          BY <3>1
        <5>2. i + 1 \in 1..(n - 1) => t[i + 1] = s[i + 1 + 1]
          BY <2>3, <4>1
        <5> QED BY <2>3, <5>1, <5>2 DEF At, n
      <4> QED BY <1>3, <2>6, <3>1, <4>1, <4>2, <4>3, <4>4
    <3> QED BY <3>1, <3>2, <3>3, <3>4
  <2> QED BY <2>3, <2>5, <2>7, <2>12, <2>13 DEF Chain, t
<1> QED BY <1>5, <1>6

\* Memory that is handed out again is in no chain.
LEMMA ReuseChain ==
  ASSUME TInv, (\E e \in Elem : ReuseElem(e)) \/ (\E h \in Heads : ReuseHead(h))
  PROVE  \A h \in Heads : \A s : Chain(h, s) /\ user'[h] = h => user[h] = h /\ Chain(h, s)'
<1> USE TailQAssumption DEF Cell
<1>1. PICK x \in Cell : /\ user[x] \in {NULL, x}
                        /\ next' = [next EXCEPT ![x] = Garbage]
                        /\ user' = [user EXCEPT ![x] = NULL]
  BY DEF ReuseElem, ReuseHead, TInv, CellTypes
<1> SUFFICES ASSUME NEW h \in Heads, NEW s, Chain(h, s), user'[h] = h
             PROVE  user[h] = h /\ Chain(h, s)'
  OBVIOUS
<1>2. x # h /\ user[h] = h /\ next'[h] = next[h]
  BY <1>1 DEF TInv, CellTypes
<1>3. \A e \in Elem : (user'[e] = h <=> user[e] = h) /\ (user[e] = h => next'[e] = next[e])
  BY <1>1, <1>2 DEF TInv, CellTypes
<1> QED BY <1>2, <1>3, ChainFrame

\* No head is initialised at first.
LEMMA QueueStart == TailQInit => QInv
<1> SUFFICES ASSUME TailQInit PROVE QInv
  OBVIOUS
<1>1. \A h \in Heads : user[h] # h
  BY TailQAssumption DEF TailQInit, Cell
<1> QED BY <1>1, TailQStart DEF QInv, Chained

\* Every use of the macros keeps the chains.
LEMMA QueueStep == QInv /\ [TailQNext]_vars => QInv'
<1> SUFFICES ASSUME QInv, [TailQNext]_vars PROVE Chained'
  BY TailQStep DEF QInv
<1>0. TInv /\ Chained
  BY DEF QInv
<1>1. CASE UNCHANGED vars
  BY <1>0, <1>1 DEF Chained, Chain, vars
<1>2. CASE \E h \in Heads : InitQueue(h)
  <2>1. PICK h \in Heads : InitQueue(h)
    BY <1>2
  <2>2. \A g \in Heads \ {h} : user'[g] = user[g]
    BY <1>0, <2>1 DEF InitQueue, TInv, CellTypes, Cell
  <2> QED BY <1>0, <2>1, <2>2, InitChain DEF Chained
<1>3. CASE \E h \in Heads, e \in Elem : Insert(h, e)
  <2>1. PICK h \in Heads, e \in Elem : Insert(h, e)
    BY <1>3
  <2>2. user[h] = h /\ \A g \in Heads : user'[g] = user[g]
    BY <1>0, <2>1, TailQAssumption DEF Insert, TInv, CellTypes, Cell
  <2> QED BY <1>0, <2>1, <2>2, InsertChain DEF Chained
<1>4. CASE \E h \in Heads, e \in Elem : Unlink(h, e)
  <2>1. PICK h \in Heads, e \in Elem : Unlink(h, e)
    BY <1>4
  <2>2. user[e] = h /\ \A g \in Heads : user'[g] = user[g]
    BY <1>0, <2>1, TailQAssumption DEF Unlink, TInv, CellTypes, Cell
  <2>3. user[h] = h
    BY <1>0, <2>2, TailQAssumption DEF TInv, CellTypes, Cell
  <2>4. PICK s : Chain(h, s)
    BY <1>0, <2>3 DEF Chained
  <2>5. PICK i \in 1..Len(s) : s[i] = e
    BY <2>2, <2>4 DEF Chain
  <2> QED BY <1>0, <2>1, <2>2, <2>4, <2>5, UnlinkChain DEF Chained
<1>5. CASE (\E e \in Elem : ReuseElem(e)) \/ (\E h \in Heads : ReuseHead(h))
  <2>1. \A h \in Heads : user'[h] = h => user[h] = h
    BY <1>0, <1>5, TailQAssumption DEF ReuseElem, ReuseHead, TInv, CellTypes, Cell
  <2> QED BY <1>0, <1>5, <2>1, ReuseChain DEF Chained
<1> QED BY <1>1, <1>2, <1>3, <1>4, <1>5 DEF TailQNext

\* In every queue of every program FOREACH_REVERSE visits what FOREACH visits, in
\* the opposite order: alt_select disables exactly the guards it has enabled.
THEOREM WalksAlwaysAgree == TailQSpec => []WalksAgree
<1>1. QInv => WalksAgree
  <2> SUFFICES ASSUME QInv, NEW h \in Heads, user[h] = h
               PROVE  TAILQ_FOREACH_REVERSE(h) = Reverse(TAILQ_FOREACH(h))
    BY DEF WalksAgree
  <2>1. TInv /\ \E s : Chain(h, s)
    BY DEF QInv, Chained
  <2>2. PICK s : Chain(h, s)
    BY <2>1
  <2> QED BY <2>1, <2>2, ForeachIsChain, ReverseIsChain
<1> QED BY <1>1, QueueStart, QueueStep, PTL DEF TailQSpec

-----------------------------------------------------------------------------
(* Refinement *)

\* The content of a queue is its chain.
Shows(h, s) ==
  /\ user[h] = h /\ Chain(h, s) => Content(h) = s
  /\ user[h] # h => Content(h) = <<>>

\* Of every queue, in this state and in the next one.
LEMMA ContentIsChain ==
  ASSUME NEW h \in Heads, NEW s
  PROVE  Shows(h, s) /\ Shows(h, s)'
<1>1. Shows(h, s)
  BY ForeachIsChain DEF Content, Shows
<1> QED BY <1>1, PTL

\* The elements outside of every queue are the ones Lists has outside.
LEMMA FreeIsUnlinked ==
  ASSUME QInv, NEW e \in Elem, user[e] = NULL
  PROVE  Abstract!Unlinked(e)
<1> SUFFICES ASSUME NEW h \in Heads PROVE e \notin Abstract!ToSet(Content(h))
  BY DEF Abstract!Unlinked
<1>1. CASE user[h] = h
  <2>1. PICK s : Chain(h, s)
    BY <1>1 DEF QInv, Chained
  <2>2. Content(h) = s
    BY <1>1, <2>1, ContentIsChain DEF Shows
  <2>3. h # NULL
    BY TailQAssumption
  <2>4. \A i \in 1..Len(s) : e # s[i]
    BY <2>1, <2>3 DEF Chain
  <2>5. DOMAIN s = 1..Len(s)
    BY <2>1 DEF Chain, Distinct
  <2> QED BY <2>2, <2>4, <2>5 DEF Abstract!ToSet
<1>2. CASE user[h] # h
  <2>1. Content(h) = <<>>
    BY <1>2, ContentIsChain DEF Shows
  <2> QED BY <2>1 DEF Abstract!ToSet
<1> QED BY <1>1, <1>2

\* Every use of the macros is a step of Lists, or changes no sequence.
LEMMA ListsStep ==
  ASSUME QInv, TailQNext
  PROVE  [Abstract!ListsNext]_([h \in Heads |-> Content(h)])
<1> DEFINE c == [h \in Heads |-> Content(h)]
<1>0. TInv /\ Chained
  BY DEF QInv
<1>1. ASSUME \A h \in Heads : Content(h)' = Content(h) PROVE c' = c
  BY <1>1
<1>2. CASE \E h \in Heads : InitQueue(h)
  <2>1. PICK h \in Heads : InitQueue(h)
    BY <1>2
  <2>2. user[h] # h /\ user'[h] = h /\ \A g \in Heads \ {h} : user'[g] = user[g]
    BY <1>0, <2>1, TailQAssumption DEF InitQueue, TInv, CellTypes, Cell
  <2>3. Content(h)' = <<>> /\ Content(h) = <<>>
    BY <1>0, <2>1, <2>2, InitChain, ContentIsChain DEF Shows
  <2>4. ASSUME NEW g \in Heads \ {h} PROVE Content(g)' = Content(g)
    BY <1>0, <2>1, <2>2, InitChain, ContentIsChain DEF Shows, Chained
  <2> QED BY <1>1, <2>3, <2>4
<1>3. CASE \E h \in Heads, e \in Elem : Insert(h, e)
  <2>1. PICK h \in Heads, e \in Elem : Insert(h, e)
    BY <1>3
  <2>2. user[h] = h /\ user[e] = NULL /\ \A g \in Heads : user'[g] = user[g]
    BY <1>0, <2>1, TailQAssumption DEF Insert, TInv, CellTypes, Cell
  <2>3. Content(h)' = Append(Content(h), e)
    <3>1. PICK s : Chain(h, s)
      BY <1>0, <2>2 DEF Chained
    <3>2. Chain(h, Append(s, e))'
      BY <1>0, <2>1, <3>1, InsertChain
    <3> QED BY <2>2, <3>1, <3>2, ContentIsChain DEF Shows
  <2>4. ASSUME NEW g \in Heads \ {h} PROVE Content(g)' = Content(g)
    BY <1>0, <2>1, <2>2, InsertChain, ContentIsChain DEF Shows, Chained
  <2>5. c' = [c EXCEPT ![h] = Append(@, e)]
    BY <2>3, <2>4
  <2>6. Abstract!Unlinked(e)
    BY <2>2, FreeIsUnlinked
  <2>7. Abstract!AppendTo(h, e)
    BY <2>5, <2>6 DEF Abstract!AppendTo
  <2> QED BY <2>7 DEF Abstract!ListsNext
<1>4. CASE \E h \in Heads, e \in Elem : Unlink(h, e)
  <2>1. PICK h \in Heads, e \in Elem : Unlink(h, e)
    BY <1>4
  <2>2. user[e] = h /\ \A g \in Heads : user'[g] = user[g]
    BY <1>0, <2>1, TailQAssumption DEF Unlink, TInv, CellTypes, Cell
  <2>3. user[h] = h
    BY <1>0, <2>2, TailQAssumption DEF TInv, CellTypes, Cell
  <2>4. PICK s : Chain(h, s)
    BY <1>0, <2>3 DEF Chained
  <2>5. PICK i \in 1..Len(s) : s[i] = e
    BY <2>2, <2>4 DEF Chain
  <2>6. Content(h) = s /\ Content(h)' = RemoveAt(s, i)
    <3>1. Chain(h, RemoveAt(s, i))'
      BY <1>0, <2>1, <2>4, <2>5, UnlinkChain
    <3> QED BY <2>2, <2>3, <2>4, <3>1, ContentIsChain DEF Shows
  <2>7. ASSUME NEW g \in Heads \ {h} PROVE Content(g)' = Content(g)
    BY <1>0, <2>1, <2>2, UnlinkChain, ContentIsChain DEF Shows, Chained
  <2>8. c' = [c EXCEPT ![h] = RemoveAt(@, i)]
    BY <2>6, <2>7
  <2>9. i \in DOMAIN c[h] /\ c[h][i] = e
    BY <2>4, <2>5, <2>6 DEF Chain, Distinct
  <2>10. Abstract!TakeOut(h, e)
    BY <2>8, <2>9 DEF Abstract!TakeOut, Abstract!RemoveAt, RemoveAt
  <2> QED BY <2>10 DEF Abstract!ListsNext
<1>5. CASE \E e \in Elem : ReuseElem(e)
  <2>1. \A h \in Heads : user'[h] = user[h]
    BY <1>5 DEF ReuseElem
  <2>2. ASSUME NEW h \in Heads PROVE Content(h)' = Content(h)
    BY <1>0, <1>5, <2>1, ReuseChain, ContentIsChain DEF Shows, Chained
  <2> QED BY <1>1, <2>2
<1>6. CASE \E h \in Heads : ReuseHead(h)
  <2>1. PICK h \in Heads : ReuseHead(h)
    BY <1>6
  <2>2. /\ user[h] = h /\ user'[h] # h /\ \A e \in Elem : user[e] # h
        /\ \A g \in Heads \ {h} : user'[g] = user[g]
    BY <1>0, <2>1, TailQAssumption DEF ReuseHead, TInv, CellTypes, Cell
  <2>3. PICK s : Chain(h, s)
    BY <1>0, <2>2 DEF Chained
  <2>4. s = <<>>
    <3>1. s \in Seq(Elem) /\ 1 \notin 1..Len(s)
      BY <2>2, <2>3 DEF Chain, Distinct
    <3> QED BY <3>1
  <2>5. Content(h)' = Content(h)
    BY <2>2, <2>3, <2>4, ContentIsChain DEF Shows
  <2>6. ASSUME NEW g \in Heads \ {h} PROVE Content(g)' = Content(g)
    BY <1>0, <1>6, <2>2, ReuseChain, ContentIsChain DEF Shows, Chained
  <2> QED BY <1>1, <2>5, <2>6
<1> QED BY <1>2, <1>3, <1>4, <1>5, <1>6 DEF TailQNext

\* The queues are sequences to which INSERT_TAIL appends and out of which REMOVE
\* takes one element, for any number of queues and elements and in any order of
\* uses and reuses: what the models of the other components take a TAILQ for.
THEOREM QueuesAreLists == TailQSpec => ImplementsLists
<1> DEFINE c == [h \in Heads |-> Content(h)]
<1>1. TailQInit => Abstract!ListsInit
  <2> SUFFICES ASSUME TailQInit PROVE \A h \in Heads : Content(h) = <<>>
    BY DEF Abstract!ListsInit
  <2>1. \A h \in Heads : user[h] # h
    BY TailQAssumption DEF TailQInit, Cell
  <2> QED BY <2>1 DEF Content
<1>2. QInv /\ [TailQNext]_vars => [Abstract!ListsNext]_c
  <2>1. ASSUME UNCHANGED vars PROVE c' = c
    BY <2>1 DEF vars, Content, TAILQ_FOREACH, Walk, TAILQ_FIRST, TAILQ_NEXT
  <2> QED BY <2>1, ListsStep
<1> QED
  BY <1>1, <1>2, QueueStart, QueueStep, PTL DEF TailQSpec, ImplementsLists, Abstract!ListsSpec
=============================================================================
