-------------------------------- MODULE Loops --------------------------------
(***************************************************************************)
(* Facts about loops.  The models define the loops of the C code by        *)
(* recursion over a range of numbers: such a definition has the function   *)
(* it defines, and what every round keeps holds at the end.                *)
(***************************************************************************)
EXTENDS Integers, WellFoundedInduction, TLAPS

\* A nonempty set of naturals has a least element.
LEMMA NatMin ==
  ASSUME NEW T \in SUBSET Nat, T # {}
  PROVE  \E x \in T : \A y \in T : x <= y
<1> DEFINE R == OpToRel(<, Nat)
<1>1. IsWellFoundedOn(R, Nat)
  BY NatLessThanWellFounded
<1>2. \A x, y \in Nat : y < x => <<y, x>> \in R
  BY DEF OpToRel
<1> HIDE DEF R
<1>3. PICK x \in T : \A y \in T : ~(<<y, x>> \in R)
  <2>1. T \subseteq Nat OBVIOUS
  <2> QED BY <2>1, <1>1, WFMin
<1>4. ASSUME NEW y \in T PROVE x <= y
  <2>1. x \in Nat /\ y \in Nat OBVIOUS
  <2>2. ~(y < x) BY <2>1, <1>2, <1>3
  <2> QED BY <2>1, <2>2
<1> QED BY <1>4

\* f records the values of a loop: a at first, the value of g[i] after round i.
Records(f, S, a, n, g) ==
  f \in [0..n -> S] /\ f[0] = a /\ \A i \in 1..n : f[i] = g[i][f[i - 1]]

\* A sequence of steps from a leads somewhere: the recursive definitions over
\* 0..n have the function they define.
LEMMA Iterates ==
  ASSUME NEW S, NEW a \in S, NEW n \in Nat, NEW g \in [1..n -> [S -> S]]
  PROVE  \E f : Records(f, S, a, n, g)
<1> DEFINE Has(m) == \E f \in [0..m -> S] : f[0] = a /\ \A i \in 1..m : f[i] = g[i][f[i - 1]]
           Bad == {m \in Nat : m <= n /\ ~Has(m)}
<1>2. Has(0)
  <2> DEFINE f == [i \in 0..0 |-> a]
  <2>1. f \in [0..0 -> S] /\ f[0] = a /\ \A i \in 1..0 : f[i] = g[i][f[i - 1]]
    OBVIOUS
  <2> QED BY <2>1
<1>3. ASSUME NEW m \in Nat, m + 1 <= n, Has(m) PROVE Has(m + 1)
  <2>1. PICK f \in [0..m -> S] : f[0] = a /\ \A i \in 1..m : f[i] = g[i][f[i - 1]]
    BY <1>3
  <2> DEFINE h == [i \in 0..m + 1 |-> IF i = m + 1 THEN g[m + 1][f[m]] ELSE f[i]]
  <2>2. m + 1 \in 1..n /\ m \in 0..m /\ f[m] \in S
    BY <1>3
  <2>3. g[m + 1][f[m]] \in S
    BY <2>2
  <2>4. h \in [0..m + 1 -> S]
    BY <2>3
  <2>5. h[0] = a
    BY <2>1
  <2>6. ASSUME NEW i \in 1..m + 1 PROVE h[i] = g[i][h[i - 1]]
    <3>1. i - 1 \in 0..m /\ i - 1 # m + 1 /\ h[i - 1] = f[i - 1]
      OBVIOUS
    <3>2. CASE i = m + 1
      BY <3>1, <3>2
    <3>3. CASE i # m + 1
      BY <2>1, <3>1, <3>3
    <3> QED BY <3>2, <3>3
  <2> QED BY <2>4, <2>5, <2>6
<1>4. ASSUME Bad # {} PROVE FALSE
  <2>1. PICK m \in Bad : \A k \in Bad : m <= k
    BY <1>4, NatMin
  <2>2. m # 0
    BY <1>2
  <2>3. m - 1 \in Nat /\ m - 1 <= n /\ ~(m <= m - 1) /\ m - 1 + 1 = m /\ m <= n
    BY <2>2
  <2>4. Has(m - 1)
    <3> HIDE DEF Has
    <3> QED BY <2>1, <2>3
  <2>5. Has(m - 1 + 1)
    <3> HIDE DEF Has
    <3> QED BY <1>3, <2>3, <2>4
  <2> HIDE DEF Has
  <2> QED BY <2>3, <2>5
<1>5. Has(n)
  <2> HIDE DEF Has
  <2> QED BY <1>4
<1> QED BY <1>5 DEF Records

\* What every step keeps holds at the end.
LEMMA Constantly ==
  ASSUME NEW n \in Nat, NEW f, NEW x, f[0] = x, \A i \in 1..n : f[i - 1] = x => f[i] = x
  PROVE  f[n] = x
<1> DEFINE Bad == {m \in Nat : m <= n /\ f[m] # x}
<1>1. ASSUME Bad # {} PROVE FALSE
  <2>1. PICK m \in Bad : \A k \in Bad : m <= k
    BY <1>1, NatMin
  <2>2. m # 0 /\ m \in Nat /\ m <= n
    OBVIOUS
  <2>3. m - 1 \in Nat /\ m - 1 <= n /\ ~(m <= m - 1) /\ m \in 1..n
    BY <2>2
  <2>4. f[m - 1] = x
    BY <2>1, <2>3
  <2> QED BY <2>3, <2>4
<1> QED BY <1>1

\* it records rounds of the step g in X.
Rounds(it, X, n, g) == \A i \in 1..n : it[i - 1] \in X => it[i] = g[it[i - 1]]

\* Rounds of one step have a record.
LEMMA Repeats ==
  ASSUME NEW X, NEW a \in X, NEW n \in Nat, NEW g \in [X -> X]
  PROVE  \E f : f \in [0..n -> X] /\ f[0] = a /\ Rounds(f, X, n, g)
<1> DEFINE h == [i \in 1..n |-> g]
<1>1. h \in [1..n -> [X -> X]]
  OBVIOUS
<1>2. PICK f : Records(f, X, a, n, h)
  <2> HIDE DEF h
  <2> QED BY <1>1, Iterates
<1>3. f \in [0..n -> X] /\ f[0] = a /\ \A i \in 1..n : f[i] = g[f[i - 1]]
  BY <1>2 DEF Records
<1> QED BY <1>3 DEF Rounds

\* Every round of g leads to D or raises the number m, which is at most n.
Progress(X, D, n, g, m) ==
  /\ g \in [X -> X] /\ m \in [X -> Nat]
  /\ \A x \in X : /\ m[x] <= n
                  /\ x \in D => g[x] \in D
                  /\ x \notin D => g[x] \in D \/ m[g[x]] > m[x]

\* Such a loop is in D after n rounds.
LEMMA Settles ==
  ASSUME NEW X, NEW D, NEW n \in Nat, NEW it, NEW g, NEW m, Progress(X, D, n, g, m),
         it[0] \in X, m[it[0]] > 0, Rounds(it, X, n, g)
  PROVE  it[n] \in X /\ it[n] \in D
<1> USE DEF Progress, Rounds
<1> DEFINE Ok(i) == it[i] \in X /\ (it[i] \in D \/ m[it[i]] > i)
           Bad == {i \in Nat : i <= n /\ ~Ok(i)}
<1>1. ASSUME Bad # {} PROVE FALSE
  <2>1. PICK i \in Bad : \A k \in Bad : i <= k
    BY <1>1, NatMin
  <2>2. i # 0 /\ i \in Nat /\ i <= n
    OBVIOUS
  <2>3. i - 1 \in Nat /\ i - 1 <= n /\ ~(i <= i - 1) /\ i \in 1..n
    BY <2>2
  <2>4. Ok(i - 1)
    <3> HIDE DEF Ok
    <3> QED BY <2>1, <2>3
  <2>5. it[i] = g[it[i - 1]] /\ it[i] \in X
    BY <2>3, <2>4
  <2>6. it[i] \in D \/ m[it[i]] > i
    <3>1. CASE it[i - 1] \in D
      BY <3>1, <2>4, <2>5
    <3>2. CASE it[i - 1] \notin D
      <4>1. it[i] \in D \/ m[it[i]] > m[it[i - 1]]
        BY <3>2, <2>4, <2>5
      <4>2. m[it[i - 1]] > i - 1 /\ m[it[i - 1]] \in Nat /\ m[it[i]] \in Nat
        BY <3>2, <2>4, <2>5
      <4> QED BY <4>1, <4>2, <2>2
    <3> QED BY <3>1, <3>2
  <2> QED BY <2>5, <2>6
<1>2. Ok(n)
  <2> HIDE DEF Ok
  <2> QED BY <1>1
<1> QED BY <1>2
=============================================================================
