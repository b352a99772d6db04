------------------------------ MODULE CspProofs ------------------------------
(***************************************************************************)
(* What Csp promises for every set of PROCs and every set of builders,     *)
(* nested in any way: the types, that no child outlives its parent, that   *)
(* the counters are right, that PAR and SEQ start exactly what is due and  *)
(* RUN returns exactly when its tree is complete, and that all this meets  *)
(* the preconditions of the scheduler.                                     *)
(***************************************************************************)
EXTENDS Csp, SchedulerProofs

-----------------------------------------------------------------------------
(* Trees *)

\* K maps each member of B to its children, and rank falls from a node to its
\* children: there is no cycle.
Falls(B, K, n, rank) ==
  /\ n \in Nat
  /\ rank \in [B -> 0..n]
  /\ K \in [B -> SUBSET B]
  /\ \A x \in B : \A c \in K[x] : rank[c] < rank[x]

\* f maps each node to the nodes of its tree.
Collects(f, B, K) == f = [x \in B |-> {x} \cup UNION {f[c] : c \in K[x]}]

\* Induction from the leaves to the roots.
LEMMA FromLeaves ==
  ASSUME NEW B, NEW K, NEW n, NEW rank, Falls(B, K, n, rank),
         NEW G \in SUBSET B, \A x \in B : K[x] \subseteq G => x \in G
  PROVE  G = B
<1> DEFINE T == {rank[x] : x \in B \ G}
<1>1. SUFFICES ASSUME B \ G # {} PROVE FALSE
  OBVIOUS
<1>2. \A x \in B : rank[x] \in Nat /\ K[x] \in SUBSET B
  BY DEF Falls
<1>3. T \in SUBSET Nat /\ T # {}
  BY <1>1, <1>2
<1>4. PICK r \in T : \A y \in T : r <= y
  <2> HIDE DEF T
  <2> QED BY <1>3, NatMin
<1>5. PICK x \in B \ G : r = rank[x]
  OBVIOUS
<1>6. ASSUME NEW c \in K[x] PROVE c \in G
  <2>1. c \in B /\ rank[c] < rank[x] /\ rank[c] \in Nat /\ rank[x] \in Nat
    BY <1>2 DEF Falls
  <2> QED BY <1>4, <1>5, <2>1
<1> QED BY <1>5, <1>6

\* Induction from the roots to the leaves.
LEMMA FromRoots ==
  ASSUME NEW B, NEW K, NEW n, NEW rank, Falls(B, K, n, rank),
         NEW G \in SUBSET B,
         \A x \in B : (\A y \in B : x \in K[y] => y \in G) => x \in G
  PROVE  G = B
<1> DEFINE T == {n - rank[x] : x \in B \ G}
<1>1. SUFFICES ASSUME B \ G # {} PROVE FALSE
  OBVIOUS
<1>2. n \in Nat /\ \A x \in B : rank[x] \in Nat /\ n - rank[x] \in Nat
  BY DEF Falls
<1>3. T \in SUBSET Nat /\ T # {}
  BY <1>1, <1>2
<1>4. PICK r \in T : \A y \in T : r <= y
  <2> HIDE DEF T
  <2> QED BY <1>3, NatMin
<1>5. PICK x \in B \ G : r = n - rank[x]
  OBVIOUS
<1>6. ASSUME NEW y \in B, x \in K[y] PROVE y \in G
  <2>1. rank[x] < rank[y] /\ rank[x] \in Nat /\ rank[y] \in Nat
    BY <1>2, <1>6 DEF Falls
  <2>2. n - rank[y] < r
    BY <1>2, <1>5, <2>1
  <2>3. ASSUME y \notin G PROVE FALSE
    <3>1. n - rank[y] \in T
      BY <2>3
    <3>2. r <= n - rank[y]
      BY <1>4, <3>1
    <3> QED BY <1>2, <1>5, <2>1, <2>2, <3>2
  <2> QED BY <2>3
<1> QED BY <1>5, <1>6

\* The tree at x holds x, is closed under children, and everything in it but x
\* is the child of a member.
LEMMA TreeFacts ==
  ASSUME NEW B, NEW K, NEW n, NEW rank, Falls(B, K, n, rank),
         NEW f, Collects(f, B, K)
  PROVE  \A x \in B : /\ x \in f[x] /\ f[x] \subseteq B
                      /\ f[x] = {x} \cup UNION {f[c] : c \in K[x]}
                      /\ \A y \in f[x] : /\ K[y] \subseteq f[x] /\ rank[y] <= rank[x]
                                         /\ y # x => \E z \in f[x] : y \in K[z]
<1> DEFINE Good(x) ==
             /\ f[x] \subseteq B
             /\ \A y \in f[x] : /\ K[y] \subseteq f[x] /\ rank[y] <= rank[x]
                                /\ y # x => \E z \in f[x] : y \in K[z]
           G == {x \in B : Good(x)}
<1>1. \A x \in B : f[x] = {x} \cup UNION {f[c] : c \in K[x]} /\ K[x] \in SUBSET B
                   /\ rank[x] \in Nat
  BY DEF Collects, Falls
<1>2. ASSUME NEW x \in B, \A c \in K[x] : Good(c) PROVE Good(x)
  <2>1. f[x] \subseteq B
    BY <1>1, <1>2
  <2>2. ASSUME NEW y \in f[x]
        PROVE  /\ K[y] \subseteq f[x] /\ rank[y] <= rank[x]
               /\ y # x => \E z \in f[x] : y \in K[z]
    <3>1. CASE y = x
      <4>1. \A c \in K[x] : c \in f[c] /\ c \in f[x]
        BY <1>1
      <4> QED BY <3>1, <4>1, <1>1
    <3>2. CASE y # x
      <4>1. PICK c \in K[x] : y \in f[c]
        BY <1>1, <3>2
      <4>2. c \in B /\ f[c] \subseteq f[x] /\ rank[c] < rank[x] /\ x \in f[x]
        BY <1>1 DEF Falls
      <4>3. K[y] \subseteq f[c] /\ rank[y] <= rank[c]
            /\ (y # c => \E z \in f[c] : y \in K[z]) /\ y \in B
        BY <1>2, <4>1
      <4>4. rank[y] <= rank[x]
        BY <1>1, <4>2, <4>3
      <4>5. \E z \in f[x] : y \in K[z]
        BY <4>1, <4>2, <4>3
      <4> QED BY <4>2, <4>3, <4>4, <4>5
    <3> QED BY <3>1, <3>2
  <2> QED BY <2>1, <2>2
<1> HIDE DEF Good
<1>3. \A x \in B : K[x] \subseteq G => x \in G
  BY <1>2
<1>4. G = B
  <2> HIDE DEF G
  <2>1. G \in SUBSET B
    BY DEF G
  <2> QED BY <1>3, <2>1, FromLeaves
<1>5. \A x \in B : Good(x)
  BY <1>4
<1> QED BY <1>1, <1>5 DEF Good

\* The trees of two children of a node share nothing when every node has one
\* parent at most.
LEMMA TreesApart ==
  ASSUME NEW B, NEW K, NEW n, NEW rank, Falls(B, K, n, rank),
         NEW f, Collects(f, B, K),
         \A x, y \in B : \A c \in K[x] \cap K[y] : x = y,
         NEW r \in B, NEW c \in K[r], NEW d \in K[r], c # d
  PROVE  f[c] \cap f[d] = {}
<1> DEFINE G == {x \in B : x \notin f[c] \cap f[d]}
<1>1. c \in B /\ d \in B /\ rank[c] < rank[r] /\ rank[d] < rank[r]
      /\ rank[c] \in Nat /\ rank[d] \in Nat /\ rank[r] \in Nat
  BY DEF Falls
<1>2. f[c] \subseteq B
  BY <1>1, TreeFacts
<1>3. r \notin f[c] /\ r \notin f[d]
  <2>1. \A y \in f[c] : rank[y] <= rank[c]
    BY <1>1, TreeFacts
  <2>2. \A y \in f[d] : rank[y] <= rank[d]
    BY <1>1, TreeFacts
  <2> QED BY <1>1, <2>1, <2>2
<1>4. ASSUME NEW x \in B, x \in f[c] \cap f[d] PROVE \E y \in f[c] \cap f[d] : x \in K[y]
  <2>1. x # c => \E z \in f[c] : x \in K[z]
    BY <1>1, <1>4, TreeFacts
  <2>2. x # d => \E z \in f[d] : x \in K[z]
    BY <1>1, <1>4, TreeFacts
  <2>3. f[c] \subseteq B /\ f[d] \subseteq B
    BY <1>1, TreeFacts
  <2>4. x # c
    BY <1>1, <1>3, <2>2, <2>3
  <2>5. x # d
    BY <1>1, <1>3, <2>1, <2>3
  <2> QED BY <2>1, <2>2, <2>3, <2>4, <2>5
<1>5. G = B
  <2>1. \A x \in B : (\A y \in B : x \in K[y] => y \in G) => x \in G
    BY <1>2, <1>4
  <2>2. G \in SUBSET B
    OBVIOUS
  <2> HIDE DEF G
  <2> QED BY <2>1, <2>2, FromRoots
<1> QED BY <1>2, <1>5

\* g[x] computes the value at x from those at the children of x.
AsksKids(g, B, K, S) ==
  /\ g \in [B -> [[B -> S] -> S]]
  /\ \A x \in B : \A h1, h2 \in [B -> S] :
       (\A c \in K[x] : h1[c] = h2[c]) => g[x][h1] = g[x][h2]

\* A recursive definition that asks only for the values at the children has the
\* function it defines.
LEMMA TreeRecursion ==
  ASSUME NEW B, NEW K, NEW n, NEW rank, Falls(B, K, n, rank),
         NEW S, NEW a \in S, NEW g, AsksKids(g, B, K, S)
  PROVE  \E f \in [B -> S] : f = [x \in B |-> g[x][f]]
<1>0. /\ g \in [B -> [[B -> S] -> S]]
      /\ \A x \in B : \A h1, h2 \in [B -> S] :
           (\A c \in K[x] : h1[c] = h2[c]) => g[x][h1] = g[x][h2]
  BY DEF AsksKids
<1> DEFINE H == [B -> S]
           a0 == [x \in B |-> a]
           step == [h \in H |-> [x \in B |-> g[x][h]]]
           rounds == [i \in 1..n + 2 |-> step]
<1>1. n \in Nat /\ n + 2 \in Nat
  BY DEF Falls
<1>2. a0 \in H /\ step \in [H -> H]
  BY <1>0
<1>3. rounds \in [1..n + 2 -> [H -> H]]
  <2> HIDE DEF H, step
  <2> QED BY <1>2
<1>4. PICK f : Records(f, H, a0, n + 2, rounds)
  <2> HIDE DEF H, a0, rounds
  <2> QED BY <1>1, <1>2, <1>3, Iterates
<1>5. f \in [0..n + 2 -> H] /\ \A i \in 1..n + 2 : f[i] = step[f[i - 1]]
  BY <1>4 DEF Records
<1>6. \A i \in 0..n + 1 : f[i] \in H /\ f[i + 1] = [x \in B |-> g[x][f[i]]]
  <2>1. ASSUME NEW i \in 0..n + 1 PROVE f[i] \in H /\ f[i + 1] = step[f[i]]
    <3> HIDE DEF H, step
    <3>1. i \in 0..n + 2 /\ i + 1 \in 1..n + 2 /\ i + 1 - 1 = i
      BY <1>1
    <3> QED BY <1>5, <3>1
  <2> QED BY <2>1
<1> DEFINE Same(m) == \A x \in B : rank[x] < m => f[m + 1][x] = f[m][x]
           Bad == {m \in Nat : m <= n + 1 /\ ~Same(m)}
<1>7. \A x \in B : rank[x] \in 0..n
  BY DEF Falls
<1>8. Same(0)
  BY <1>1, <1>7
<1>9. ASSUME NEW m \in Nat, m + 1 <= n + 1, Same(m) PROVE Same(m + 1)
  <2> SUFFICES ASSUME NEW x \in B, rank[x] < m + 1
               PROVE  f[m + 1 + 1][x] = f[m + 1][x]
    OBVIOUS
  <2>1. m \in 0..n + 1 /\ m + 1 \in 0..n + 1
    BY <1>1, <1>9
  <2>2. \A c \in K[x] : f[m + 1][c] = f[m][c]
    <3>1. ASSUME NEW c \in K[x] PROVE c \in B /\ rank[c] < m
      <4>1. c \in B /\ rank[c] < rank[x]
        BY DEF Falls
      <4> QED BY <1>1, <1>7, <4>1
    <3> QED BY <1>9, <3>1
  <2>3. g[x][f[m + 1]] = g[x][f[m]]
    BY <1>0, <1>6, <2>1, <2>2
  <2>4. ASSUME NEW i \in 0..n + 1 PROVE f[i + 1][x] = g[x][f[i]]
    <3>1. f[i + 1] = [z \in B |-> g[z][f[i]]]
      BY <1>6
    <3> QED BY <3>1
  <2>5. f[m + 1 + 1][x] = g[x][f[m + 1]]
    BY <2>1, <2>4
  <2>6. f[m + 1][x] = g[x][f[m]]
    BY <2>1, <2>4
  <2> QED BY <2>3, <2>5, <2>6
<1>10. ASSUME Bad # {} PROVE FALSE
  <2>1. PICK m \in Bad : \A k \in Bad : m <= k
    BY <1>10, NatMin
  <2>2. m # 0
    BY <1>8
  <2>3. m - 1 \in Nat /\ m - 1 <= n + 1 /\ ~(m <= m - 1) /\ m - 1 + 1 = m /\ m <= n + 1
    BY <1>1, <2>2
  <2> HIDE DEF Same
  <2>4. Same(m - 1)
    BY <2>1, <2>3
  <2>5. Same(m - 1 + 1)
    BY <1>9, <2>3, <2>4
  <2> QED BY <2>3, <2>5
<1>11. Same(n + 1)
  <2> HIDE DEF Same
  <2>1. n + 1 \in Nat /\ n + 1 <= n + 1
    BY <1>1
  <2> QED BY <1>10, <2>1
<1>12. f[n + 1] \in [B -> S] /\ f[n + 1 + 1] = [x \in B |-> g[x][f[n + 1]]]
  BY <1>1, <1>6
<1>13. \A x \in B : f[n + 1 + 1][x] = f[n + 1][x]
  BY <1>1, <1>7, <1>11
<1>14. f[n + 1] = [x \in B |-> g[x][f[n + 1]]]
  <2> DEFINE u == f[n + 1]
             v == f[n + 1 + 1]
  <2>1. u \in [B -> S] /\ v = [x \in B |-> g[x][u]] /\ \A x \in B : v[x] = u[x]
    BY <1>12, <1>13
  <2> HIDE DEF u, v
  <2>2. u = [x \in B |-> g[x][u]]
    BY <2>1
  <2> QED BY <2>2 DEF u
<1> QED BY <1>12, <1>14

-----------------------------------------------------------------------------
(* Sequences of sequences *)

\* f[i] is q[1], ..., q[i] one after the other.
Glues(f, q) == f = [i \in 1..Len(q) |-> IF i = 1 THEN q[i] ELSE f[i - 1] \o q[i]]

\* There is such a function.
LEMMA GlueExists ==
  ASSUME NEW S, NEW q \in Seq(Seq(S))
  PROVE  \E f : Glues(f, q)
<1> DEFINE n == Len(q)
           Q == Seq(S)
           e == <<>>
           g == [i \in 1..n |-> [s \in Q |-> s \o q[i]]]
<1>1. n \in Nat /\ e \in Q /\ \A i \in 1..n : q[i] \in Q
  BY LenProperties, ElementOfSeq
<1>2. \A i \in 1..n : \A s \in Q : s \o q[i] \in Q
  BY <1>1, ConcatFacts
<1>3. g \in [1..n -> [Q -> Q]]
  <2> HIDE DEF n, Q
  <2> QED BY <1>2
<1>4. PICK h : Records(h, Q, e, n, g)
  <2> HIDE DEF n, Q, e, g
  <2> QED BY <1>1, <1>3, Iterates
<1>5. h[0] = e /\ \A i \in 1..n : h[i - 1] \in Q /\ h[i] = h[i - 1] \o q[i]
  <2>1. h \in [0..n -> Q] /\ h[0] = e /\ \A i \in 1..n : h[i] = g[i][h[i - 1]]
    BY <1>4 DEF Records
  <2>2. \A i \in 1..n : i - 1 \in 0..n
    BY <1>1
  <2> HIDE DEF n, Q, e
  <2> QED BY <2>1, <2>2
<1> DEFINE f == [i \in 1..n |-> h[i]]
<1>6. ASSUME NEW i \in 1..n PROVE f[i] = IF i = 1 THEN q[i] ELSE f[i - 1] \o q[i]
  <2>1. CASE i = 1
    <3>1. h[i - 1] = e /\ h[i] = h[i - 1] \o q[i] /\ q[i] \in Q
      <4> HIDE DEF n, Q, e
      <4>1. i - 1 = 0
        BY <2>1
      <4> QED BY <1>1, <1>5, <4>1
    <3>2. e \o q[i] = q[i]
      BY <3>1, ConcatEmptySeq
    <3> QED BY <2>1, <3>1, <3>2
  <2>2. CASE i # 1
    <3>1. i - 1 \in 1..n
      BY <1>1, <2>2
    <3> QED BY <1>5, <2>2, <3>1
  <2> QED BY <2>1, <2>2
<1>7. Glues(f, q)
  <2>1. f = [i \in 1..n |-> IF i = 1 THEN q[i] ELSE f[i - 1] \o q[i]]
    <3>1. f = [i \in 1..n |-> f[i]]
      OBVIOUS
    <3> HIDE DEF f, n
    <3> QED BY <1>6, <3>1
  <2> QED BY <2>1 DEF Glues
<1> QED BY <1>7

\* FlattenSeq links the members of q one after the other: csp_runbuild on the
\* children of a PAR.
LEMMA FlattenFacts ==
  ASSUME NEW S, NEW q \in Seq(Seq(S))
  PROVE  /\ FlattenSeq(q) \in Seq(S)
         /\ Range(FlattenSeq(q)) = UNION {Range(q[i]) : i \in 1..Len(q)}
         /\ (/\ \A i \in 1..Len(q) : IsInjective(q[i])
             /\ \A i, j \in 1..Len(q) : i # j => Range(q[i]) \cap Range(q[j]) = {})
              => IsInjective(FlattenSeq(q))
<1> DEFINE n == Len(q)
<1>1. n \in Nat /\ \A i \in 1..n : q[i] \in Seq(S)
  BY LenProperties, ElementOfSeq
<1>2. CASE n = 0
  <2>1. FlattenSeq(q) = q
    BY <1>2 DEF FlattenSeq
  <2>2. q = <<>>
    BY <1>2, EmptySeq
  <2> QED BY <1>2, <2>1, <2>2 DEF Range, IsInjective
<1>3. CASE n # 0
  <2> DEFINE f == CHOOSE f : Glues(f, q)
  <2>1. FlattenSeq(q) = f[n]
    BY <1>3 DEF FlattenSeq, Glues
  <2>2. Glues(f, q)
    BY GlueExists
  <2> HIDE DEF f
  <2>3. \A i \in 1..n : f[i] = IF i = 1 THEN q[i] ELSE f[i - 1] \o q[i]
    BY <2>2 DEF Glues
  <2> DEFINE Apart == /\ \A i \in 1..n : IsInjective(q[i])
                      /\ \A i, j \in 1..n : i # j => Range(q[i]) \cap Range(q[j]) = {}
             First(m) == UNION {Range(q[i]) : i \in 1..m}
             Good(m) == /\ f[m] \in Seq(S)
                        /\ Range(f[m]) = First(m)
                        /\ Apart => IsInjective(f[m])
             Bad == {m \in Nat : m \in 1..n /\ ~Good(m)}
  <2>4. Good(1)
    <3>1. f[1] = q[1] /\ q[1] \in Seq(S) /\ 1 \in 1..n
      BY <1>1, <1>3, <2>3
    <3>2. First(1) = Range(q[1])
      OBVIOUS
    <3> QED BY <3>1, <3>2
  <2>5. ASSUME NEW m \in Nat, m \in 1..n, m + 1 \in 1..n, Good(m) PROVE Good(m + 1)
    <3>1. f[m + 1] = f[m] \o q[m + 1] /\ q[m + 1] \in Seq(S)
      <4>1. m + 1 # 1 /\ m + 1 - 1 = m
        BY <2>5
      <4>2. f[m + 1] = IF m + 1 = 1 THEN q[m + 1] ELSE f[m + 1 - 1] \o q[m + 1]
        <5> HIDE DEF n
        <5> QED BY <2>3, <2>5
      <4> HIDE DEF n
      <4> QED BY <1>1, <2>5, <4>1, <4>2
    <3>2. f[m + 1] \in Seq(S) /\ Range(f[m + 1]) = Range(f[m]) \cup Range(q[m + 1])
      BY <2>5, <3>1, ConcatFacts
    <3>3. First(m + 1) = First(m) \cup Range(q[m + 1])
      <4>1. 1..m + 1 = (1..m) \cup {m + 1}
        BY <2>5
      <4> QED BY <4>1
    <3>4. ASSUME Apart PROVE IsInjective(f[m + 1])
      <4>1. First(m) \cap Range(q[m + 1]) = {}
        <5>1. \A i \in 1..m : i \in 1..n /\ i # m + 1
          BY <1>1, <2>5
        <5>2. \A i \in 1..m : Range(q[i]) \cap Range(q[m + 1]) = {}
          <6> HIDE DEF n
          <6> QED BY <2>5, <3>4, <5>1
        <5> HIDE DEF n
        <5> QED BY <5>2
      <4>2. IsInjective(f[m]) /\ IsInjective(q[m + 1]) /\ Range(f[m]) = First(m)
        <5> HIDE DEF n, First
        <5> QED BY <2>5, <3>4
      <4>3. IsInjective(f[m] \o q[m + 1])
        <5> HIDE DEF n, First
        <5> QED BY <2>5, <3>1, <4>1, <4>2, ConcatFacts
      <4> QED BY <3>1, <4>3
    <3> HIDE DEF Apart, First
    <3> QED BY <2>5, <3>2, <3>3, <3>4
  <2>6. ASSUME Bad # {} PROVE FALSE
    <3> HIDE DEF Good
    <3>1. PICK m \in Bad : \A k \in Bad : m <= k
      BY <2>6, NatMin
    <3>2. m \in Nat /\ m \in 1..n /\ m # 1 /\ ~Good(m)
      BY <2>4
    <3>3. m - 1 \in Nat /\ m - 1 \in 1..n /\ ~(m <= m - 1) /\ m - 1 + 1 = m
      BY <1>1, <3>2
    <3>4. Good(m - 1)
      BY <3>1, <3>3
    <3>5. Good(m - 1 + 1)
      BY <2>5, <3>2, <3>3, <3>4
    <3> QED BY <3>2, <3>3, <3>5
  <2>7. Good(n)
    <3> HIDE DEF Good
    <3> QED BY <1>1, <1>3, <2>6
  <2> QED BY <2>1, <2>7
<1> QED BY <1>2, <1>3

-----------------------------------------------------------------------------
(* The inductive invariant *)

\* The children of every builder, and those csp_runbuild goes on to.
Kids(b) == Range(childQ[b])
AllKids == [b \in Build |-> Kids(b)]
RunKids == [b \in Build |-> Range(RunChilds(b))]

\* csp_parsebuild has been through b for the last time, and the children of b
\* of which this is not so.
Finished(b) == IF b \in Proc THEN b \in ended ELSE num_childs[b] = 0
Todo(b) == {i \in DOMAIN childQ[b] : ~Finished(childQ[b][i])}

\* How far a SEQ has come, and the children of b that have been run if b has.
Pos(b) == IF num_childs[b] = 0 THEN Len(childQ[b]) ELSE Len(childQ[b]) - num_childs[b] + 1
Called(b) ==
  {childQ[b][i] : i \in {j \in DOMAIN childQ[b] : type[b] = "SEQ_BUILD" => j <= Pos(b)}}

\* Parents and children name each other, and freed builders name nobody.
Shape ==
  /\ \A b \in Proc : type[b] \in {"FREE", "PROC_BUILD"} /\ childQ[b] = <<>>
  /\ \A b \in Comp : type[b] # "PROC_BUILD" /\ (type[b] = "FREE" <=> childQ[b] = <<>>)
  /\ \A b \in Build : IsInjective(childQ[b])
  /\ \A b, c \in Build : c \in Kids(b) <=> parent[c] = b
  /\ \A b \in Build : type[b] = "FREE" => parent[b] = NULL /\ ~is_root[b] /\ b \notin ended
  /\ \A b \in Build : is_root[b] => parent[b] = NULL
  /\ \A b \in Build : ~is_root[b] => run_proc[b] = NULL

\* There is no cycle.
Ranked == \E n, rank : Falls(Build, AllKids, n, rank)

\* The counters, with the call of csp_parsebuild in progress.
Counts ==
  \A b \in Comp :
    /\ num_childs[b] = Cardinality(Todo(b)) + (IF parsing = b THEN 1 ELSE 0)
    /\ num_childs[b] <= Len(childQ[b])
    /\ type[b] = "SEQ_BUILD" => curr_build[b] = childQ[b][Pos(b)]

\* What is parsed and what has ended, against the scheduler.
Parses ==
  /\ parsing # NULL => type[parsing] # "FREE" /\ pc \in {"free", "tfree"}
  /\ parsing \in Proc => parsing = freeing /\ parsing \notin ended
  /\ IsInjective(totalQ)
  /\ ended \cap Range(totalQ) = {}
  /\ freeing \notin Range(totalQ)

\* Holds also while scheduler_free frees what is left.
Built == TypeInv /\ CspTypeOK /\ Shape /\ Ranked /\ Counts /\ Parses

\* on is the set of the builders that csp_runbuild has been called on: the
\* roots, and from there down all children of a PAR and the first ones of a SEQ.
Reaches(on) ==
  \A x \in Build : x \in on <=> is_root[x] \/ (parent[x] \in on /\ x \in Called(parent[x]))

\* A SEQ has finished the children before its current one, which is unfinished
\* unless csp_parsebuild comes from there.
InOrder(x) ==
  /\ \A i \in 1..Pos(x) - 1 : Finished(childQ[x][i])
  /\ parsing = x => Finished(curr_build[x])
  /\ num_childs[x] # 0 /\ parsing # x => ~Finished(curr_build[x])

\* What has been run, has started and has finished.
Runs(on) ==
  /\ on \subseteq Build
  /\ Reaches(on)
  /\ \A x \in Build : type[x] # "FREE" /\ Finished(x) => x \in on
  /\ \A x \in Build : is_root[x] => ~Finished(x)
  /\ \A x \in Proc : type[x] # "FREE" => /\ x \in on <=> x \in started \cup ended
                                         /\ x \notin on => x \in Range(totalQ)
  /\ \A x \in Comp : type[x] = "SEQ_BUILD" => InOrder(x)
  /\ parsing # NULL => parsing \in on
  /\ freeing # NULL /\ freeing # parsing /\ type[freeing] # "FREE" => freeing \in ended

\* The PROCs in RUN are those that a root names, each named once.
Joins ==
  /\ \A p \in Range(totalQ) \ {Main} : type[p] # "FREE"
  /\ \A p \in Proc : state[p] = "RUNWAIT" <=> \E b \in Build : run_proc[b] = p
  /\ \A b, c \in Build : run_proc[b] = run_proc[c] /\ run_proc[b] # NULL => b = c

\* A RUN is nested deeper than the PROC that waits in it, so that no circle of
\* PROCs waits for each other in RUN.
Nested(on) ==
  \E level \in [Build -> Nat] :
    \A x \in on : /\ is_root[x] /\ run_proc[x] # NULL => level[run_proc[x]] < level[x]
                  /\ ~is_root[x] => level[x] = level[parent[x]]

\* Holds while scheduler_run is running.
Active == Steady /\ Joins /\ \E on : Runs(on) /\ Nested(on)

\* The inductive invariant.
BuildInv == Built /\ (Live => Active)

-----------------------------------------------------------------------------
(* The trees of a program *)

\* The function that collects trees exists.
LEMMA CollectExists ==
  ASSUME NEW B, NEW K, NEW n, NEW rank, Falls(B, K, n, rank)
  PROVE  \E f : Collects(f, B, K)
<1> DEFINE S == SUBSET B
           F(x, h) == {x} \cup UNION {h[c] : c \in K[x]}
           e == {}
           g == [x \in B |-> [h \in [B -> S] |-> F(x, h)]]
<1>1. \A x \in B : K[x] \in SUBSET B
  BY DEF Falls
<1>2. \A x \in B : \A h \in [B -> S] : F(x, h) \in S
  BY <1>1
<1>3. \A x \in B : \A h1, h2 \in [B -> S] :
        (\A c \in K[x] : h1[c] = h2[c]) => F(x, h1) = F(x, h2)
  BY <1>1
<1>4. e \in S
  OBVIOUS
<1>5. \E f \in [B -> S] : f = [x \in B |-> g[x][f]]
  <2> HIDE DEF F, S, e
  <2>1. g \in [B -> [[B -> S] -> S]]
    BY <1>2
  <2>2. \A x \in B : \A h1, h2 \in [B -> S] :
          (\A c \in K[x] : h1[c] = h2[c]) => g[x][h1] = g[x][h2]
    BY <1>3
  <2> HIDE DEF g
  <2>3. AsksKids(g, B, K, S)
    BY <2>1, <2>2 DEF AsksKids
  <2> QED BY <1>4, <2>3, TreeRecursion
<1>6. PICK f \in [B -> S] : f = [x \in B |-> g[x][f]]
  BY <1>5
<1>7. \A x \in B : g[x][f] = F(x, f)
  <2> HIDE DEF F, S
  <2> QED OBVIOUS
<1>8. f = [x \in B |-> F(x, f)]
  <2> HIDE DEF F, g
  <2> QED BY <1>6, <1>7
<1> QED BY <1>8 DEF Collects

\* PROCs, PAR and SEQ structs and NULL are different.
LEMMA BuildFacts ==
  /\ NULL \notin Build /\ NULL \notin Proc /\ NULL \notin Comp
  /\ \A b \in Build : b \in Comp <=> b \notin Proc
  /\ Proc \subseteq Build /\ Comp \subseteq Build /\ IsFiniteSet(Build)
  /\ Main \in Proc
<1>1. IsFiniteSet(Build)
  BY SchedAssumption, CspAssumption, FS_Union DEF Build
<1> QED BY <1>1, SchedAssumption, CspAssumption DEF Build

\* The lengths and members of the child lists.
LEMMA KidFacts ==
  ASSUME CspTypeOK
  PROVE  \A b \in Build : /\ childQ[b] \in Seq(Build)
                          /\ Len(childQ[b]) \in Nat
                          /\ DOMAIN childQ[b] = 1..Len(childQ[b])
                          /\ \A i \in 1..Len(childQ[b]) : childQ[b][i] \in Build /\ childQ[b][i] \in Kids(b)
                          /\ \A c \in Kids(b) : \E i \in 1..Len(childQ[b]) : c = childQ[b][i]
                          /\ Kids(b) \subseteq Build
                          /\ childQ[b] = <<>> <=> Len(childQ[b]) = 0
<1> SUFFICES ASSUME NEW b \in Build
             PROVE  /\ childQ[b] \in Seq(Build)
                    /\ Len(childQ[b]) \in Nat
                    /\ DOMAIN childQ[b] = 1..Len(childQ[b])
                    /\ \A i \in 1..Len(childQ[b]) : childQ[b][i] \in Build /\ childQ[b][i] \in Kids(b)
                    /\ \A c \in Kids(b) : \E i \in 1..Len(childQ[b]) : c = childQ[b][i]
                    /\ Kids(b) \subseteq Build
                    /\ childQ[b] = <<>> <=> Len(childQ[b]) = 0
  OBVIOUS
<1>1. childQ[b] \in Seq(Build)
  BY DEF CspTypeOK
<1>2. /\ Len(childQ[b]) \in Nat /\ DOMAIN childQ[b] = 1..Len(childQ[b])
      /\ \A i \in 1..Len(childQ[b]) : childQ[b][i] \in Build
  BY <1>1, LenProperties, ElementOfSeq
<1>3. childQ[b] = <<>> <=> Len(childQ[b]) = 0
  BY <1>1, EmptySeq
<1> QED BY <1>1, <1>2, <1>3 DEF Kids, Range

\* csp_cleanupbuild(b) frees b and all that is below it.
LEMMA CleanupFacts ==
  ASSUME CspTypeOK, Shape, Ranked
  PROVE  \A b \in Build :
           LET T == csp_cleanupbuild(b) IN
           /\ b \in T /\ T \subseteq Build
           /\ T = {b} \cup UNION {csp_cleanupbuild(c) : c \in Kids(b)}
           /\ \A y \in T : Kids(y) \subseteq T /\ (y # b => parent[y] \in T)
<1>1. PICK n, rank : Falls(Build, AllKids, n, rank)
  BY DEF Ranked
<1> DEFINE Via(h, x) == {x} \cup UNION {h[childQ[x][i]] : i \in DOMAIN childQ[x]}
           Sub == CHOOSE sub : sub = [x \in Build |-> Via(sub, x)]
<1>2. \A b : csp_cleanupbuild(b) = Sub[b]
  BY DEF csp_cleanupbuild
<1>3. PICK f : Collects(f, Build, AllKids)
  BY <1>1, CollectExists
<1> DEFINE Under(h, x) == {x} \cup UNION {h[c] : c \in AllKids[x]}
<1>4. \A h : \A x \in Build : Via(h, x) = Under(h, x)
  BY DEF AllKids, Kids, Range
<1>5. f = [x \in Build |-> Via(f, x)]
  <2>1. f = [x \in Build |-> Under(f, x)]
    BY <1>3 DEF Collects
  <2> HIDE DEF Via, Under
  <2> QED BY <1>4, <2>1
<1>6. Sub = [x \in Build |-> Via(Sub, x)]
  <2> HIDE DEF Via
  <2> QED BY <1>5
<1> HIDE DEF Sub
<1>7. Collects(Sub, Build, AllKids)
  <2>1. Sub = [x \in Build |-> Under(Sub, x)]
    <3> HIDE DEF Via, Under
    <3> QED BY <1>4, <1>6
  <2> QED BY <2>1 DEF Collects
<1> SUFFICES ASSUME NEW b \in Build
             PROVE  /\ b \in Sub[b] /\ Sub[b] \subseteq Build
                    /\ Sub[b] = {b} \cup UNION {Sub[c] : c \in Kids(b)}
                    /\ \A y \in Sub[b] : Kids(y) \subseteq Sub[b] /\ (y # b => parent[y] \in Sub[b])
  BY <1>2
<1>8. /\ b \in Sub[b] /\ Sub[b] \subseteq Build
      /\ Sub[b] = {b} \cup UNION {Sub[c] : c \in AllKids[b]}
      /\ \A y \in Sub[b] : AllKids[y] \subseteq Sub[b] /\ (y # b => \E z \in Sub[b] : y \in AllKids[z])
  BY <1>1, <1>7, TreeFacts
<1>9. \A y \in Build : AllKids[y] = Kids(y)
  BY DEF AllKids
<1> QED BY <1>8, <1>9 DEF Shape

\* A SEQ's current child is one of its children.
LEMMA CurrentFacts ==
  ASSUME CspTypeOK, Shape, Counts, NEW b \in Comp, type[b] = "SEQ_BUILD"
  PROVE  /\ Pos(b) \in 1..Len(childQ[b])
         /\ curr_build[b] = childQ[b][Pos(b)]
         /\ curr_build[b] \in Kids(b)
<1>1. Len(childQ[b]) \in Nat /\ Len(childQ[b]) # 0 /\ num_childs[b] \in Nat
  BY BuildFacts, KidFacts DEF Shape, CspTypeOK
<1>2. num_childs[b] <= Len(childQ[b]) /\ curr_build[b] = childQ[b][Pos(b)]
  BY DEF Counts
<1>3. Pos(b) \in 1..Len(childQ[b])
  BY <1>1, <1>2 DEF Pos
<1> QED BY <1>2, <1>3, BuildFacts, KidFacts

\* The children csp_runbuild goes on to are children.
LEMMA RunChildFacts ==
  ASSUME CspTypeOK, Shape, Counts, NEW b \in Build
  PROVE  /\ RunChilds(b) \in Seq(Build)
         /\ IsInjective(RunChilds(b))
         /\ Range(RunChilds(b)) \subseteq Kids(b)
         /\ type[b] \in {"PAR_BUILD", "SEQ_BUILD"} => RunChilds(b) # <<>>
<1>1. CASE type[b] = "SEQ_BUILD"
  <2> DEFINE c == curr_build[b]
  <2>1. c \in Kids(b) /\ c \in Build /\ RunChilds(b) = <<c>>
    BY <1>1, BuildFacts, CurrentFacts, KidFacts DEF Shape, RunChilds
  <2> HIDE DEF c
  <2>2. Range(<<c>>) = {c} /\ IsInjective(<<c>>) /\ <<c>> \in Seq(Build)
    BY <2>1, SingletonFacts
  <2> QED BY <2>1, <2>2
<1>2. CASE type[b] # "SEQ_BUILD"
  <2>1. RunChilds(b) = childQ[b] /\ childQ[b] \in Seq(Build) /\ IsInjective(childQ[b])
    BY <1>2, KidFacts DEF Shape, RunChilds
  <2>2. type[b] = "PAR_BUILD" => childQ[b] # <<>>
    BY BuildFacts DEF Shape
  <2> QED BY <1>2, <2>1, <2>2 DEF Kids
<1> QED BY <1>1, <1>2

\* csp_runbuild descends without a cycle, and no builder has two parents.
LEMMA RunKidFacts ==
  ASSUME CspTypeOK, Shape, Counts, NEW n, NEW rank, Falls(Build, AllKids, n, rank)
  PROVE  /\ Falls(Build, RunKids, n, rank)
         /\ \A x \in Build : RunKids[x] = Range(RunChilds(x)) /\ RunKids[x] \subseteq Kids(x)
         /\ \A x, y \in Build : \A c \in RunKids[x] \cap RunKids[y] : x = y
<1>1. \A x \in Build : RunKids[x] = Range(RunChilds(x)) /\ RunKids[x] \subseteq Kids(x)
  BY RunChildFacts DEF RunKids
<1>2. \A x \in Build : AllKids[x] = Kids(x) /\ Kids(x) \subseteq Build
  BY KidFacts DEF AllKids
<1>3. RunKids \in [Build -> SUBSET Build]
  <2>1. \A x \in Build : RunKids[x] \in SUBSET Build
    BY <1>1, <1>2
  <2>2. RunKids = [x \in Build |-> RunKids[x]]
    BY DEF RunKids
  <2> HIDE DEF RunKids
  <2> QED BY <2>1, <2>2
<1>4. Falls(Build, RunKids, n, rank)
  BY <1>1, <1>2, <1>3 DEF Falls
<1>5. \A x, y \in Build : \A c \in RunKids[x] \cap RunKids[y] : x = y
  BY <1>1, <1>2 DEF Shape
<1> QED BY <1>1, <1>4, <1>5

\* One level of csp_runbuild, with h for the levels below.
Parts(x, h) == [i \in DOMAIN RunChilds(x) |-> h[RunChilds(x)[i]]]
RunOf(x, h) == IF type[x] = "PROC_BUILD" THEN <<x>> ELSE FlattenSeq(Parts(x, h))

\* What the children contribute is a sequence of sequences.
LEMMA PartsType ==
  ASSUME CspTypeOK, Shape, Counts, NEW x \in Build, NEW S, NEW h,
         \A c \in RunKids[x] : h[c] \in S
  PROVE  /\ Parts(x, h) \in Seq(S)
         /\ Len(Parts(x, h)) = Len(RunChilds(x))
         /\ \A i \in 1..Len(RunChilds(x)) : Parts(x, h)[i] = h[RunChilds(x)[i]]
<1> DEFINE q == RunChilds(x)
           n == Len(q)
           r == Parts(x, h)
<1>1. q \in Seq(Build)
  BY RunChildFacts
<1>2. n \in Nat /\ DOMAIN q = 1..n
  BY <1>1, LenProperties
<1>3. \A i \in 1..n : h[q[i]] \in S
  BY <1>2 DEF RunKids, Range
<1>4. r = [i \in 1..n |-> h[q[i]]]
  BY <1>2 DEF Parts
<1> HIDE DEF q, n, r
<1>5. r \in [1..n -> S] /\ DOMAIN r = 1..n
  BY <1>3, <1>4
<1>6. r \in Seq(S)
  BY <1>2, <1>5, SeqDef
<1>7. Len(r) = n
  BY <1>2, <1>5, <1>6, LenProperties
<1> QED BY <1>4, <1>6, <1>7 DEF q, n, r

\* The function csp_runbuild computes exists.
LEMMA RunExists ==
  ASSUME CspTypeOK, Shape, Ranked, Counts
  PROVE  \E run :
           \A x \in Build : csp_runbuild(x) = run[x] /\ run[x] = RunOf(x, run) /\ run[x] \in Seq(Proc)
<1>1. PICK n, rank : Falls(Build, AllKids, n, rank)
  BY DEF Ranked
<1>2. Falls(Build, RunKids, n, rank)
  BY <1>1, RunKidFacts
<1> DEFINE S == Seq(Proc)
           e == <<>>
           g == [x \in Build |-> [h \in [Build -> S] |-> RunOf(x, h)]]
<1>3. e \in S
  OBVIOUS
<1>4. ASSUME NEW x \in Build, NEW h, \A c \in RunKids[x] : h[c] \in S PROVE RunOf(x, h) \in S
  <2>1. CASE type[x] = "PROC_BUILD"
    <3>1. x \in Proc
      BY <2>1, BuildFacts DEF Shape
    <3> QED BY <2>1, <3>1, SingletonFacts DEF RunOf
  <2>2. CASE type[x] # "PROC_BUILD"
    <3>1. Parts(x, h) \in Seq(Seq(Proc))
      BY <1>4, PartsType
    <3>2. FlattenSeq(Parts(x, h)) \in Seq(Proc)
      BY <3>1, FlattenFacts
    <3> QED BY <2>2, <3>2 DEF RunOf
  <2> QED BY <2>1, <2>2
<1>5. ASSUME NEW x \in Build, NEW h1, NEW h2, \A c \in RunKids[x] : h1[c] = h2[c]
      PROVE  RunOf(x, h1) = RunOf(x, h2)
  <2>1. \A i \in DOMAIN RunChilds(x) : h1[RunChilds(x)[i]] = h2[RunChilds(x)[i]]
    BY <1>5 DEF RunKids, Range
  <2>2. Parts(x, h1) = Parts(x, h2)
    BY <2>1 DEF Parts
  <2> QED BY <2>2 DEF RunOf
<1> HIDE DEF S
<1>6. AsksKids(g, Build, RunKids, S)
  <2>1. \A x \in Build : \A c \in RunKids[x] : c \in Build
    BY <1>2 DEF Falls
  <2> QED BY <1>4, <1>5, <2>1 DEF AsksKids
<1>7. PICK f \in [Build -> S] : f = [x \in Build |-> g[x][f]]
  <2> HIDE DEF g, e
  <2> QED BY <1>2, <1>3, <1>6, TreeRecursion
<1>8. f = [x \in Build |-> RunOf(x, f)]
  <2>1. \A x \in Build : g[x][f] = RunOf(x, f)
    OBVIOUS
  <2> HIDE DEF g
  <2> QED BY <1>7, <2>1
<1> DEFINE run == CHOOSE r : r = [x \in Build |-> RunOf(x, r)]
<1>9. run = [x \in Build |-> RunOf(x, run)]
  BY <1>8
<1>10. \A x : csp_runbuild(x) = run[x]
  BY DEF csp_runbuild, RunOf, Parts
<1> HIDE DEF run
<1>11. \A x \in Build : run[x] \in S
  <2> DEFINE G == {x \in Build : run[x] \in S}
  <2>1. ASSUME NEW x \in Build, RunKids[x] \subseteq G PROVE x \in G
    <3>1. RunOf(x, run) \in S
      BY <1>4, <2>1
    <3> QED BY <1>9, <3>1
  <2>2. G \in SUBSET Build
    OBVIOUS
  <2>3. G = Build
    <3> HIDE DEF G
    <3> QED BY <1>2, <2>1, <2>2, FromLeaves
  <2> QED BY <2>3
<1>12. \A x \in Build : run[x] = RunOf(x, run)
  BY <1>9
<1> QED BY <1>10, <1>11, <1>12 DEF S

\* R[x] is what csp_runbuild(x) goes through.
Spans(R, x) ==
  /\ x \in R[x] /\ R[x] \subseteq Build
  /\ \A y \in R[x] : /\ Range(RunChilds(y)) \subseteq R[x]
                     /\ y # x => parent[y] \in R[x] /\ y \in Range(RunChilds(parent[y]))

\* s lists the PROCs of X, each once.
Lists(s, X) ==
  /\ s \in Seq(Proc)
  /\ IsInjective(s)
  /\ Range(s) = {y \in X : type[y] = "PROC_BUILD"}

\* csp_runbuild(x) makes each PROC it meets ready once, and meets some.
LEMMA RunFacts ==
  ASSUME CspTypeOK, Shape, Ranked, Counts
  PROVE  \E R : \A x \in Build : /\ Spans(R, x)
                                 /\ Lists(csp_runbuild(x), R[x])
                                 /\ type[x] # "FREE" => csp_runbuild(x) # <<>>
<1>1. PICK n, rank : Falls(Build, AllKids, n, rank)
  BY DEF Ranked
<1>2. /\ Falls(Build, RunKids, n, rank)
      /\ \A x \in Build : RunKids[x] = Range(RunChilds(x)) /\ RunKids[x] \subseteq Kids(x)
      /\ \A x, y \in Build : \A c \in RunKids[x] \cap RunKids[y] : x = y
  BY <1>1, RunKidFacts
<1>3. PICK R : Collects(R, Build, RunKids)
  BY <1>2, CollectExists
<1>4. PICK run : \A x \in Build : csp_runbuild(x) = run[x] /\ run[x] = RunOf(x, run) /\ run[x] \in Seq(Proc)
  BY RunExists
<1>5. \A x \in Build : /\ x \in R[x] /\ R[x] \subseteq Build
                       /\ R[x] = {x} \cup UNION {R[c] : c \in RunKids[x]}
                       /\ \A y \in R[x] : /\ RunKids[y] \subseteq R[x]
                                          /\ y # x => \E z \in R[x] : y \in RunKids[z]
  BY <1>2, <1>3, TreeFacts
<1>6. ASSUME NEW x \in Build PROVE Spans(R, x)
  <2>1. ASSUME NEW y \in R[x], y # x PROVE parent[y] \in R[x] /\ y \in Range(RunChilds(parent[y]))
    <3>1. PICK z \in R[x] : y \in RunKids[z]
      BY <1>5, <2>1
    <3>2. y \in Build /\ z \in Build /\ y \in Kids(z)
      BY <1>2, <1>5, <3>1
    <3>3. parent[y] = z
      BY <3>2 DEF Shape
    <3> QED BY <1>2, <3>1, <3>2, <3>3
  <2>2. \A y \in R[x] : Range(RunChilds(y)) \subseteq R[x]
    BY <1>2, <1>5
  <2> QED BY <1>5, <2>1, <2>2 DEF Spans
<1> DEFINE Good(x) == Lists(run[x], R[x]) /\ (type[x] # "FREE" => run[x] # <<>>)
           G == {x \in Build : Good(x)}
<1>7. ASSUME NEW x \in Build, \A c \in RunKids[x] : Good(c) PROVE Good(x)
  <2>1. CASE type[x] = "PROC_BUILD"
    <3>1. x \in Proc /\ childQ[x] = <<>> /\ run[x] = <<x>>
      BY <1>4, <2>1, BuildFacts DEF Shape, RunOf
    <3>2. Range(<<x>>) = {x} /\ IsInjective(<<x>>) /\ <<x>> \in Seq(Proc)
      BY <3>1, SingletonFacts
    <3>3. RunKids[x] = {}
      BY <1>2, <3>1 DEF Kids, Range
    <3>4. R[x] = {x}
      BY <1>5, <3>3
    <3>5. <<x>> # <<>>
      OBVIOUS
    <3> QED BY <2>1, <3>1, <3>2, <3>4, <3>5 DEF Lists
  <2>2. CASE type[x] # "PROC_BUILD"
    <3> DEFINE q == RunChilds(x)
               p == Parts(x, run)
    <3>1. q \in Seq(Build) /\ IsInjective(q) /\ Len(q) \in Nat /\ DOMAIN q = 1..Len(q)
          /\ \A i \in 1..Len(q) : q[i] \in RunKids[x] /\ q[i] \in Build
      <4>1. q \in Seq(Build) /\ IsInjective(q)
        BY RunChildFacts
      <4>2. Len(q) \in Nat /\ DOMAIN q = 1..Len(q) /\ \A i \in 1..Len(q) : q[i] \in Build
        BY <4>1, LenProperties, ElementOfSeq
      <4>3. \A i \in DOMAIN q : q[i] \in Range(q)
        BY DEF Range
      <4> QED BY <1>2, <4>1, <4>2, <4>3
    <3>2. p \in Seq(Seq(Proc)) /\ Len(p) = Len(q) /\ \A i \in 1..Len(q) : p[i] = run[q[i]]
      <4>1. \A c \in RunKids[x] : run[c] \in Seq(Proc)
        BY <1>7 DEF Lists
      <4> QED BY <4>1, PartsType
    <3>3. run[x] = FlattenSeq(p)
      BY <1>4, <2>2 DEF RunOf
    <3>4. \A i \in 1..Len(q) : Lists(p[i], R[q[i]])
      BY <1>7, <3>1, <3>2
    <3>5. ASSUME NEW i \in 1..Len(q), NEW j \in 1..Len(q), i # j
          PROVE  Range(p[i]) \cap Range(p[j]) = {}
      <4>1. q[i] # q[j]
        BY <3>1, <3>5 DEF IsInjective
      <4>2. R[q[i]] \cap R[q[j]] = {}
        BY <1>2, <1>3, <3>1, <4>1, TreesApart
      <4> QED BY <3>4, <4>2 DEF Lists
    <3> HIDE DEF q, p
    <3>6. Range(run[x]) = UNION {Range(p[i]) : i \in 1..Len(q)} /\ IsInjective(run[x])
      <4>1. \A i \in 1..Len(q) : IsInjective(p[i])
        BY <3>4 DEF Lists
      <4> QED BY <3>2, <3>3, <3>5, <4>1, FlattenFacts
    <3>7. RunKids[x] = {q[i] : i \in 1..Len(q)}
      BY <1>2, <3>1 DEF q, Range
    <3>8. Range(run[x]) = {y \in R[x] : type[y] = "PROC_BUILD"}
      <4>1. R[x] = {x} \cup UNION {R[q[i]] : i \in 1..Len(q)}
        BY <1>5, <3>7
      <4>2. \A i \in 1..Len(q) : Range(p[i]) = {y \in R[q[i]] : type[y] = "PROC_BUILD"}
        BY <3>4 DEF Lists
      <4> QED BY <2>2, <3>6, <4>1, <4>2
    <3>9. ASSUME type[x] # "FREE" PROVE run[x] # <<>>
      <4>1. q # <<>>
        BY <2>2, <3>9, RunChildFacts DEF q, CspTypeOK
      <4>2. 1 \in 1..Len(q)
        BY <3>1, <4>1, EmptySeq
      <4>3. q[1] \in Kids(x) /\ q[1] \in Build
        BY <1>2, <3>1, <4>2
      <4>4. type[q[1]] # "FREE"
        BY <4>3, BuildFacts DEF Shape
      <4>5. p[1] # <<>> /\ p[1] \in Seq(Proc)
        BY <1>7, <3>1, <3>2, <4>2, <4>4 DEF Lists
      <4>6. Range(p[1]) # {}
        <5>1. 1 \in DOMAIN p[1]
          BY <4>5, EmptySeq, LenProperties
        <5> QED BY <5>1 DEF Range
      <4>7. Range(run[x]) # {}
        BY <3>6, <4>2, <4>6
      <4> QED BY <4>7 DEF Range
    <3> QED BY <1>4, <3>6, <3>8, <3>9 DEF Lists
  <2> QED BY <2>1, <2>2
<1>8. G = Build
  <2> HIDE DEF Good
  <2>1. G \in SUBSET Build /\ \A x \in Build : RunKids[x] \subseteq G => x \in G
    BY <1>7
  <2> HIDE DEF G
  <2> QED BY <1>2, <2>1, FromLeaves
<1>9. \A x \in Build : Good(x)
  BY <1>8
<1> QED BY <1>4, <1>6, <1>9

-----------------------------------------------------------------------------
(* What the invariant says of trees *)

\* Children are allocated, and so is their parent.
LEMMA Allocated ==
  ASSUME CspTypeOK, Shape
  PROVE  /\ \A x \in Build : \A c \in Kids(x) : type[x] # "FREE" /\ type[c] # "FREE" /\ c \in Build
         /\ \A c \in Build : parent[c] # NULL =>
              parent[c] \in Comp /\ c \in Kids(parent[c]) /\ type[c] # "FREE" /\ type[parent[c]] # "FREE"
<1>1. ASSUME NEW x \in Build, NEW c \in Kids(x)
      PROVE  type[x] # "FREE" /\ type[c] # "FREE" /\ c \in Build /\ x \in Comp
  <2>1. c \in Build /\ parent[c] = x /\ x # NULL
    BY BuildFacts, KidFacts DEF Shape
  <2>2. type[c] # "FREE"
    BY <2>1 DEF Shape
  <2>3. childQ[x] # <<>>
    BY KidFacts
  <2> QED BY <2>1, <2>2, <2>3, BuildFacts DEF Shape
<1>2. ASSUME NEW c \in Build, parent[c] # NULL
      PROVE  parent[c] \in Build /\ c \in Kids(parent[c])
  BY <1>2 DEF Shape, CspTypeOK
<1> QED BY <1>1, <1>2

\* The number of unfinished children.
LEMMA TodoFacts ==
  ASSUME CspTypeOK, NEW b \in Build
  PROVE  /\ IsFiniteSet(Todo(b)) /\ Cardinality(Todo(b)) \in Nat
         /\ Cardinality(Todo(b)) = 0 <=> Todo(b) = {}
         /\ Todo(b) = {i \in 1..Len(childQ[b]) : ~Finished(childQ[b][i])}
<1>1. Len(childQ[b]) \in Nat /\ DOMAIN childQ[b] = 1..Len(childQ[b])
  BY KidFacts
<1>2. IsFiniteSet(1..Len(childQ[b]))
  BY <1>1, FS_Interval
<1>3. Todo(b) = {i \in 1..Len(childQ[b]) : ~Finished(childQ[b][i])}
  BY <1>1 DEF Todo
<1>4. IsFiniteSet(Todo(b))
  BY <1>2, <1>3, FS_Subset
<1> QED BY <1>3, <1>4, FS_CardinalityType, FS_EmptySet

\* A builder is finished only when all its children are; when no call of
\* csp_parsebuild is in progress, as soon as they are.
LEMMA FinishedKids ==
  ASSUME CspTypeOK, Shape, Counts, NEW x \in Comp, type[x] # "FREE"
  PROVE  /\ Finished(x) => \A c \in Kids(x) : Finished(c)
         /\ parsing # x /\ (\A c \in Kids(x) : Finished(c)) => Finished(x)
<1>1. x \in Build /\ x \notin Proc
  BY BuildFacts
<1>2. num_childs[x] = Cardinality(Todo(x)) + (IF parsing = x THEN 1 ELSE 0)
  BY DEF Counts
<1>3. Cardinality(Todo(x)) \in Nat /\ (Cardinality(Todo(x)) = 0 <=> Todo(x) = {})
      /\ Todo(x) = {i \in 1..Len(childQ[x]) : ~Finished(childQ[x][i])}
  BY <1>1, TodoFacts
<1>4. Todo(x) = {} <=> \A c \in Kids(x) : Finished(c)
  BY <1>1, <1>3, KidFacts
<1>5. Finished(x) <=> num_childs[x] = 0
  BY <1>1 DEF Finished
<1> QED BY <1>2, <1>3, <1>4, <1>5

\* Finished means complete, which is what PAR and SEQ are about.
LEMMA FinishedFacts ==
  ASSUME CspTypeOK, Shape, Ranked, Counts
  PROVE  \A x \in Build : type[x] # "FREE" =>
           /\ Finished(x) => Complete(x)
           /\ parsing = NULL => (Complete(x) <=> Finished(x))
<1>1. PICK n, rank : Falls(Build, AllKids, n, rank)
  BY DEF Ranked
<1> DEFINE Good(x) == type[x] # "FREE" =>
                        /\ Finished(x) => Complete(x)
                        /\ parsing = NULL => (Complete(x) <=> Finished(x))
           G == {x \in Build : Good(x)}
<1>2. ASSUME NEW x \in Build, \A c \in Kids(x) : Good(c) PROVE Good(x)
  <2> SUFFICES ASSUME type[x] # "FREE"
               PROVE  /\ Finished(x) => Complete(x)
                      /\ parsing = NULL => (Complete(x) <=> Finished(x))
    OBVIOUS
  <2>1. csp_cleanupbuild(x) = {x} \cup UNION {csp_cleanupbuild(c) : c \in Kids(x)}
    BY CleanupFacts
  <2>2. CASE x \in Proc
    <3>1. Kids(x) = {}
      BY <2>2 DEF Shape, Kids, Range
    <3>2. Leaves(x) = {x}
      BY <2>1, <2>2, <3>1 DEF Leaves
    <3> QED BY <2>2, <3>2 DEF Finished, Complete
  <2>3. CASE x \notin Proc
    <3>1. x \in Comp /\ x # NULL
      BY <2>3, BuildFacts
    <3>2. Complete(x) <=> \A c \in Kids(x) : Complete(c)
      BY <2>1, <2>3 DEF Complete, Leaves
    <3>3. \A c \in Kids(x) : type[c] # "FREE"
      BY Allocated
    <3>4. /\ Finished(x) => \A c \in Kids(x) : Finished(c)
          /\ parsing # x /\ (\A c \in Kids(x) : Finished(c)) => Finished(x)
      BY <3>1, FinishedKids
    <3> QED BY <1>2, <3>1, <3>2, <3>3, <3>4
  <2> QED BY <2>2, <2>3
<1>3. G = Build
  <2> HIDE DEF Good
  <2>1. \A x \in Build : AllKids[x] = Kids(x) /\ Kids(x) \subseteq Build
    BY KidFacts DEF AllKids
  <2>2. G \in SUBSET Build /\ \A x \in Build : AllKids[x] \subseteq G => x \in G
    BY <1>2, <2>1
  <2> HIDE DEF G
  <2> QED BY <1>1, <2>2, FromLeaves
<1>4. \A x \in Build : Good(x)
  BY <1>3
<1> QED BY <1>4

\* The counters count the children that are not complete.
LEMMA CountsRight ==
  ASSUME BuildInv
  PROVE  CountsChildren
<1> SUFFICES ASSUME Settled, NEW r \in Roots, NEW b \in csp_cleanupbuild(r) \ Proc
             PROVE  num_childs[b] = Cardinality({i \in DOMAIN childQ[b] : ~Complete(childQ[b][i])})
  BY DEF CountsChildren
<1> USE DEF BuildInv, Built
<1>1. r \in Build /\ parsing = NULL
  BY DEF Roots, Settled
<1>2. b \in Build /\ b \in Comp /\ b # NULL
  BY <1>1, CleanupFacts, BuildFacts
<1>3. \A i \in DOMAIN childQ[b] : Complete(childQ[b][i]) <=> Finished(childQ[b][i])
  <2>1. \A i \in DOMAIN childQ[b] : childQ[b][i] \in Build /\ type[childQ[b][i]] # "FREE"
    BY <1>2, KidFacts, Allocated
  <2> QED BY <1>1, <2>1, FinishedFacts
<1>4. Todo(b) = {i \in DOMAIN childQ[b] : ~Complete(childQ[b][i])}
  BY <1>3 DEF Todo
<1>5. num_childs[b] = Cardinality(Todo(b)) + (IF parsing = b THEN 1 ELSE 0)
  BY <1>2 DEF Counts
<1>6. Cardinality(Todo(b)) \in Nat
  BY <1>2, TodoFacts
<1> QED BY <1>1, <1>2, <1>4, <1>5, <1>6

\* The PROCs in RUN are exactly those with an unfinished tree.
LEMMA JoinsRight ==
  ASSUME BuildInv
  PROVE  JoinsItsTree
<1> SUFFICES ASSUME Settled, NEW p \in Proc
             PROVE  /\ Cardinality({b \in Roots : run_proc[b] = p}) = IF state[p] = "RUNWAIT" THEN 1 ELSE 0
                    /\ \A b \in Roots : run_proc[b] = p => ~Complete(b)
  BY DEF JoinsItsTree
<1> USE DEF BuildInv, Built
<1> DEFINE N == {b \in Roots : run_proc[b] = p}
<1>1. Live /\ parsing = NULL /\ Joins /\ p # NULL
  BY BuildFacts DEF Settled, Active
<1>2. PICK on : Runs(on) /\ Nested(on)
  BY <1>1 DEF Active
<1>3. N = {b \in Build : run_proc[b] = p}
  BY <1>1 DEF Roots, Shape
<1>4. \A b \in Roots : ~Complete(b)
  <2>1. \A b \in Roots : b \in Build /\ type[b] # "FREE" /\ ~Finished(b)
    BY <1>2 DEF Roots, Shape, Runs
  <2> QED BY <1>1, <2>1, FinishedFacts
<1>5. CASE state[p] = "RUNWAIT"
  <2>1. PICK b \in Build : run_proc[b] = p
    BY <1>1, <1>5 DEF Joins
  <2>2. N = {b}
    BY <1>1, <1>3, <2>1 DEF Joins
  <2>3. Cardinality(N) = 1
    BY <2>2, FS_Singleton
  <2> QED BY <1>4, <1>5, <2>3
<1>6. CASE state[p] # "RUNWAIT"
  <2>1. N = {}
    BY <1>1, <1>3, <1>6 DEF Joins
  <2>2. Cardinality(N) = 0
    BY <2>1, FS_EmptySet
  <2> QED BY <1>4, <1>6, <2>2
<1> QED BY <1>5, <1>6

\* The children a program may have started, by the meaning of PAR and SEQ.
DueAt(x) == {j \in DOMAIN childQ[x] :
               type[x] = "SEQ_BUILD" => \A k \in 1..j - 1 : Complete(childQ[x][k])}
DueOf(x, h) == IF type[x] = "PROC_BUILD" THEN {x} ELSE UNION {h[childQ[x][i]] : i \in DueAt(x)}

\* The function that defines Due exists.
LEMMA DueExists ==
  ASSUME CspTypeOK, Shape, Ranked
  PROVE  \E d : \A x \in Build : Due(x) = d[x] /\ d[x] = DueOf(x, d)
<1>1. PICK n, rank : Falls(Build, AllKids, n, rank)
  BY DEF Ranked
<1> DEFINE S == SUBSET Build
           e == {}
           g == [x \in Build |-> [h \in [Build -> S] |-> DueOf(x, h)]]
<1>2. e \in S
  OBVIOUS
<1>3. \A x \in Build : \A i \in DueAt(x) : childQ[x][i] \in Build /\ childQ[x][i] \in AllKids[x]
  BY KidFacts DEF DueAt, AllKids
<1>4. ASSUME NEW x \in Build, NEW h \in [Build -> S] PROVE DueOf(x, h) \in S
  BY <1>3 DEF DueOf
<1>5. ASSUME NEW x \in Build, NEW h1 \in [Build -> S], NEW h2 \in [Build -> S],
             \A c \in AllKids[x] : h1[c] = h2[c]
      PROVE  DueOf(x, h1) = DueOf(x, h2)
  <2>1. \A i \in DueAt(x) : h1[childQ[x][i]] = h2[childQ[x][i]]
    BY <1>3, <1>5
  <2>2. {h1[childQ[x][i]] : i \in DueAt(x)} = {h2[childQ[x][i]] : i \in DueAt(x)}
    BY <2>1
  <2> QED BY <2>2 DEF DueOf
<1> HIDE DEF S
<1>6. AsksKids(g, Build, AllKids, S)
  BY <1>4, <1>5 DEF AsksKids
<1>7. PICK f \in [Build -> S] : f = [x \in Build |-> g[x][f]]
  <2> HIDE DEF g, e
  <2> QED BY <1>1, <1>2, <1>6, TreeRecursion
<1>8. f = [x \in Build |-> DueOf(x, f)]
  <2>1. \A x \in Build : g[x][f] = DueOf(x, f)
    OBVIOUS
  <2> HIDE DEF g
  <2> QED BY <1>7, <2>1
<1> DEFINE d == CHOOSE r : r = [x \in Build |-> DueOf(x, r)]
<1>9. d = [x \in Build |-> DueOf(x, d)]
  BY <1>8
<1>10. \A x : Due(x) = d[x]
  BY DEF Due, DueOf, DueAt
<1> HIDE DEF d
<1>11. \A x \in Build : d[x] = DueOf(x, d)
  BY <1>9
<1> QED BY <1>10, <1>11

\* When nothing is being parsed the children that have been called are those
\* that are due.
LEMMA CalledIsDue ==
  ASSUME CspTypeOK, Shape, Ranked, Counts, parsing = NULL, NEW on, Runs(on), NEW x \in Comp
  PROVE  Called(x) = {childQ[x][i] : i \in DueAt(x)}
<1>1. x \in Build /\ x # NULL /\ Len(childQ[x]) \in Nat /\ DOMAIN childQ[x] = 1..Len(childQ[x])
  BY BuildFacts, KidFacts
<1>2. \A i \in 1..Len(childQ[x]) : Complete(childQ[x][i]) <=> Finished(childQ[x][i])
  BY <1>1, KidFacts, Allocated, FinishedFacts
<1>3. CASE type[x] = "SEQ_BUILD"
  <2>1. Pos(x) \in 1..Len(childQ[x]) /\ curr_build[x] = childQ[x][Pos(x)]
    BY <1>3, CurrentFacts
  <2>2. /\ \A i \in 1..Pos(x) - 1 : Finished(childQ[x][i])
        /\ num_childs[x] # 0 => ~Finished(childQ[x][Pos(x)])
    BY <1>1, <1>3, <2>1 DEF Runs, InOrder
  <2>3. num_childs[x] = 0 => Pos(x) = Len(childQ[x])
    BY DEF Pos
  <2>4. ASSUME NEW j \in 1..Len(childQ[x])
        PROVE  j <= Pos(x) <=> \A k \in 1..j - 1 : Complete(childQ[x][k])
    <3>1. CASE j <= Pos(x)
      <4>1. \A k \in 1..j - 1 : k \in 1..Pos(x) - 1 /\ k \in 1..Len(childQ[x])
        BY <1>1, <2>1, <3>1
      <4> QED BY <1>2, <2>2, <3>1, <4>1
    <3>2. CASE ~(j <= Pos(x))
      <4>1. Pos(x) \in 1..j - 1 /\ Pos(x) # Len(childQ[x])
        BY <1>1, <2>1, <3>2
      <4> QED BY <1>2, <2>1, <2>2, <2>3, <3>2, <4>1
    <3> QED BY <3>1, <3>2
  <2> QED BY <1>1, <1>3, <2>4 DEF Called, DueAt
<1>4. CASE type[x] # "SEQ_BUILD"
  BY <1>4 DEF Called, DueAt
<1> QED BY <1>3, <1>4

\* The PROCs that have been started are those that are due.
LEMMA StartsRight ==
  ASSUME BuildInv
  PROVE  StartsWhatIsDue
<1> SUFFICES ASSUME Settled, NEW b \in Roots
             PROVE  Leaves(b) \cap (started \cup ended) = Due(b)
  BY DEF StartsWhatIsDue
<1> USE DEF BuildInv, Built
<1>1. b \in Build /\ is_root[b] /\ parsing = NULL /\ Live
  BY DEF Roots, Settled
<1>2. PICK on : Runs(on) /\ Nested(on)
  BY <1>1 DEF Active
<1>3. PICK n, rank : Falls(Build, AllKids, n, rank)
  BY DEF Ranked
<1>4. PICK d : \A x \in Build : Due(x) = d[x] /\ d[x] = DueOf(x, d)
  BY DueExists
<1> DEFINE T(x) == csp_cleanupbuild(x)
           Good(x) == /\ x \notin on => T(x) \cap on = {}
                      /\ x \in on => d[x] = T(x) \cap Proc \cap on
           G == {x \in Build : Good(x)}
<1>5. on \subseteq Build /\ Reaches(on)
  BY <1>2 DEF Runs
<1>6. ASSUME NEW x \in Build, \A c \in Kids(x) : Good(c) PROVE Good(x)
  <2>1. T(x) = {x} \cup UNION {T(c) : c \in Kids(x)}
    BY CleanupFacts
  <2>2. \A c \in Kids(x) : c \in Build /\ parent[c] = x /\ ~is_root[c] /\ type[c] # "FREE"
                           /\ type[x] # "FREE"
    BY KidFacts, BuildFacts, Allocated DEF Shape
  <2>3. \A c \in Kids(x) : c \in on <=> x \in on /\ c \in Called(x)
    BY <1>5, <2>2 DEF Reaches
  <2> HIDE DEF T
  <2>4. CASE x \notin on
    BY <1>6, <2>1, <2>3, <2>4
  <2>5. CASE x \in on /\ x \in Proc
    <3>1. type[x] = "PROC_BUILD"
      <4>1. type[x] # "FREE"
        BY <1>5, <2>5, BuildFacts DEF Reaches, Shape
      <4> QED BY <2>5, <4>1 DEF Shape
    <3>2. Kids(x) = {}
      BY <2>5 DEF Shape, Kids, Range
    <3>3. d[x] = {x}
      BY <1>4, <3>1 DEF DueOf
    <3> QED BY <2>1, <2>5, <3>2, <3>3
  <2>6. CASE x \in on /\ x \notin Proc
    <3>1. x \in Comp /\ type[x] # "PROC_BUILD"
      BY <2>6, BuildFacts DEF Shape
    <3>2. d[x] = UNION {d[childQ[x][i]] : i \in DueAt(x)}
      BY <1>4, <3>1 DEF DueOf
    <3>3. Called(x) = {childQ[x][i] : i \in DueAt(x)}
      BY <1>1, <1>2, <3>1, CalledIsDue
    <3>4. d[x] = UNION {d[c] : c \in Called(x)}
      BY <3>2, <3>3
    <3>5. Called(x) \subseteq Kids(x)
      BY DEF Called, Kids, Range
    <3>6. T(x) \cap Proc \cap on = UNION {T(c) \cap Proc \cap on : c \in Kids(x)}
      BY <2>1, <2>6
    <3>7. \A c \in Kids(x) : c \in Called(x) => T(c) \cap Proc \cap on = d[c]
      BY <1>6, <2>3, <2>6
    <3>8. \A c \in Kids(x) : c \notin Called(x) => T(c) \cap Proc \cap on = {}
      BY <1>6, <2>3, <2>6
    <3>9. d[x] = T(x) \cap Proc \cap on
      BY <3>4, <3>5, <3>6, <3>7, <3>8
    <3> QED BY <2>6, <3>9
  <2> QED BY <2>4, <2>5, <2>6
<1>7. G = Build
  <2> HIDE DEF Good
  <2>1. \A x \in Build : AllKids[x] = Kids(x) /\ Kids(x) \subseteq Build
    BY KidFacts DEF AllKids
  <2>2. G \in SUBSET Build /\ \A x \in Build : AllKids[x] \subseteq G => x \in G
    BY <1>6, <2>1
  <2> HIDE DEF G
  <2> QED BY <1>3, <2>2, FromLeaves
<1>8. b \in on /\ Due(b) = Leaves(b) \cap on
  <2>1. b \in on
    BY <1>1, <1>5 DEF Reaches
  <2>2. Good(b)
    BY <1>1, <1>7
  <2>3. Due(b) = d[b]
    BY <1>1, <1>4
  <2> QED BY <2>1, <2>2, <2>3 DEF Leaves
<1>9. \A y \in Leaves(b) : y \in Proc /\ type[y] # "FREE"
  <2>1. \A y \in csp_cleanupbuild(b) : y \in Build /\ (y # b => parent[y] \in csp_cleanupbuild(b))
        /\ csp_cleanupbuild(b) \subseteq Build
    BY <1>1, CleanupFacts
  <2> QED BY <1>1, <2>1, BuildFacts DEF Leaves, Shape
<1>10. \A y \in Leaves(b) : y \in on <=> y \in started \cup ended
  BY <1>2, <1>9 DEF Runs
<1> QED BY <1>8, <1>10

\* No child outlives its parent, and no PROC its builder.
LEMMA ParentsRight ==
  ASSUME BuildInv
  PROVE  ParentsAllocated
<1> USE DEF BuildInv, Built
<1>1. ASSUME NEW b \in Build, type[b] # "FREE", parent[b] # NULL PROVE type[parent[b]] # "FREE"
  BY <1>1, Allocated
<1>2. ASSUME NEW b \in Proc \ {Main}, Live, state[b] # "FREE", b # freeing PROVE type[b] # "FREE"
  <2>1. b \in Range(totalQ)
    BY <1>2 DEF Active, Steady, Queues, TotalQSound
  <2> QED BY <1>2, <2>1 DEF Active, Joins
<1> QED BY <1>1, <1>2 DEF ParentsAllocated

-----------------------------------------------------------------------------
(* The steps of the scheduler *)

\* Steps that do not touch the trees leave what is said of them.
LEMMA SameTrees ==
  ASSUME UNCHANGED <<childQ, num_childs, ended>>,
         \A x \in Build : type'[x] = "SEQ_BUILD" <=> type[x] = "SEQ_BUILD"
  PROVE  /\ AllKids' = AllKids
         /\ \A x : /\ Kids(x)' = Kids(x) /\ Finished(x)' = Finished(x)
                   /\ Todo(x)' = Todo(x) /\ Pos(x)' = Pos(x)
         /\ \A x \in Build : Called(x)' = Called(x)
<1>1. \A x : Kids(x)' = Kids(x) /\ Finished(x)' = Finished(x) /\ Pos(x)' = Pos(x)
  BY DEF Kids, Finished, Pos
<1>2. \A x : Todo(x)' = Todo(x)
  BY <1>1 DEF Todo
<1>3. \A x \in Build : Called(x)' = Called(x)
  BY <1>1 DEF Called
<1>4. AllKids' = AllKids
  BY <1>1 DEF AllKids
<1> QED BY <1>1, <1>2, <1>3, <1>4

\* The types of the scheduler hold whatever csp_parsebuild wakes.
LEMMA ReadiesType ==
  ASSUME TypeInv, NEW s \in Seq(Proc), Readies(s)
  PROVE  TypeInv'
<1>1. readyQ \o s \in Seq(Proc) /\ Range(s) \subseteq Proc
  BY ConcatFacts, RangeOfSeq DEF TypeInv, SchedTypeOK
<1> QED BY <1>1 DEF Readies, scheduler_addready, TypeInv, SchedTypeOK, ProcState, Control

\* A step of the scheduler that leaves the builders alone is one of the steps
\* it is proved for, and moves no PROC into or out of RUN.
LEMMA OtherSched ==
  ASSUME BuildInv, CspOtherStep
  PROVE  /\ [AwakeNext]_schedVars
         /\ UNCHANGED <<totalQ, freeing>>
         /\ parsing = NULL
         /\ Live' => /\ Live /\ started' = started
                     /\ \A p \in Proc : state'[p] = "RUNWAIT" <=> state[p] = "RUNWAIT"
<1> USE DEF BuildInv, Built
<1>1. clock \in Nat /\ TypeInv /\ (parsing # NULL => pc \in {"free", "tfree"})
  BY DEF Parses, TypeInv, SchedTypeOK
<1>2. CASE CheckQs({})
  <2>1. CheckQs(SleepKeys \cup {clock})
    BY <1>1, <1>2 DEF CheckQs
  <2>2. \E other \in {{}, {clock}} : CheckQs(SleepKeys \cup other)
    BY <2>1
  <2> QED BY <1>1, <1>2, <2>2 DEF AwakeNext, SchedStep, CheckQs, Live
<1>3. CASE Yield \/ Exit \/ WakeDone \/ Continue \/ LoopExit \/ TeardownEnd \/ Terminated
  <2>1. [AwakeNext]_schedVars
    BY <1>3 DEF AwakeNext, SchedStep
  <2> QED BY <1>1, <1>3, <2>1 DEF Yield, Exit, WakeDone, Continue, LoopExit, TeardownEnd, Terminated,
                             schedVars, Live
<1>4. CASE End
  <2>1. [AwakeNext]_schedVars /\ Live /\ pc = "proc"
    BY <1>4 DEF AwakeNext, End, Live
  <2>2. state[curr_proc] = "RUNNING" /\ curr_proc \in Proc
    BY <2>1 DEF Active, Steady, Where, TypeInv
  <2> QED BY <1>1, <1>4, <2>1, <2>2 DEF End, Live, TypeInv, SchedTypeOK
<1>5. CASE Dispatch
  <2>1. [AwakeNext]_schedVars /\ Live /\ pc = "next"
    BY <1>5 DEF AwakeNext, SchedStep, Dispatch, Live
  <2>2. Head(readyQ) \in Range(readyQ) /\ Head(readyQ) \in Proc
    <3>1. readyQ \in Seq(Proc) /\ readyQ # <<>> /\ IsInjective(readyQ)
      BY <1>5, <2>1 DEF Dispatch, TypeInv, SchedTypeOK, ReadyQSound, Active, Steady, Queues
    <3> QED BY <3>1, HeadTailFacts
  <2>3. state[Head(readyQ)] = "READY"
    BY <2>1, <2>2 DEF Active, Steady, Queues, ReadyQSound
  <2> QED BY <1>1, <1>5, <2>1, <2>2, <2>3 DEF Dispatch, Live, TypeInv, SchedTypeOK
<1>6. CASE SwitchReady
  <2>1. [AwakeNext]_schedVars /\ Live /\ pc = "switch"
    BY <1>6 DEF AwakeNext, SchedStep, SwitchReady, Live
  <2>2. curr_proc \in Proc /\ curr_proc \in started
    BY <2>1 DEF Active, Steady, Where, TypeInv
  <2>3. Range(<<curr_proc>>) = {curr_proc}
    BY <2>2, SingletonFacts
  <2> QED BY <1>1, <1>6, <2>1, <2>2, <2>3 DEF SwitchReady, scheduler_addready, Live, TypeInv, SchedTypeOK
<1>7. CASE SwitchWait
  <2>1. [AwakeNext]_schedVars
    BY <1>7 DEF AwakeNext, SchedStep
  <2> QED BY <1>1, <1>7, <2>1 DEF SwitchWait, Live
<1> QED BY <1>2, <1>3, <1>4, <1>5, <1>6, <1>7 DEF CspOtherStep

\* A step that leaves the builders alone, starts no PROC that has one and moves
\* none into or out of RUN.
LEMMA BuildersAside ==
  ASSUME BuildInv, SInv', UNCHANGED <<cspVars, totalQ, freeing>>,
         parsing # NULL => pc' \in {"free", "tfree"},
         Live' => /\ Live
                  /\ \A p \in Proc : /\ type[p] # "FREE" => (p \in started' <=> p \in started)
                                     /\ state'[p] = "RUNWAIT" <=> state[p] = "RUNWAIT"
  PROVE  BuildInv'
<1> USE DEF BuildInv, Built
<1>1. UNCHANGED <<type, childQ, parent, num_childs, curr_build, is_root, run_proc, parsing, ended>>
  BY DEF cspVars
<1>2. /\ AllKids' = AllKids
      /\ \A x : /\ Kids(x)' = Kids(x) /\ Finished(x)' = Finished(x)
                /\ Todo(x)' = Todo(x) /\ Pos(x)' = Pos(x)
      /\ \A x \in Build : Called(x)' = Called(x)
  BY <1>1, SameTrees
<1>3. CspTypeOK' /\ Shape' /\ Ranked' /\ Counts'
  <2>1. CspTypeOK'
    BY <1>1 DEF CspTypeOK
  <2>2. Shape'
    BY <1>1, <1>2 DEF Shape
  <2>3. Ranked'
    BY <1>2 DEF Ranked
  <2>4. Counts'
    BY <1>1, <1>2 DEF Counts
  <2> QED BY <2>1, <2>2, <2>3, <2>4
<1>4. Parses'
  BY <1>1 DEF Parses
<1>5. ASSUME Live' PROVE Active'
  <2>1. Joins'
    BY <1>1, <1>5 DEF Active, Joins
  <2>2. PICK on : Runs(on) /\ Nested(on)
    BY <1>5 DEF Active
  <2>3. Runs(on)'
    <3>1. Reaches(on)'
      <4> SUFFICES ASSUME NEW x \in Build
                   PROVE  x \in on <=> is_root'[x] \/ (parent'[x] \in on /\ x \in Called(parent[x])')
        BY DEF Reaches
      <4>1. parent[x] \in on => Called(parent[x])' = Called(parent[x])
        BY <1>1, <1>2, <2>2 DEF Runs
      <4> QED BY <1>1, <2>2, <4>1 DEF Runs, Reaches
    <3>2. \A x \in Comp : type'[x] = "SEQ_BUILD" => InOrder(x)'
      BY <1>1, <1>2, <2>2 DEF Runs, InOrder
    <3>3. \A x \in Proc : type'[x] # "FREE" => /\ x \in on <=> x \in started' \cup ended'
                                               /\ x \notin on => x \in Range(totalQ')
      BY <1>1, <1>5, <2>2 DEF Runs
    <3> QED BY <1>1, <1>2, <2>2, <3>1, <3>2, <3>3 DEF Runs
  <2>4. Nested(on)'
    BY <1>1, <2>2 DEF Nested
  <2> QED BY <1>5, <2>1, <2>3, <2>4 DEF SInv, Active
<1> QED BY <1>3, <1>4, <1>5 DEF SInv

\* So do those.
LEMMA OtherKeeps ==
  ASSUME BuildInv, CspOtherStep
  PROVE  BuildInv'
<1>1. /\ [AwakeNext]_schedVars /\ UNCHANGED <<totalQ, freeing>> /\ parsing = NULL
      /\ Live' => /\ Live /\ started' = started
                  /\ \A p \in Proc : state'[p] = "RUNWAIT" <=> state[p] = "RUNWAIT"
  BY OtherSched
<1>2. UNCHANGED cspVars
  BY DEF CspOtherStep
<1>3. SInv'
  BY <1>1, AwakeStep DEF SInv, BuildInv, Built, Active
<1> QED BY <1>1, <1>2, <1>3, BuildersAside

\* proc_free begins: csp_parsebuild is called on a leaf that has not ended.
LEMMA StartFreeStep ==
  ASSUME BuildInv, StartFree
  PROVE  BuildInv'
<1> USE DEF BuildInv, Built
<1> DEFINE p == freeing'
<1>1. UNCHANGED <<type, childQ, parent, num_childs, curr_build, is_root, run_proc, ended>>
      /\ parsing' = IF type[p] = "FREE" THEN NULL ELSE p
  BY DEF StartFree
<1>2. /\ AllKids' = AllKids
      /\ \A x : /\ Kids(x)' = Kids(x) /\ Finished(x)' = Finished(x)
                /\ Todo(x)' = Todo(x) /\ Pos(x)' = Pos(x)
      /\ \A x \in Build : Called(x)' = Called(x)
  BY <1>1, SameTrees
<1>3. /\ p \in Proc /\ p \in Range(totalQ) /\ pc' \in {"free", "tfree"} /\ parsing = NULL
      /\ Range(totalQ') = Range(totalQ) \ {p} /\ IsInjective(totalQ')
      /\ [AwakeNext]_schedVars
      /\ Live' => /\ Live /\ state' = state /\ started' = started /\ p \in started
  <2>1. CASE SwitchEnded
    <3>1. pc = "switch" /\ Live /\ parsing = NULL
      BY <2>1 DEF SwitchEnded, Live, Parses
    <3>2. curr_proc \in Proc /\ curr_proc \in Range(totalQ) /\ curr_proc \in started
      BY <3>1 DEF Active, Steady, Where, TypeInv
    <3>3. Range(totalQ') = Range(totalQ) \ {curr_proc} /\ IsInjective(totalQ')
      BY <2>1, <3>2, RemoveFacts DEF SwitchEnded, Parses, TypeInv, SchedTypeOK
    <3>4. AwakeNext
      BY <2>1 DEF AwakeNext, SchedStep
    <3> QED BY <2>1, <3>1, <3>2, <3>3, <3>4 DEF SwitchEnded
  <2>2. CASE TeardownFree
    <3>1. pc = "teardown" /\ pc' = "tfree" /\ parsing = NULL
      BY <2>2 DEF TeardownFree, Parses
    <3>2. totalQ \in Seq(Proc) /\ totalQ # <<>> /\ IsInjective(totalQ)
      BY <2>2 DEF TeardownFree, Parses, TypeInv, SchedTypeOK
    <3>3. /\ Head(totalQ) \in Proc /\ Head(totalQ) \in Range(totalQ)
          /\ Range(Tail(totalQ)) = Range(totalQ) \ {Head(totalQ)} /\ IsInjective(Tail(totalQ))
      BY <3>2, HeadTailFacts
    <3>4. AwakeNext
      BY <2>2 DEF AwakeNext, SchedStep
    <3> QED BY <2>2, <3>1, <3>3, <3>4 DEF TeardownFree, Live
  <2> QED BY <2>1, <2>2 DEF StartFree
<1> HIDE DEF p
<1>4. p \in Build /\ p \notin Comp /\ p # NULL /\ freeing' = p
  BY <1>3, BuildFacts DEF p
<1>5. SInv'
  BY <1>3, AwakeStep DEF SInv, Active
<1>6. CspTypeOK' /\ Shape' /\ Ranked'
  <2>1. CspTypeOK'
    BY <1>1, <1>4 DEF CspTypeOK
  <2>2. Shape'
    BY <1>1, <1>2 DEF Shape
  <2>3. Ranked'
    BY <1>2 DEF Ranked
  <2> QED BY <2>1, <2>2, <2>3
<1>7. \A b \in Comp : parsing # b /\ parsing' # b
  BY <1>1, <1>3, <1>4, BuildFacts
<1>8. Counts'
  BY <1>1, <1>2, <1>7 DEF Counts
<1>9. Parses'
  BY <1>1, <1>3, <1>4, BuildFacts DEF Parses
<1>10. ASSUME Live' PROVE Active'
  <2>1. Joins'
    BY <1>1, <1>3, <1>10 DEF Active, Joins
  <2>2. PICK on : Runs(on) /\ Nested(on)
    BY <1>3, <1>10 DEF Active
  <2>3. Runs(on)'
    <3>1. Reaches(on)'
      BY <1>1, <1>2, <2>2 DEF Runs, Reaches
    <3>2. \A x \in Comp : type'[x] = "SEQ_BUILD" => InOrder(x)'
      BY <1>1, <1>2, <1>7, <2>2 DEF Runs, InOrder
    <3>3. type[p] # "FREE" => p \in on
      BY <1>3, <1>10, <2>2 DEF Runs
    <3>4. \A x \in Proc : type[x] # "FREE" /\ x \notin on => x \in Range(totalQ')
      BY <1>3, <2>2, <3>3 DEF Runs
    <3> QED BY <1>1, <1>2, <1>3, <1>4, <1>10, <2>2, <3>1, <3>2, <3>3, <3>4 DEF Runs
  <2>4. Nested(on)'
    BY <1>1, <2>2 DEF Nested
  <2> QED BY <1>5, <1>10, <2>1, <2>3, <2>4 DEF SInv, Active
<1> QED BY <1>5, <1>6, <1>8, <1>9, <1>10 DEF SInv

\* proc_free ends: the leaf has been through csp_parsebuild.
LEMMA EndFreeStep ==
  ASSUME BuildInv, EndFree
  PROVE  BuildInv'
<1> USE DEF BuildInv, Built
<1> DEFINE p == freeing
<1>1. UNCHANGED cspVars /\ parsing = NULL
  BY DEF EndFree
<1>2. UNCHANGED <<type, childQ, num_childs, curr_build, ended>>
  BY <1>1 DEF cspVars
<1>3. /\ AllKids' = AllKids
      /\ \A x : /\ Kids(x)' = Kids(x) /\ Finished(x)' = Finished(x)
                /\ Todo(x)' = Todo(x) /\ Pos(x)' = Pos(x)
      /\ \A x \in Build : Called(x)' = Called(x)
  BY <1>2, SameTrees
<1>4. /\ p \in Proc /\ p # NULL /\ freeing' = NULL /\ [AwakeNext]_schedVars
      /\ UNCHANGED totalQ
      /\ started' = started \ {p} /\ state' = [state EXCEPT ![p] = "FREE"]
      /\ Live' => Live /\ state[p] = "ENDED"
  <2>1. FreeDone /\ AwakeNext
    BY DEF EndFree, AwakeNext, SchedStep
  <2>2. p \in Proc /\ p # NULL
    BY <2>1, BuildFacts DEF FreeDone, TypeInv
  <2>3. Live' => Live /\ pc = "free"
    BY <2>1 DEF FreeDone, Live
  <2>4. pc = "free" => state[p] = "ENDED"
    BY DEF Live, Active, Steady, Where
  <2> QED BY <2>1, <2>2, <2>3, <2>4 DEF FreeDone
<1> HIDE DEF p
<1>5. SInv'
  BY <1>4, AwakeStep DEF SInv, Active
<1>6. CspTypeOK' /\ Shape' /\ Ranked' /\ Counts'
  <2>1. CspTypeOK'
    BY <1>1 DEF cspVars, CspTypeOK
  <2>2. Shape'
    BY <1>1, <1>3 DEF cspVars, Shape
  <2>3. Ranked'
    BY <1>3 DEF Ranked
  <2>4. Counts'
    BY <1>1, <1>3 DEF cspVars, Counts
  <2> QED BY <2>1, <2>2, <2>3, <2>4
<1>7. Parses'
  <2>1. NULL \notin Range(totalQ)
    BY QueuesInProc, BuildFacts
  <2> QED BY <1>1, <1>4, <2>1, BuildFacts DEF Parses, cspVars
<1>8. ASSUME Live' PROVE Active'
  <2>1. Joins'
    <3>1. \A q \in Proc : state'[q] = "RUNWAIT" <=> state[q] = "RUNWAIT"
      BY <1>4, <1>8 DEF TypeInv, SchedTypeOK
    <3> QED BY <1>1, <1>4, <1>8, <3>1 DEF Active, Joins, cspVars
  <2>2. PICK on : Runs(on) /\ Nested(on)
    BY <1>4, <1>8 DEF Active
  <2>3. Runs(on)'
    <3>1. Reaches(on)'
      BY <1>1, <1>3, <2>2 DEF Runs, Reaches, cspVars
    <3>2. \A x \in Comp : type'[x] = "SEQ_BUILD" => InOrder(x)'
      BY <1>1, <1>3, <2>2 DEF Runs, InOrder, cspVars
    <3>3. type[p] # "FREE" => p \in ended
      BY <1>1, <1>4, <2>2 DEF Runs, p
    <3>4. \A x \in Proc : type[x] # "FREE" => (x \in on <=> x \in started' \cup ended)
      BY <1>4, <2>2, <3>3 DEF Runs
    <3> QED BY <1>1, <1>3, <1>4, <1>8, <2>2, <3>1, <3>2, <3>4 DEF Runs, cspVars
  <2>4. Nested(on)'
    BY <1>1, <2>2 DEF Nested, cspVars
  <2> QED BY <1>5, <1>8, <2>1, <2>3, <2>4 DEF SInv, Active
<1> QED BY <1>5, <1>6, <1>7, <1>8 DEF SInv

-----------------------------------------------------------------------------
(* Building *)

\* PROC(...) makes a leaf that nobody has run.
LEMMA ProcStep ==
  ASSUME BuildInv, NEW p \in Proc, proxc_proc(p)
  PROVE  BuildInv'
<1> USE DEF BuildInv, Built
<1>1. /\ type[p] = "FREE" /\ Create(p) /\ type' = [type EXCEPT ![p] = "PROC_BUILD"]
      /\ UNCHANGED <<childQ, parent, num_childs, curr_build, is_root, run_proc, parsing, ended>>
  BY DEF proxc_proc
<1>2. /\ pc = "proc" /\ pc' = "proc" /\ state[p] = "FREE" /\ totalQ' = Append(totalQ, p)
      /\ state' = [state EXCEPT ![p] = "READY"]
      /\ UNCHANGED <<freeing, started>> /\ Live /\ AwakeNext
  BY <1>1 DEF Create, Live, AwakeNext, Stay
<1>3. SInv'
  BY <1>2, AwakeStep DEF SInv, Active
<1>4. p \notin Range(totalQ) /\ p \notin started /\ p \notin ended /\ freeing = NULL /\ parsing = NULL
  BY <1>1, <1>2, BuildFacts DEF Active, Steady, Queues, TotalQSound, Fits, Where, Shape, Parses
<1>5. Range(totalQ') = Range(totalQ) \cup {p} /\ IsInjective(totalQ')
  <2>1. totalQ \in Seq(Proc) /\ IsInjective(totalQ)
    BY DEF Parses, TypeInv, SchedTypeOK
  <2>2. totalQ' = totalQ \o <<p>>
    BY <1>2, <2>1, PushFacts
  <2> QED BY <1>4, <2>1, <2>2, PushFacts
<1>6. \A x \in Build : type'[x] = IF x = p THEN "PROC_BUILD" ELSE type[x]
  BY <1>1 DEF CspTypeOK
<1>7. /\ AllKids' = AllKids
      /\ \A x : /\ Kids(x)' = Kids(x) /\ Finished(x)' = Finished(x)
                /\ Todo(x)' = Todo(x) /\ Pos(x)' = Pos(x)
      /\ \A x \in Build : Called(x)' = Called(x)
  BY <1>1, <1>6, SameTrees
<1>8. p \in Build /\ p \notin Comp
  BY BuildFacts
<1>9. CspTypeOK' /\ Shape' /\ Ranked' /\ Counts'
  <2>1. CspTypeOK'
    BY <1>1 DEF CspTypeOK
  <2>2. Shape'
    BY <1>1, <1>6, <1>7, <1>8, BuildFacts DEF Shape
  <2>3. Ranked'
    BY <1>7 DEF Ranked
  <2>4. Counts'
    BY <1>1, <1>6, <1>7, <1>8, BuildFacts DEF Counts
  <2> QED BY <2>1, <2>2, <2>3, <2>4
<1>10. Parses'
  <2>1. NULL \notin Range(totalQ')
    BY <1>5, QueuesInProc, BuildFacts
  <2> QED BY <1>1, <1>2, <1>4, <1>5, <2>1, BuildFacts DEF Parses
<1>11. Joins'
  <2>1. \A q \in Proc : state'[q] = "RUNWAIT" <=> state[q] = "RUNWAIT"
    BY <1>2 DEF TypeInv, SchedTypeOK
  <2>2. \A q \in Range(totalQ') \ {Main} : type'[q] # "FREE"
    BY <1>2, <1>5, <1>6, QueuesInProc, BuildFacts DEF Active, Joins
  <2> QED BY <1>1, <1>2, <2>1, <2>2 DEF Active, Joins
<1>12. PICK on : Runs(on) /\ Nested(on)
  BY <1>2 DEF Active
<1>13. Runs(on)'
  <2>1. Reaches(on)'
    BY <1>1, <1>7, <1>12 DEF Runs, Reaches
  <2>2. \A x \in Comp : type'[x] = "SEQ_BUILD" => InOrder(x)'
    BY <1>1, <1>6, <1>7, <1>8, <1>12, BuildFacts DEF Runs, InOrder
  <2>3. p \notin on
    BY <1>1, <1>8, <1>12, BuildFacts DEF Runs, Reaches, Shape
  <2>4. ~Finished(p)
    BY <1>4 DEF Finished
  <2>5. \A x \in Proc : type'[x] # "FREE" => /\ x \in on <=> x \in started \cup ended
                                             /\ x \notin on => x \in Range(totalQ')
    BY <1>4, <1>5, <1>6, <1>12, <2>3, BuildFacts DEF Runs
  <2>6. \A x \in Build : type'[x] # "FREE" /\ Finished(x) => x \in on
    BY <1>6, <1>12, <2>4 DEF Runs
  <2> QED BY <1>1, <1>2, <1>4, <1>7, <1>12, <2>1, <2>2, <2>5, <2>6 DEF Runs
<1>14. Nested(on)'
  BY <1>1, <1>12 DEF Nested
<1> QED BY <1>2, <1>3, <1>9, <1>10, <1>11, <1>13, <1>14 DEF SInv, Active

\* The arguments of PAR and SEQ are builders the program holds.
LEMMA ArgsType ==
  ASSUME NEW s \in SetToAllKPermutations({x \in Build : Loose(x)})
  PROVE  s \in Seq(Build) /\ \A i \in 1..Len(s) : Loose(s[i])
<1> DEFINE L == {x \in Build : Loose(x)}
<1>1. PICK X \in SUBSET L : s \in SetToSeqs(X)
  BY DEF SetToAllKPermutations
<1>2. s \in [1..Cardinality(X) -> X]
  BY <1>1 DEF SetToSeqs
<1>3. IsFiniteSet(X) /\ Cardinality(X) \in Nat
  BY BuildFacts, FS_Subset, FS_CardinalityType
<1>4. s \in Seq(X)
  BY <1>2, <1>3, SeqDef
<1>5. Len(s) \in Nat /\ DOMAIN s = 1..Len(s) /\ \A i \in 1..Len(s) : s[i] \in X
  BY <1>4, LenProperties, ElementOfSeq
<1>6. s \in Seq(Build)
  <2>1. X \subseteq Build
    OBVIOUS
  <2> QED BY <1>4, <1>5, <2>1
<1> QED BY <1>5, <1>6

\* PAR and SEQ make a tree that nobody has run.
LEMMA CompStep ==
  ASSUME BuildInv, NEW b \in Comp, NEW t \in {"PAR_BUILD", "SEQ_BUILD"},
         NEW s \in SetToAllKPermutations({x \in Build : Loose(x)}) \ {<<>>},
         proxc_comp(b, t, s)
  PROVE  BuildInv'
<1> USE DEF BuildInv, Built
<1> DEFINE n == Len(s)
<1>1. /\ pc = "proc" /\ type[b] = "FREE" /\ IsInjective(s)
      /\ type' = [type EXCEPT ![b] = t]
      /\ childQ' = [childQ EXCEPT ![b] = s]
      /\ num_childs' = [num_childs EXCEPT ![b] = n]
      /\ curr_build' = [curr_build EXCEPT ![b] = IF t = "SEQ_BUILD" THEN Head(s) ELSE NULL]
      /\ parent' = [x \in Build |-> IF x \in Range(s) THEN b ELSE parent[x]]
      /\ UNCHANGED <<schedVars, is_root, run_proc, parsing, ended>>
  BY DEF proxc_comp
<1>2. UNCHANGED <<pc, state, totalQ, freeing, started>> /\ Live /\ Live' /\ parsing = NULL
  BY <1>1 DEF schedVars, Live, Parses
<1>3. SInv'
  <2>1. [AwakeNext]_schedVars
    BY <1>1
  <2> QED BY <2>1, AwakeStep DEF SInv, Active
<1>4. s \in Seq(Build) /\ \A i \in 1..n : Loose(s[i])
  BY ArgsType
<1>5. n \in Nat \ {0} /\ DOMAIN s = 1..n /\ 1 \in 1..n /\ Head(s) = s[1]
      /\ \A i \in 1..n : s[i] \in Build /\ s[i] \in Range(s)
  <2>1. n \in Nat \ {0}
    BY <1>4, EmptySeq
  <2>2. DOMAIN s = 1..n /\ \A i \in 1..n : s[i] \in Build
    BY <1>4, LenProperties, ElementOfSeq
  <2>3. Head(s) = s[1]
    BY <1>4, <2>1, HeadTailProperties
  <2> QED BY <2>1, <2>2, <2>3 DEF Range
<1>6. \A x \in Range(s) : /\ x \in Build /\ type[x] # "FREE" /\ parent[x] = NULL /\ ~is_root[x]
                          /\ x # b /\ \E i \in 1..n : x = s[i]
  BY <1>1, <1>4, <1>5 DEF Loose, Range
<1>7. /\ b \in Build /\ b \notin Proc /\ b # NULL /\ parent[b] = NULL /\ ~is_root[b]
      /\ childQ[b] = <<>> /\ Kids(b) = {}
  <2>1. b \in Build /\ b \notin Proc /\ b # NULL
    BY BuildFacts
  <2>2. childQ[b] = <<>> /\ parent[b] = NULL /\ ~is_root[b]
    BY <1>1, <2>1 DEF Shape
  <2> QED BY <2>1, <2>2 DEF Kids, Range
<1>8. PICK on : Runs(on) /\ Nested(on)
  BY <1>2 DEF Active
<1>9. b \notin on /\ \A x \in Range(s) : x \notin on /\ ~Finished(x)
  BY <1>6, <1>7, <1>8, BuildFacts DEF Runs, Reaches
<1> HIDE DEF n
<1>10. \A x \in Build : /\ type'[x] = IF x = b THEN t ELSE type[x]
                        /\ childQ'[x] = IF x = b THEN s ELSE childQ[x]
                        /\ num_childs'[x] = IF x = b THEN n ELSE num_childs[x]
                        /\ parent'[x] = IF x \in Range(s) THEN b ELSE parent[x]
                        /\ x # b => curr_build'[x] = curr_build[x]
                        /\ x = b /\ t = "SEQ_BUILD" => curr_build'[x] = s[1]
  BY <1>1, <1>5 DEF CspTypeOK
<1>11. \A x \in Build : Kids(x)' = IF x = b THEN Range(s) ELSE Kids(x)
  BY <1>10 DEF Kids
<1>12. \A x \in Build : Finished(x)' <=> x # b /\ Finished(x)
  BY <1>1, <1>5, <1>7, <1>10 DEF Finished
<1>13. \A x \in Build : x # b => Pos(x)' = Pos(x) /\ Todo(x)' = Todo(x) /\ Called(x)' = Called(x)
  <2> SUFFICES ASSUME NEW x \in Build, x # b
               PROVE  Pos(x)' = Pos(x) /\ Todo(x)' = Todo(x) /\ Called(x)' = Called(x)
    OBVIOUS
  <2>1. Pos(x)' = Pos(x)
    BY <1>10 DEF Pos
  <2>2. \A i \in DOMAIN childQ[x] : Finished(childQ[x][i])' <=> Finished(childQ[x][i])
    <3>1. \A i \in DOMAIN childQ[x] : childQ[x][i] \in Build /\ parent[childQ[x][i]] = x
      BY KidFacts DEF Shape
    <3>2. \A i \in DOMAIN childQ[x] : childQ[x][i] # b
      BY <1>7, <3>1, BuildFacts
    <3>3. childQ'[x] = childQ[x]
      BY <1>10
    <3> QED BY <1>12, <3>1, <3>2, <3>3
  <2>3. Todo(x)' = Todo(x)
    BY <1>10, <2>2 DEF Todo
  <2>4. Called(x)' = Called(x)
    BY <1>10, <2>1 DEF Called
  <2> QED BY <2>1, <2>3, <2>4
<1>14. Pos(b)' = 1 /\ Todo(b)' = 1..n /\ childQ'[b] = s
  <2>1. Pos(b)' = 1
    BY <1>5, <1>7, <1>10 DEF Pos, n
  <2>2. \A i \in 1..n : ~Finished(s[i])'
    BY <1>5, <1>9, <1>12
  <2>3. childQ'[b] = s
    BY <1>7, <1>10
  <2> QED BY <1>5, <2>1, <2>2, <2>3 DEF Todo
<1>15. CspTypeOK'
  <2>1. type' \in [Build -> {"FREE", "PROC_BUILD", "PAR_BUILD", "SEQ_BUILD"}]
    BY <1>1 DEF CspTypeOK
  <2>2. childQ' \in [Build -> Seq(Build)]
    BY <1>1, <1>4 DEF CspTypeOK
  <2>3. num_childs' \in [Build -> Nat] /\ parent' \in [Build -> Build \cup {NULL}]
    BY <1>1, <1>5, <1>7 DEF CspTypeOK
  <2>4. curr_build' \in [Build -> Build \cup {NULL}]
    BY <1>1, <1>5 DEF CspTypeOK
  <2> QED BY <1>1, <2>1, <2>2, <2>3, <2>4 DEF CspTypeOK
<1>16. Shape'
  <2>1. \A x, c \in Build : c \in Kids(x)' <=> parent'[c] = x
    <3> SUFFICES ASSUME NEW x \in Build, NEW c \in Build PROVE c \in Kids(x)' <=> parent'[c] = x
      OBVIOUS
    <3>1. c \in Kids(x) <=> parent[c] = x
      BY DEF Shape
    <3>2. c \in Range(s) => parent[c] = NULL /\ x # NULL
      BY <1>6, BuildFacts
    <3>3. x = b => parent[c] # x
      BY <1>7, <3>1
    <3> QED BY <1>10, <1>11, <3>1, <3>2, <3>3
  <2>2. \A x \in Proc : type'[x] \in {"FREE", "PROC_BUILD"} /\ childQ'[x] = <<>>
    BY <1>7, <1>10, BuildFacts DEF Shape
  <2>3. \A x \in Comp : type'[x] # "PROC_BUILD" /\ (type'[x] = "FREE" <=> childQ'[x] = <<>>)
    BY <1>10, BuildFacts DEF Shape
  <2>4. \A x \in Build : IsInjective(childQ'[x])
    BY <1>1, <1>10 DEF Shape
  <2>5. \A x \in Build : type'[x] = "FREE" => parent'[x] = NULL /\ ~is_root'[x] /\ x \notin ended'
    BY <1>1, <1>6, <1>10 DEF Shape
  <2>6. \A x \in Build : is_root'[x] => parent'[x] = NULL
    BY <1>1, <1>6, <1>10 DEF Shape
  <2> QED BY <1>1, <2>1, <2>2, <2>3, <2>4, <2>5, <2>6 DEF Shape
<1>17. Ranked'
  <2>1. PICK m, rank : Falls(Build, AllKids, m, rank)
    BY DEF Ranked
  <2> DEFINE up == [x \in Build |-> IF x = b THEN m + 1 ELSE rank[x]]
  <2>2. m \in Nat /\ m + 1 \in Nat /\ \A x \in Build : rank[x] \in 0..m
    BY <2>1 DEF Falls
  <2>3. up \in [Build -> 0..m + 1]
    BY <2>2
  <2>4. AllKids' \in [Build -> SUBSET Build]
    BY <1>6, <1>11, KidFacts DEF AllKids
  <2>5. ASSUME NEW x \in Build, NEW c \in Kids(x)' PROVE up[c] < up[x]
    <3>1. CASE x = b
      <4>1. c \in Build /\ c # b
        BY <1>6, <1>11, <2>5, <3>1
      <4> QED BY <2>2, <3>1, <4>1
    <3>2. CASE x # b
      <4>1. c \in Kids(x) /\ c \in Build
        BY <1>11, <2>5, <3>2, KidFacts
      <4>2. c # b
        BY <1>7, <4>1, BuildFacts DEF Shape
      <4>3. rank[c] < rank[x]
        BY <2>1, <4>1 DEF Falls, AllKids
      <4> QED BY <3>2, <4>1, <4>2, <4>3
    <3> QED BY <3>1, <3>2
  <2>6. \A x \in Build : AllKids'[x] = Kids(x)'
    BY DEF AllKids
  <2>7. Falls(Build, AllKids', m + 1, up)
    <3> HIDE DEF up
    <3> QED BY <2>2, <2>3, <2>4, <2>5, <2>6 DEF Falls
  <2> QED BY <2>7 DEF Ranked
<1>18. Counts'
  <2> SUFFICES ASSUME NEW x \in Comp
               PROVE  /\ num_childs'[x] = Cardinality(Todo(x)') + (IF parsing' = x THEN 1 ELSE 0)
                      /\ num_childs'[x] <= Len(childQ'[x])
                      /\ type'[x] = "SEQ_BUILD" => curr_build'[x] = childQ'[x][Pos(x)']
    BY DEF Counts
  <2>1. x \in Build /\ x # NULL
    BY BuildFacts
  <2>2. CASE x = b
    <3>1. Cardinality(1..n) = n
      BY <1>5, FS_Interval
    <3> QED BY <1>1, <1>2, <1>5, <1>10, <1>14, <2>1, <2>2, <3>1 DEF n
  <2>3. CASE x # b
    BY <1>1, <1>10, <1>13, <2>1, <2>3 DEF Counts
  <2> QED BY <2>2, <2>3
<1>19. Parses'
  BY <1>1, <1>2, BuildFacts DEF Parses
<1>20. Joins'
  <2>1. \A p \in Range(totalQ) \ {Main} : type'[p] # "FREE"
    BY <1>2, <1>10, QueuesInProc, BuildFacts DEF Active, Joins
  <2> QED BY <1>1, <1>2, <2>1 DEF Active, Joins
<1>21. Runs(on)'
  <2>1. Reaches(on)'
    <3> SUFFICES ASSUME NEW x \in Build
                 PROVE  x \in on <=> is_root'[x] \/ (parent'[x] \in on /\ x \in Called(parent[x])')
      BY DEF Reaches
    <3>1. x \in on <=> is_root[x] \/ (parent[x] \in on /\ x \in Called(parent[x]))
      BY <1>8 DEF Runs, Reaches
    <3>2. CASE x \in Range(s)
      BY <1>1, <1>6, <1>9, <1>10, <3>2
    <3>3. CASE x \notin Range(s)
      <4>1. parent'[x] = parent[x] /\ is_root'[x] = is_root[x]
        BY <1>1, <1>10, <3>3
      <4>2. parent[x] \in on => parent[x] \in Build /\ parent[x] # b
        BY <1>8, <1>9 DEF Runs
      <4>3. parent[x] \in on => Called(parent[x])' = Called(parent[x])
        BY <1>13, <4>1, <4>2
      <4> QED BY <3>1, <4>1, <4>3
    <3> QED BY <3>2, <3>3
  <2>2. ASSUME NEW x \in Comp, type'[x] = "SEQ_BUILD" PROVE InOrder(x)'
    <3>1. x \in Build /\ x # NULL
      BY BuildFacts
    <3>2. CASE x = b
      <4>1. curr_build'[x] = s[1] /\ s[1] \in Range(s) /\ s[1] \in Build
        BY <1>5, <1>10, <2>2, <3>1, <3>2
      <4>2. ~Finished(s[1])'
        BY <1>9, <1>12, <4>1
      <4>3. ~Finished(curr_build[x])'
        BY <4>1, <4>2 DEF Finished
      <4>4. Pos(x)' - 1 = 0 /\ parsing' # x
        BY <1>1, <1>2, <1>14, <3>1, <3>2
      <4> QED BY <4>3, <4>4 DEF InOrder
    <3>3. CASE x # b
      <4>1. /\ InOrder(x) /\ Pos(x)' = Pos(x) /\ childQ'[x] = childQ[x] /\ parsing' = parsing
            /\ curr_build'[x] = curr_build[x] /\ num_childs'[x] = num_childs[x]
            /\ type[x] = "SEQ_BUILD"
        BY <1>1, <1>8, <1>10, <1>13, <2>2, <3>1, <3>3 DEF Runs
      <4>2. Pos(x) \in 1..Len(childQ[x]) /\ Len(childQ[x]) \in Nat /\ curr_build[x] \in Kids(x)
        BY <3>1, <4>1, CurrentFacts, KidFacts
      <4>3. \A c \in Kids(x) : c \in Build /\ c # b
        BY <1>7, <3>1, KidFacts, BuildFacts DEF Shape
      <4>4. \A c \in Kids(x) : Finished(c)' <=> Finished(c)
        BY <1>12, <4>3
      <4>5. \A i \in 1..Pos(x) - 1 : childQ[x][i] \in Kids(x)
        <5>1. \A i \in 1..Pos(x) - 1 : i \in 1..Len(childQ[x])
          BY <4>2
        <5> QED BY <3>1, <5>1, KidFacts
      <4> QED BY <4>1, <4>2, <4>4, <4>5 DEF InOrder
    <3> QED BY <3>2, <3>3
  <2>3. \A x \in Build : type'[x] # "FREE" /\ Finished(x)' => x \in on
    BY <1>8, <1>10, <1>12 DEF Runs
  <2>4. \A x \in Build : is_root'[x] => ~Finished(x)'
    BY <1>1, <1>8, <1>12 DEF Runs
  <2>5. \A x \in Proc : type'[x] = type[x]
    BY <1>7, <1>10, BuildFacts
  <2>6. freeing' = NULL
    BY <1>1, <1>2 DEF Active, Steady, Where
  <2> QED BY <1>1, <1>2, <1>8, <2>1, <2>2, <2>3, <2>4, <2>5, <2>6 DEF Runs
<1>22. Nested(on)'
  <2>1. \A x \in on : x \in Build /\ parent'[x] = parent[x]
    BY <1>1, <1>8, <1>9 DEF Runs
  <2> QED BY <1>1, <1>8, <2>1 DEF Nested
<1> QED BY <1>2, <1>3, <1>15, <1>16, <1>17, <1>18, <1>19, <1>20, <1>21, <1>22 DEF SInv, Active

-----------------------------------------------------------------------------
(* Running *)

\* A list of different PROCs is no longer than there are PROCs.
LEMMA ListIsBatch ==
  ASSUME NEW s \in Seq(Proc), s # <<>>, IsInjective(s)
  PROVE  s \in Batches
<1> DEFINE n == Len(s)
           k == Cardinality(Proc)
<1>1. n \in Nat \ {0} /\ DOMAIN s = 1..n /\ s \in [1..n -> Proc]
  BY EmptySeq, LenProperties
<1>2. IsFiniteSet(Proc) /\ k \in Nat
  BY SchedAssumption, FS_CardinalityType
<1>3. s \in Injection(1..n, Proc)
  BY <1>1 DEF Injection, IsInjective
<1>4. Cardinality(1..n) <= k
  BY <1>2, <1>3, FS_Injection
<1>5. Cardinality(1..n) = n
  BY <1>1, FS_Interval
<1> HIDE DEF n, k
<1>6. n \in 1..k
  BY <1>1, <1>2, <1>4, <1>5
<1> QED BY <1>1, <1>6 DEF Batches, k

\* What has not been run has finished nothing, and csp_runbuild goes on to the
\* children that Called names.
LEMMA FreshCalled ==
  ASSUME CspTypeOK, Shape, Counts, NEW on, Runs(on), NEW y \in Build, y \notin on
  PROVE  Called(y) = Range(RunChilds(y))
<1>1. CASE type[y] # "SEQ_BUILD"
  BY <1>1 DEF Called, RunChilds, Range
<1>2. CASE type[y] = "SEQ_BUILD"
  <2> DEFINE n == Len(childQ[y])
  <2>1. y \in Comp /\ y \notin Proc
    BY <1>2, BuildFacts DEF Shape
  <2>2. n \in Nat \ {0} /\ DOMAIN childQ[y] = 1..n
    BY <1>2, <2>1, KidFacts DEF Shape
  <2>3. \A c \in Kids(y) : c \in Build /\ parent[c] = y /\ type[c] # "FREE" /\ ~is_root[c]
    BY KidFacts, Allocated, BuildFacts DEF Shape
  <2>4. \A c \in Kids(y) : c \notin on /\ ~Finished(c)
    BY <2>3 DEF Runs, Reaches
  <2>5. Todo(y) = 1..n
    <3>1. \A i \in 1..n : ~Finished(childQ[y][i])
      BY <2>4, KidFacts
    <3> QED BY <2>2, <3>1 DEF Todo
  <2>6. Cardinality(Todo(y)) = n
    BY <2>2, <2>5, FS_Interval
  <2>7. parsing # y
    BY BuildFacts DEF Runs
  <2>8. num_childs[y] = n
    BY <2>1, <2>2, <2>6, <2>7 DEF Counts
  <2>9. Pos(y) = 1
    BY <2>2, <2>8 DEF Pos
  <2>10. curr_build[y] = childQ[y][1]
    BY <1>2, <2>1, <2>9 DEF Counts
  <2>11. {j \in DOMAIN childQ[y] : type[y] = "SEQ_BUILD" => j <= Pos(y)} = {1}
    BY <1>2, <2>2, <2>9
  <2>12. Called(y) = {curr_build[y]}
    BY <2>10, <2>11 DEF Called
  <2>13. Range(<<curr_build[y]>>) = {curr_build[y]}
    <3> DEFINE c == curr_build[y]
    <3>1. c \in Build
      BY <1>2, <2>1, <2>3, CurrentFacts
    <3> HIDE DEF c
    <3>2. Range(<<c>>) = {c}
      BY <3>1, SingletonFacts
    <3> QED BY <3>2 DEF c
  <2> QED BY <1>2, <2>12, <2>13 DEF RunChilds
<1> QED BY <1>1, <1>2

\* X is what csp_runbuild(b) goes through, s the PROCs it makes ready: none of
\* them has been run, and all of them are parked.
Launches(b, X, s, on) ==
  /\ b \in X /\ X \subseteq Build /\ X \cap on = {}
  /\ \A y \in X : /\ type[y] # "FREE"
                  /\ y # b => parent[y] \in X /\ y \in Called(parent[y])
                  /\ Called(y) \subseteq X
  /\ s \in Batches /\ s \in Seq(Proc) /\ IsInjective(s)
  /\ Range(s) = X \cap Proc
  /\ Range(s) \subseteq Parked
  /\ \A p \in Range(s) : p \notin started /\ p \in Range(totalQ)

\* csp_runbuild on a tree that has not been run launches it.
LEMMA LaunchFacts ==
  ASSUME BuildInv, NEW on, Runs(on), NEW b \in Build, type[b] # "FREE", b \notin on
  PROVE  \E X : Launches(b, X, csp_runbuild(b), on)
<1> USE DEF BuildInv, Built
<1>1. PICK R : \A x \in Build : /\ Spans(R, x)
                                /\ Lists(csp_runbuild(x), R[x])
                                /\ type[x] # "FREE" => csp_runbuild(x) # <<>>
  BY RunFacts
<1>2. PICK n, rank : Falls(Build, AllKids, n, rank)
  BY DEF Ranked
<1> DEFINE X == R[b]
           s == csp_runbuild(b)
<1>3. /\ b \in X /\ X \subseteq Build
      /\ \A y \in X : /\ Range(RunChilds(y)) \subseteq X
                      /\ y # b => parent[y] \in X /\ y \in Range(RunChilds(parent[y]))
      /\ s \in Seq(Proc) /\ IsInjective(s) /\ s # <<>>
      /\ Range(s) = {y \in X : type[y] = "PROC_BUILD"}
  BY <1>1 DEF Spans, Lists
<1> HIDE DEF X, s
<1>4. \A x, y \in Build : x \in AllKids[y] <=> parent[x] = y
  BY DEF Shape, AllKids
<1> DEFINE G == {y \in Build : y \in X => y \notin on}
<1>5. ASSUME NEW x \in Build, \A y \in Build : x \in AllKids[y] => y \in G
      PROVE  x \in G
  <2> SUFFICES ASSUME x \in X, x # b PROVE x \notin on
    OBVIOUS
  <2>1. parent[x] \in X /\ parent[x] \in Build
    BY <1>3
  <2>2. parent[x] \notin on
    BY <1>4, <1>5, <2>1
  <2>3. ~is_root[x]
    BY <2>1, BuildFacts DEF Shape
  <2> QED BY <2>2, <2>3 DEF Runs, Reaches
<1>6. X \cap on = {}
  <2>1. G \in SUBSET Build
    OBVIOUS
  <2>2. G = Build
    <3> HIDE DEF G
    <3> QED BY <1>2, <1>5, <2>1, FromRoots
  <2> QED BY <1>3, <2>2
<1>7. ASSUME NEW y \in X PROVE /\ type[y] # "FREE"
                               /\ y # b => parent[y] \in X /\ y \in Called(parent[y])
                               /\ Called(y) \subseteq X
  <2>1. y \in Build /\ y \notin on
    BY <1>3, <1>6
  <2>2. Called(y) \subseteq X
    BY <1>3, <2>1, FreshCalled
  <2>3. CASE y = b
    BY <2>2, <2>3
  <2>4. CASE y # b
    <3>1. parent[y] \in X /\ parent[y] \in Build /\ parent[y] \notin on /\ parent[y] # NULL
      BY <1>3, <1>6, <2>4, BuildFacts
    <3>2. y \in Called(parent[y])
      BY <1>3, <2>4, <3>1, FreshCalled
    <3>3. type[y] # "FREE"
      BY <2>1, <3>1 DEF Shape
    <3> QED BY <2>2, <3>1, <3>2, <3>3
  <2> QED BY <2>3, <2>4
<1>8. Range(s) = X \cap Proc
  BY <1>3, <1>7, BuildFacts DEF Shape
<1>9. s \in Batches
  BY <1>3, ListIsBatch
<1>10. ASSUME NEW p \in Range(s) PROVE p \in Parked /\ p \notin started /\ p \in Range(totalQ)
  <2>1. p \in Proc /\ type[p] # "FREE" /\ p \notin on
    BY <1>6, <1>7, <1>8
  <2>2. p \notin started /\ p \in Range(totalQ)
    BY <2>1 DEF Runs
  <2> QED BY <2>2 DEF Parked, Parses
<1>11. Launches(b, X, s, on)
  BY <1>3, <1>6, <1>7, <1>8, <1>9, <1>10 DEF Launches
<1> QED BY <1>11 DEF s

\* GO and RUN start what a PAR or SEQ starts with.
LEMMA LaunchStep ==
  ASSUME BuildInv, NEW b \in Build, proxc_go(b) \/ proxc_run(b)
  PROVE  [AwakeNext]_schedVars /\ BuildInv'
<1> USE DEF BuildInv, Built
<1> DEFINE s == csp_runbuild(b)
<1>1. /\ pc = "proc" /\ Loose(b) /\ is_root' = [is_root EXCEPT ![b] = TRUE]
      /\ UNCHANGED <<type, childQ, parent, num_childs, curr_build, parsing, ended>>
      /\ \/ Readies(s) /\ run_proc' = run_proc
         \/ Waits("RUNWAIT", s) /\ run_proc' = [run_proc EXCEPT ![b] = curr_proc]
  BY DEF proxc_go, proxc_run
<1>2. /\ Live /\ parsing = NULL /\ curr_proc \in Proc /\ curr_proc \in started
      /\ freeing = NULL /\ state[curr_proc] = "RUNNING" /\ Steady /\ Joins
  BY <1>1 DEF Live, Parses, Active, Steady, Where, TypeInv
<1>3. PICK on : Runs(on) /\ Nested(on)
  BY <1>2 DEF Active
<1>4. type[b] # "FREE" /\ parent[b] = NULL /\ ~is_root[b] /\ run_proc[b] = NULL
  BY <1>1 DEF Loose, Shape
<1>5. b \notin on
  BY <1>3, <1>4, BuildFacts DEF Runs, Reaches
<1>6. PICK X : Launches(b, X, s, on)
  BY <1>3, <1>4, <1>5, LaunchFacts
<1> HIDE DEF s
<1>7. /\ b \in X /\ X \subseteq Build /\ X \cap on = {}
      /\ \A y \in X : /\ y # b => parent[y] \in X /\ y \in Called(parent[y])
                      /\ Called(y) \subseteq X
      /\ s \in Batches /\ s \in Seq(Proc) /\ IsInjective(s)
      /\ Range(s) = X \cap Proc /\ Range(s) \subseteq Parked
      /\ \A p \in Range(s) : p \notin started /\ p \in Range(totalQ)
  BY <1>6 DEF Launches
<1>8. AwakeNext
  <2>1. CASE Readies(s)
    BY <1>1, <1>7, <2>1 DEF AwakeNext, AddReady
  <2>2. CASE Waits("RUNWAIT", s)
    BY <1>7, <2>2 DEF AwakeNext, RunWait
  <2> QED BY <1>1, <2>1, <2>2
<1>9. SInv'
  BY <1>8, AwakeStep DEF SInv, Active
<1>10. UNCHANGED <<totalQ, freeing>> /\ started' = started \cup Range(s) /\ Live'
       /\ pc' \in {"proc", "switch"}
  BY <1>1 DEF Readies, scheduler_addready, Waits, Live
<1>11. /\ AllKids' = AllKids
       /\ \A x : /\ Kids(x)' = Kids(x) /\ Finished(x)' = Finished(x)
                 /\ Todo(x)' = Todo(x) /\ Pos(x)' = Pos(x)
       /\ \A x \in Build : Called(x)' = Called(x)
  BY <1>1, SameTrees
<1>12. \A x \in Build : is_root'[x] <=> x = b \/ is_root[x]
  BY <1>1 DEF CspTypeOK
<1>13. CspTypeOK' /\ Shape' /\ Ranked' /\ Counts' /\ Parses'
  <2>1. CspTypeOK'
    BY <1>1, <1>2 DEF CspTypeOK
  <2>2. \A x \in Build : ~is_root'[x] => run_proc'[x] = NULL
    BY <1>1, <1>12 DEF Shape, CspTypeOK
  <2>3. Shape'
    BY <1>1, <1>4, <1>11, <1>12, <2>2 DEF Shape
  <2>4. Ranked'
    BY <1>11 DEF Ranked
  <2>5. Counts'
    BY <1>1, <1>11 DEF Counts
  <2>6. Parses'
    BY <1>1, <1>2, <1>10, BuildFacts DEF Parses
  <2> QED BY <2>1, <2>3, <2>4, <2>5, <2>6
<1>14. Joins'
  <2>1. \A p \in Range(s) : p \in Proc /\ state[p] = "READY" /\ p # curr_proc
    BY <1>2, <1>7 DEF Steady, Fits
  <2>2. CASE Readies(s) /\ run_proc' = run_proc
    <3>1. \A p \in Proc : state'[p] = "RUNWAIT" <=> state[p] = "RUNWAIT"
      BY <2>1, <2>2 DEF Readies, scheduler_addready
    <3> QED BY <1>1, <1>2, <1>10, <2>2, <3>1 DEF Joins
  <2>3. CASE Waits("RUNWAIT", s) /\ run_proc' = [run_proc EXCEPT ![b] = curr_proc]
    <3>1. \A p \in Proc : state'[p] = "RUNWAIT" <=> p = curr_proc \/ state[p] = "RUNWAIT"
      BY <2>1, <2>3 DEF Waits
    <3>2. \A x \in Build : run_proc'[x] = IF x = b THEN curr_proc ELSE run_proc[x]
      BY <2>3 DEF CspTypeOK
    <3>3. \A x \in Build : run_proc[x] # curr_proc
      BY <1>2 DEF Joins
    <3>4. \A p \in Proc : state'[p] = "RUNWAIT" <=> \E x \in Build : run_proc'[x] = p
      <4> SUFFICES ASSUME NEW p \in Proc
                   PROVE  state'[p] = "RUNWAIT" <=> \E x \in Build : run_proc'[x] = p
        OBVIOUS
      <4>1. state[p] = "RUNWAIT" <=> \E x \in Build : run_proc[x] = p
        BY <1>2 DEF Joins
      <4>2. p # NULL
        BY BuildFacts
      <4> QED BY <1>4, <3>1, <3>2, <4>1, <4>2
    <3>5. \A x, y \in Build : run_proc'[x] = run_proc'[y] /\ run_proc'[x] # NULL => x = y
      BY <1>2, <3>2, <3>3 DEF Joins
    <3> QED BY <1>1, <1>2, <1>10, <3>4, <3>5 DEF Joins
  <2> QED BY <1>1, <2>2, <2>3
<1> DEFINE more == on \cup X
<1>15. Runs(more)'
  <2>1. more \subseteq Build
    BY <1>3, <1>7 DEF Runs
  <2>2. Reaches(more)'
    <3> SUFFICES ASSUME NEW x \in Build
                 PROVE  x \in more <=> is_root'[x] \/ (parent'[x] \in more /\ x \in Called(parent[x])')
      BY DEF Reaches
    <3>1. x \in on <=> is_root[x] \/ (parent[x] \in on /\ x \in Called(parent[x]))
      BY <1>3 DEF Runs, Reaches
    <3>2. parent[x] \in more => Called(parent[x])' = Called(parent[x])
      BY <1>1, <1>11, <2>1
    <3>3. CASE x \in X
      BY <1>1, <1>7, <1>12, <3>2, <3>3
    <3>4. CASE x \notin X
      <4>1. x # b /\ (parent[x] \in X => x \notin Called(parent[x]))
        BY <1>7, <3>4
      <4> QED BY <1>1, <1>12, <3>1, <3>2, <3>4, <4>1
    <3> QED BY <3>3, <3>4
  <2>3. \A x \in Build : type'[x] # "FREE" /\ Finished(x)' => x \in more
    BY <1>1, <1>3, <1>11 DEF Runs
  <2>4. \A x \in Build : is_root'[x] => ~Finished(x)'
    BY <1>3, <1>4, <1>5, <1>11, <1>12 DEF Runs
  <2>5. \A x \in Proc : type'[x] # "FREE" => /\ x \in more <=> x \in started' \cup ended'
                                             /\ x \notin more => x \in Range(totalQ')
    BY <1>1, <1>3, <1>7, <1>10 DEF Runs
  <2>6. \A x \in Comp : type'[x] = "SEQ_BUILD" => InOrder(x)'
    BY <1>1, <1>3, <1>11 DEF Runs, InOrder
  <2>7. parsing' = NULL /\ freeing' = NULL
    BY <1>1, <1>2, <1>10
  <2> HIDE DEF more
  <2> QED BY <2>1, <2>2, <2>3, <2>4, <2>5, <2>6, <2>7 DEF Runs
<1>16. Nested(more)'
  <2> HIDE DEF more
  <2>1. PICK level \in [Build -> Nat] :
          \A x \in on : /\ is_root[x] /\ run_proc[x] # NULL => level[run_proc[x]] < level[x]
                        /\ ~is_root[x] => level[x] = level[parent[x]]
    BY <1>3 DEF Nested
  <2> DEFINE k == level[curr_proc] + 1
             new == [x \in Build |-> IF x \in X THEN k ELSE level[x]]
  <2>2. curr_proc \in Build /\ level[curr_proc] \in Nat /\ k \in Nat
    BY <1>2, <2>1, BuildFacts
  <2>3. new \in [Build -> Nat]
    BY <2>1, <2>2
  <2>4. curr_proc \notin X
    BY <1>2, <1>7
  <2>5. \A x \in Build : run_proc[x] # NULL => run_proc[x] \in Build \ X
    <3>1. \A p \in X \cap Proc : state[p] = "READY"
      BY <1>2, <1>7 DEF Steady, Fits
    <3> QED BY <1>2, <3>1, BuildFacts DEF Joins, CspTypeOK
  <2>6. ASSUME NEW x \in on
        PROVE  /\ is_root'[x] /\ run_proc'[x] # NULL => new[run_proc'[x]] < new[x]
               /\ ~is_root'[x] => new[x] = new[parent'[x]]
    <3>1. x \in Build /\ x \notin X /\ x # b /\ (is_root'[x] <=> is_root[x])
          /\ run_proc'[x] = run_proc[x] /\ parent'[x] = parent[x]
      <4>1. x \in Build /\ x \notin X /\ x # b
        BY <1>3, <1>5, <1>7 DEF Runs
      <4> QED BY <1>1, <1>12, <4>1 DEF CspTypeOK
    <3>2. ~is_root[x] => parent[x] \in on /\ parent[x] \in Build /\ parent[x] \notin X
      BY <1>3, <1>7, <3>1 DEF Runs, Reaches
    <3> QED BY <2>1, <2>5, <3>1, <3>2
  <2>7. ASSUME NEW x \in X
        PROVE  /\ is_root'[x] /\ run_proc'[x] # NULL => new[run_proc'[x]] < new[x]
               /\ ~is_root'[x] => new[x] = new[parent'[x]]
    <3>1. x \in Build /\ new[x] = k
      BY <1>7
    <3>2. CASE x = b
      <4>1. is_root'[x] /\ (run_proc'[x] = NULL \/ run_proc'[x] = curr_proc)
        BY <1>1, <1>4, <1>12, <3>1, <3>2 DEF CspTypeOK
      <4>2. new[curr_proc] < new[x]
        BY <2>2, <2>4, <3>1
      <4> QED BY <4>1, <4>2
    <3>3. CASE x # b
      <4>1. parent[x] \in X /\ parent[x] \in Build /\ ~is_root'[x]
        BY <1>7, <1>12, <3>1, <3>3, BuildFacts DEF Shape
      <4> QED BY <1>1, <3>1, <4>1
    <3> QED BY <3>2, <3>3
  <2> HIDE DEF new, k
  <2> QED BY <2>3, <2>6, <2>7 DEF Nested, more
<1> QED BY <1>8, <1>9, <1>10, <1>13, <1>14, <1>15, <1>16 DEF SInv, Active

-----------------------------------------------------------------------------
(* csp_parsebuild *)

\* One call of csp_parsebuild finishes b when b is done, and nothing else.
LEMMA CountedFacts ==
  ASSUME Built, NEW b, b = parsing, b # NULL, Counted(b), UNCHANGED <<type, childQ, parent>>
  PROVE  /\ b \in Build /\ type[b] # "FREE" /\ ~Finished(b)
         /\ AllKids' = AllKids /\ \A x : Kids(x)' = Kids(x)
         /\ \A x \in Build : Finished(x)' <=> IF x = b THEN BuildDone(b) ELSE Finished(x)
         /\ \A x \in Build : x # b => /\ num_childs'[x] = num_childs[x] /\ Pos(x)' = Pos(x)
                                      /\ Called(x)' = Called(x)
         /\ b \in Proc => BuildDone(b) /\ num_childs' = num_childs /\ ended' = ended \cup {b}
                          /\ b = freeing
         /\ b \in Comp => /\ num_childs[b] = Cardinality(Todo(b)) + 1
                          /\ num_childs'[b] = Cardinality(Todo(b))
                          /\ num_childs[b] <= Len(childQ[b]) /\ Cardinality(Todo(b)) \in Nat
                          /\ BuildDone(b) <=> num_childs[b] = 1
                          /\ BuildDone(b) => Pos(b) = Len(childQ[b]) /\ Pos(b)' = Len(childQ[b])
                          /\ ~BuildDone(b) => /\ Pos(b) = Len(childQ[b]) - num_childs[b] + 1
                                              /\ Pos(b)' = Pos(b) + 1
                                              /\ Pos(b) + 1 \in 1..Len(childQ[b])
                          /\ ended' = ended
         /\ num_childs' \in [Build -> Nat] /\ ended' \subseteq Proc
<1> USE DEF Built
<1>1. b \in Build /\ type[b] # "FREE" /\ (b \in Proc => b = freeing /\ b \notin ended)
  BY DEF Parses, CspTypeOK
<1>2. AllKids' = AllKids /\ \A x : Kids(x)' = Kids(x)
  BY DEF AllKids, Kids
<1>3. CASE b \in Proc
  <2>1. type[b] = "PROC_BUILD" /\ b \notin Comp
    BY <1>1, <1>3, BuildFacts DEF Shape
  <2>2. BuildDone(b) /\ num_childs' = num_childs /\ ended' = ended \cup {b} /\ ~Finished(b)
    BY <1>1, <1>3, <2>1 DEF BuildDone, Counted, Finished
  <2>3. \A x \in Build : Finished(x)' <=> IF x = b THEN BuildDone(b) ELSE Finished(x)
    BY <1>3, <2>2 DEF Finished
  <2>4. \A x \in Build : Pos(x)' = Pos(x) /\ Called(x)' = Called(x)
    BY <2>2 DEF Pos, Called
  <2> QED BY <1>1, <1>2, <1>3, <2>1, <2>2, <2>3, <2>4 DEF CspTypeOK
<1>4. CASE b \in Comp
  <2> DEFINE k == Cardinality(Todo(b))
             n == Len(childQ[b])
  <2>1. b \notin Proc /\ type[b] # "PROC_BUILD"
    BY <1>4, BuildFacts DEF Shape
  <2>2. num_childs' = [num_childs EXCEPT ![b] = num_childs[b] - 1] /\ ended' = ended
    BY <2>1 DEF Counted
  <2>3. k \in Nat /\ n \in Nat
    BY <1>1, TodoFacts, KidFacts
  <2>4. num_childs[b] = k + 1 /\ num_childs[b] <= n
    BY <1>4 DEF Counts
  <2>5. BuildDone(b) <=> num_childs[b] = 1
    BY <2>1 DEF BuildDone
  <2> HIDE DEF k, n
  <2>6. num_childs'[b] = k /\ \A x \in Build : x # b => num_childs'[x] = num_childs[x]
    BY <1>1, <2>2, <2>3, <2>4 DEF CspTypeOK
  <2>7. \A x \in Build : Finished(x)' <=> IF x = b THEN BuildDone(b) ELSE Finished(x)
    BY <2>1, <2>2, <2>3, <2>4, <2>5, <2>6 DEF Finished
  <2>8. ~Finished(b)
    BY <2>1, <2>3, <2>4 DEF Finished
  <2>9. \A x \in Build : x # b => Pos(x)' = Pos(x)
    BY <2>6 DEF Pos
  <2>10. \A x \in Build : x # b => Called(x)' = Called(x)
    BY <2>9 DEF Called
  <2>11. Pos(b) = IF k + 1 = 0 THEN n ELSE n - (k + 1) + 1
    BY <2>4 DEF Pos, n
  <2>12. Pos(b)' = IF k = 0 THEN n ELSE n - k + 1
    BY <2>6 DEF Pos, n
  <2>13. /\ BuildDone(b) => Pos(b) = n /\ Pos(b)' = n
         /\ ~BuildDone(b) => /\ Pos(b) = n - num_childs[b] + 1 /\ Pos(b)' = Pos(b) + 1
                             /\ Pos(b) + 1 \in 1..n
    BY <2>3, <2>4, <2>5, <2>11, <2>12
  <2>14. num_childs' \in [Build -> Nat] /\ ended' \subseteq Proc
    <3>1. num_childs[b] - 1 = k
      BY <2>3, <2>4
    <3> QED BY <2>2, <2>3, <3>1 DEF CspTypeOK
  <2> QED
    BY <1>1, <1>2, <1>4, <2>1, <2>2, <2>3, <2>4, <2>5, <2>6, <2>7, <2>8, <2>9, <2>10, <2>13, <2>14
       DEF k, n
<1> QED BY <1>1, <1>3, <1>4, BuildFacts

\* The unfinished children after the call.
LEMMA CountedTodo ==
  ASSUME Built, NEW b, b = parsing, b # NULL, Counted(b), UNCHANGED <<type, childQ, parent>>,
         NEW x \in Build
  PROVE  /\ ~BuildDone(b) \/ parent[b] # x => Todo(x)' = Todo(x)
         /\ BuildDone(b) /\ parent[b] = x => Cardinality(Todo(x)) = Cardinality(Todo(x)') + 1
                                             /\ Cardinality(Todo(x)') \in Nat
<1> USE DEF Built
<1>1. /\ b \in Build /\ ~Finished(b)
      /\ \A y \in Build : Finished(y)' <=> IF y = b THEN BuildDone(b) ELSE Finished(y)
  BY CountedFacts
<1>2. /\ DOMAIN childQ[x] = 1..Len(childQ[x]) /\ IsInjective(childQ[x])
      /\ \A i \in DOMAIN childQ[x] : childQ[x][i] \in Build /\ childQ[x][i] \in Kids(x)
  BY KidFacts DEF Shape
<1>3. \A i \in DOMAIN childQ[x] : (Finished(childQ[x][i])' <=> IF childQ[x][i] = b THEN BuildDone(b)
                                                               ELSE Finished(childQ[x][i]))
  <2>1. childQ'[x] = childQ[x]
    OBVIOUS
  <2> QED BY <1>1, <1>2, <2>1
<1>4. Todo(x)' = {i \in Todo(x) : ~(childQ[x][i] = b /\ BuildDone(b))}
  BY <1>1, <1>3 DEF Todo
<1>5. b \in Kids(x) <=> parent[b] = x
  BY <1>1 DEF Shape
<1>6. ASSUME ~BuildDone(b) \/ parent[b] # x PROVE Todo(x)' = Todo(x)
  <2>1. \A i \in Todo(x) : ~(childQ[x][i] = b /\ BuildDone(b))
    BY <1>2, <1>5, <1>6 DEF Todo
  <2> QED BY <1>4, <2>1
<1>7. ASSUME BuildDone(b), parent[b] = x
      PROVE  Cardinality(Todo(x)) = Cardinality(Todo(x)') + 1 /\ Cardinality(Todo(x)') \in Nat
  <2>1. PICK i \in DOMAIN childQ[x] : childQ[x][i] = b
    BY <1>5, <1>7 DEF Kids, Range
  <2>2. i \in Todo(x)
    BY <1>1, <2>1 DEF Todo
  <2>3. Todo(x)' = Todo(x) \ {i}
    BY <1>2, <1>4, <1>7, <2>1 DEF Todo, IsInjective
  <2>4. IsFiniteSet(Todo(x)) /\ Cardinality(Todo(x)) \in Nat
    BY TodoFacts
  <2>5. IsFiniteSet(Todo(x)') /\ Cardinality(Todo(x)') = Cardinality(Todo(x)) - 1
    BY <2>2, <2>3, <2>4, FS_RemoveElement
  <2>6. Cardinality(Todo(x)') \in Nat
    BY <2>5, FS_CardinalityType
  <2> QED BY <2>4, <2>5, <2>6
<1> QED BY <1>6, <1>7

\* The shape of the trees stays.
LEMMA CountedShape ==
  ASSUME Built, NEW b, b = parsing, b # NULL, Counted(b),
         UNCHANGED <<type, childQ, parent, is_root, run_proc>>
  PROVE  Shape' /\ Ranked'
<1> USE DEF Built
<1>1. b \in Build /\ type[b] # "FREE" /\ AllKids' = AllKids /\ (\A x : Kids(x)' = Kids(x))
      /\ ended' \subseteq ended \cup {b}
  BY CountedFacts, BuildFacts
<1>2. Shape'
  BY <1>1 DEF Shape
<1>3. Ranked'
  BY <1>1 DEF Ranked
<1> QED BY <1>2, <1>3

\* A PAR counts a child and waits for the others.
LEMMA ParStep ==
  ASSUME BuildInv, NEW b, b = parsing, b # NULL, ParsePar(b)
  PROVE  BuildInv'
<1> USE DEF BuildInv, Built
<1>1. /\ type[b] = "PAR_BUILD" /\ ~BuildDone(b) /\ Counted(b) /\ parsing' = NULL
      /\ UNCHANGED <<schedVars, type, childQ, parent, curr_build, is_root, run_proc>>
  BY DEF ParsePar
<1>2. UNCHANGED <<pc, state, totalQ, freeing, started>> /\ (Live' <=> Live)
  BY <1>1 DEF schedVars, Live
<1>3. /\ b \in Build /\ b \in Comp /\ b \notin Proc /\ ended' = ended
      /\ \A x : Kids(x)' = Kids(x)
      /\ \A x \in Build : Finished(x)' <=> Finished(x)
      /\ \A x \in Build : x # b => num_childs'[x] = num_childs[x] /\ Pos(x)' = Pos(x)
      /\ num_childs[b] = num_childs'[b] + 1 /\ num_childs'[b] = Cardinality(Todo(b))
      /\ num_childs[b] <= Len(childQ[b])
      /\ num_childs' \in [Build -> Nat]
  BY <1>1, CountedFacts, BuildFacts
<1>4. \A x \in Build : Called(x)' = Called(x)
  <2>1. Called(b)' = Called(b)
    BY <1>1 DEF Called
  <2> QED BY <1>1, <2>1, CountedFacts
<1>5. SInv'
  <2>1. [AwakeNext]_schedVars
    BY <1>1
  <2> QED BY <2>1, AwakeStep DEF SInv, Active
<1>6. CspTypeOK'
  BY <1>1, <1>3, BuildFacts DEF CspTypeOK
<1>7. Shape' /\ Ranked'
  BY <1>1, CountedShape
<1>8. Counts'
  <2> SUFFICES ASSUME NEW x \in Comp
               PROVE  /\ num_childs'[x] = Cardinality(Todo(x)') + (IF parsing' = x THEN 1 ELSE 0)
                      /\ num_childs'[x] <= Len(childQ'[x])
                      /\ type'[x] = "SEQ_BUILD" => curr_build'[x] = childQ'[x][Pos(x)']
    BY DEF Counts
  <2>1. x \in Build /\ parsing' # x
    BY <1>1, BuildFacts
  <2>2. Todo(x)' = Todo(x)
    BY <1>1, <2>1, CountedTodo
  <2>3. Cardinality(Todo(x)) \in Nat /\ Len(childQ[x]) \in Nat
    BY <2>1, TodoFacts, KidFacts
  <2>4. CASE x = b
    BY <1>1, <1>3, <2>1, <2>2, <2>3, <2>4
  <2>5. CASE x # b
    BY <1>1, <1>3, <2>1, <2>2, <2>3, <2>5 DEF Counts
  <2> QED BY <2>4, <2>5
<1>9. Parses'
  BY <1>1, <1>2, <1>3, BuildFacts DEF Parses
<1>10. ASSUME Live' PROVE Active'
  <2>1. Joins'
    BY <1>1, <1>2, <1>10 DEF Active, Joins
  <2>2. PICK on : Runs(on) /\ Nested(on)
    BY <1>2, <1>10 DEF Active
  <2>3. Runs(on)'
    <3>1. Reaches(on)'
      <4> SUFFICES ASSUME NEW x \in Build
                   PROVE  x \in on <=> is_root'[x] \/ (parent'[x] \in on /\ x \in Called(parent[x])')
        BY DEF Reaches
      <4>1. x \in on <=> is_root[x] \/ (parent[x] \in on /\ x \in Called(parent[x]))
        BY <2>2 DEF Runs, Reaches
      <4>2. parent[x] \in on => Called(parent[x])' = Called(parent[x])
        BY <1>1, <1>4, <2>2 DEF Runs
      <4> QED BY <1>1, <4>1, <4>2
    <3>2. ASSUME NEW x \in Comp, type'[x] = "SEQ_BUILD" PROVE InOrder(x)'
      <4>1. /\ x \in Build /\ x # b /\ x # NULL /\ InOrder(x) /\ Pos(x)' = Pos(x)
            /\ childQ' = childQ /\ curr_build' = curr_build /\ type[x] = "SEQ_BUILD"
        BY <1>1, <1>3, <2>2, <3>2, BuildFacts DEF Runs
      <4>2. Pos(x) \in 1..Len(childQ[x]) /\ Len(childQ[x]) \in Nat /\ curr_build[x] \in Kids(x)
        BY <4>1, CurrentFacts, KidFacts
      <4>3. curr_build[x] \in Build /\ \A i \in 1..Pos(x) - 1 : childQ[x][i] \in Build
        BY <4>1, <4>2, KidFacts
      <4> QED BY <1>1, <1>3, <4>1, <4>2, <4>3 DEF InOrder
    <3>3. freeing # NULL => freeing \in Proc
      BY DEF TypeInv, SchedTypeOK
    <3>4. freeing # NULL /\ type[freeing] # "FREE" => freeing \in ended
      BY <1>3, <2>2, <3>3 DEF Runs
    <3> QED BY <1>1, <1>2, <1>3, <2>2, <3>1, <3>2, <3>4, BuildFacts DEF Runs
  <2>4. Nested(on)'
    BY <1>1, <2>2 DEF Nested
  <2> QED BY <1>5, <1>10, <2>1, <2>3, <2>4 DEF SInv, Active
<1> QED BY <1>5, <1>6, <1>7, <1>8, <1>9, <1>10 DEF SInv

\* A builder that is done hands over to its parent; while scheduler_run runs it
\* has one.
LEMMA UpStep ==
  ASSUME BuildInv, NEW b, b = parsing, b # NULL, ParseUp(b)
  PROVE  (Live => UNCHANGED schedVars) /\ BuildInv'
<1> USE DEF BuildInv, Built
<1> DEFINE u == parent[b]
<1>1. /\ BuildDone(b) /\ ~is_root[b] /\ Counted(b) /\ parsing' = u
      /\ u # NULL => UNCHANGED schedVars
      /\ u = NULL => pc' = "abort"
      /\ UNCHANGED <<state, curr_proc, totalQ, readyQ, sleepRB, sleep_us, is_exit, freeing, clock,
                     now_us, started, due>>
      /\ UNCHANGED <<type, childQ, parent, curr_build, is_root, run_proc>>
  BY DEF ParseUp, schedVars
<1>2. /\ b \in Build /\ type[b] # "FREE" /\ ~Finished(b) /\ AllKids' = AllKids
      /\ \A x : Kids(x)' = Kids(x)
      /\ \A x \in Build : Finished(x)' <=> x = b \/ Finished(x)
      /\ \A x \in Build : x # b => /\ num_childs'[x] = num_childs[x] /\ Pos(x)' = Pos(x)
                                   /\ Called(x)' = Called(x)
      /\ b \in Proc => num_childs' = num_childs /\ ended' = ended \cup {b} /\ b = freeing
      /\ b \in Comp => /\ num_childs'[b] = Cardinality(Todo(b)) /\ num_childs'[b] = 0
                       /\ Pos(b) = Len(childQ[b]) /\ Pos(b)' = Len(childQ[b]) /\ ended' = ended
      /\ num_childs' \in [Build -> Nat] /\ ended' \subseteq Proc
  BY <1>1, CountedFacts
<1>3. u # NULL => u \in Comp /\ u \in Build /\ u \notin Proc /\ b \in Kids(u) /\ type[u] # "FREE" /\ u # b
  <2>1. u # NULL => u \in Comp /\ b \in Kids(u) /\ type[u] # "FREE"
    BY <1>2, Allocated
  <2>2. PICK n, rank : Falls(Build, AllKids, n, rank)
    BY DEF Ranked
  <2>3. b \notin Kids(b)
    BY <1>2, <2>2 DEF Falls, AllKids
  <2> QED BY <2>1, <2>3, BuildFacts
<1>4. \A x \in Build : Called(x)' = Called(x) /\ Pos(x)' = Pos(x)
  <2>1. Pos(b)' = Pos(b)
    <3>1. CASE b \in Proc
      BY <1>1, <1>2, <3>1 DEF Pos
    <3>2. CASE b \in Comp
      BY <1>2, <3>2
    <3> QED BY <1>2, <3>1, <3>2, BuildFacts
  <2>2. Called(b)' = Called(b)
    BY <1>1, <2>1 DEF Called
  <2> QED BY <1>2, <2>1, <2>2
<1>5. pc \in {"free", "tfree"}
  BY DEF Parses
<1>6. TypeInv'
  <2>1. CASE u = NULL
    BY <1>1, <2>1 DEF TypeInv, SchedTypeOK, Control
  <2>2. CASE u # NULL
    BY <1>1, <2>2 DEF schedVars, TypeInv, SchedTypeOK, Control
  <2> QED BY <2>1, <2>2
<1>7. ASSUME Live PROVE u # NULL /\ UNCHANGED schedVars
  <2>1. PICK on : Runs(on) /\ Nested(on)
    BY <1>7 DEF Active
  <2>2. b \in on
    BY <2>1 DEF Runs
  <2>3. u \in on
    BY <1>1, <1>2, <2>1, <2>2 DEF Runs, Reaches
  <2>4. u # NULL
    BY <2>1, <2>3, BuildFacts DEF Runs
  <2> QED BY <1>1, <2>4
<1>8. CspTypeOK'
  BY <1>1, <1>2, <1>3 DEF CspTypeOK
<1>9. Shape' /\ Ranked'
  BY <1>1, CountedShape
<1>10. Counts'
  <2> SUFFICES ASSUME NEW x \in Comp
               PROVE  /\ num_childs'[x] = Cardinality(Todo(x)') + (IF parsing' = x THEN 1 ELSE 0)
                      /\ num_childs'[x] <= Len(childQ'[x])
                      /\ type'[x] = "SEQ_BUILD" => curr_build'[x] = childQ'[x][Pos(x)']
    BY DEF Counts
  <2>1. x \in Build /\ x # NULL
    BY BuildFacts
  <2>2. Cardinality(Todo(x)) \in Nat /\ Len(childQ[x]) \in Nat
    BY <2>1, TodoFacts, KidFacts
  <2>3. /\ u # x => Todo(x)' = Todo(x)
        /\ u = x => Cardinality(Todo(x)) = Cardinality(Todo(x)') + 1 /\ Cardinality(Todo(x)') \in Nat
    BY <1>1, <2>1, CountedTodo
  <2>4. /\ num_childs[x] = Cardinality(Todo(x)) + (IF parsing = x THEN 1 ELSE 0)
        /\ num_childs[x] <= Len(childQ[x])
        /\ type[x] = "SEQ_BUILD" => curr_build[x] = childQ[x][Pos(x)]
    BY DEF Counts
  <2>5. type'[x] = "SEQ_BUILD" => curr_build'[x] = childQ'[x][Pos(x)']
    BY <1>1, <1>4, <2>1, <2>4
  <2>6. CASE x = b
    <3>1. u # x
      BY <1>3, <2>1, <2>6
    <3>2. Todo(x)' = Todo(x) /\ parsing' # x /\ childQ'[x] = childQ[x]
      BY <1>1, <2>3, <3>1
    <3>3. num_childs'[x] = Cardinality(Todo(x)) /\ num_childs'[x] = 0
      BY <1>2, <2>6
    <3> QED BY <2>2, <2>5, <3>2, <3>3
  <2>7. CASE x # b /\ x = u
    BY <1>1, <1>2, <2>1, <2>2, <2>3, <2>4, <2>5, <2>7
  <2>8. CASE x # b /\ x # u
    BY <1>1, <1>2, <2>1, <2>2, <2>3, <2>4, <2>5, <2>8
  <2> QED BY <2>6, <2>7, <2>8
<1>11. Parses'
  <2>1. ended' \cap Range(totalQ) = {}
    <3>1. freeing \notin Range(totalQ) /\ ended \cap Range(totalQ) = {}
      BY DEF Parses
    <3> QED BY <1>2, <3>1, BuildFacts
  <2>2. u # NULL => pc' = pc
    BY <1>1 DEF schedVars
  <2> QED BY <1>1, <1>3, <1>5, <2>1, <2>2, BuildFacts DEF Parses
<1>12. ASSUME Live' PROVE Live /\ Active'
  <2>1. u # NULL /\ Live /\ UNCHANGED schedVars
    BY <1>1, <1>12 DEF Live, schedVars
  <2>2. Joins'
    BY <1>1, <2>1 DEF Active, Joins
  <2>3. PICK on : Runs(on) /\ Nested(on)
    BY <2>1 DEF Active
  <2>4. b \in on /\ u \in on /\ b \in Called(u)
    <3>1. b \in on
      BY <2>3 DEF Runs
    <3> QED BY <1>1, <1>2, <2>3, <3>1 DEF Runs, Reaches
  <2>5. Runs(on)'
    <3>1. Reaches(on)'
      <4> SUFFICES ASSUME NEW x \in Build
                   PROVE  x \in on <=> is_root'[x] \/ (parent'[x] \in on /\ x \in Called(parent[x])')
        BY DEF Reaches
      <4>1. x \in on <=> is_root[x] \/ (parent[x] \in on /\ x \in Called(parent[x]))
        BY <2>3 DEF Runs, Reaches
      <4>2. parent[x] \in on => Called(parent[x])' = Called(parent[x])
        BY <1>1, <1>4, <2>3 DEF Runs
      <4> QED BY <1>1, <4>1, <4>2
    <3>2. ASSUME NEW x \in Comp, type'[x] = "SEQ_BUILD" PROVE InOrder(x)'
      <4>1. /\ x \in Build /\ x \notin Proc /\ x # NULL /\ InOrder(x) /\ Pos(x)' = Pos(x)
            /\ childQ' = childQ /\ curr_build' = curr_build /\ type[x] = "SEQ_BUILD"
        BY <1>1, <1>4, <2>3, <3>2, BuildFacts DEF Runs
      <4>2. /\ Pos(x) \in 1..Len(childQ[x]) /\ Len(childQ[x]) \in Nat
            /\ curr_build[x] = childQ[x][Pos(x)] /\ curr_build[x] \in Kids(x)
        BY <4>1, CurrentFacts, KidFacts
      <4>3. curr_build[x] \in Build /\ \A i \in 1..Pos(x) - 1 : childQ[x][i] \in Build
        BY <4>1, <4>2, KidFacts
      <4>4. \A i \in 1..Pos(x)' - 1 : Finished(childQ[x][i])'
        BY <1>2, <4>1, <4>3 DEF InOrder
      <4>5. u = x => curr_build[x] = b
        <5> SUFFICES ASSUME u = x PROVE curr_build[x] = b
          OBVIOUS
        <5>1. PICK i \in DOMAIN childQ[x] : b = childQ[x][i] /\ i <= Pos(x)
          BY <2>4, <4>1 DEF Called
        <5>2. i \in 1..Len(childQ[x])
          BY <4>1, KidFacts
        <5>3. ~(i \in 1..Pos(x) - 1)
          BY <1>2, <4>1, <5>1 DEF InOrder
        <5>4. i = Pos(x)
          BY <4>2, <5>1, <5>2, <5>3
        <5> QED BY <4>2, <5>1, <5>4
      <4>6. parsing' = x => Finished(curr_build[x])'
        BY <1>1, <1>2, <4>1, <4>3, <4>5
      <4>7. num_childs'[x] # 0 /\ parsing' # x => ~Finished(curr_build[x])'
        <5> SUFFICES ASSUME num_childs'[x] # 0, u # x PROVE ~Finished(curr_build[x])'
          BY <1>1
        <5>1. x # b
          BY <1>2, <3>2
        <5>2. curr_build[x] # b
          BY <1>2, <4>1, <4>2 DEF Shape
        <5>3. ~Finished(curr_build[x])
          BY <1>2, <4>1, <5>1 DEF InOrder
        <5> QED BY <1>2, <4>1, <4>3, <5>2, <5>3
      <4> QED BY <4>1, <4>4, <4>6, <4>7 DEF InOrder
    <3>3. \A x \in Build : type'[x] # "FREE" /\ Finished(x)' => x \in on
      BY <1>1, <1>2, <2>3, <2>4 DEF Runs
    <3>4. \A x \in Build : is_root'[x] => ~Finished(x)'
      BY <1>1, <1>2, <2>3 DEF Runs
    <3>5. \A x \in Proc : type'[x] # "FREE" => /\ x \in on <=> x \in started' \cup ended'
                                               /\ x \notin on => x \in Range(totalQ')
      BY <1>1, <1>2, <2>3, <2>4, BuildFacts DEF Runs
    <3>6. freeing' # NULL /\ freeing' # parsing' /\ type'[freeing'] # "FREE" => freeing' \in ended'
      <4>1. freeing # NULL => freeing \in Proc
        BY DEF TypeInv, SchedTypeOK
      <4>2. freeing # NULL /\ freeing # b /\ type[freeing] # "FREE" => freeing \in ended
        BY <2>3 DEF Runs
      <4>3. ended \subseteq ended' /\ (b \in Proc => b \in ended')
        BY <1>2, BuildFacts
      <4> QED BY <1>1, <4>1, <4>2, <4>3
    <3> QED BY <1>1, <2>3, <2>4, <3>1, <3>2, <3>3, <3>4, <3>5, <3>6 DEF Runs
  <2>6. Steady'
    <3>1. [AwakeNext]_schedVars
      BY <2>1
    <3> QED BY <1>12, <3>1, AwakeStep DEF SInv, Active
  <2>7. Nested(on)'
    BY <1>1, <2>3 DEF Nested
  <2> QED BY <2>1, <2>2, <2>5, <2>6, <2>7 DEF Active
<1> QED BY <1>6, <1>7, <1>8, <1>9, <1>10, <1>11, <1>12

\* TAILQ_NEXT of the current child is the child at the next position.
LEMMA NextFacts ==
  ASSUME Built, NEW b, b = parsing, b # NULL, type[b] = "SEQ_BUILD", ~BuildDone(b), Counted(b),
         UNCHANGED <<type, childQ, parent>>
  PROVE  /\ b \in Comp /\ Pos(b) \in 1..Len(childQ[b]) /\ Len(childQ[b]) \in Nat
         /\ Pos(b) + 1 \in 1..Len(childQ[b]) /\ Pos(b)' = Pos(b) + 1
         /\ curr_build[b] = childQ[b][Pos(b)]
         /\ NextChild(b) = childQ[b][Pos(b) + 1]
         /\ NextChild(b) \in Kids(b) /\ NextChild(b) \notin Called(b)
         /\ Called(b)' = Called(b) \cup {NextChild(b)}
<1> USE DEF Built
<1>1. b \in Build /\ b \in Comp /\ b \notin Proc
  <2>1. b \in Build
    BY CountedFacts
  <2> QED BY <2>1, BuildFacts DEF Shape
<1>2. /\ childQ[b] \in Seq(Build) /\ Len(childQ[b]) \in Nat /\ DOMAIN childQ[b] = 1..Len(childQ[b])
      /\ IsInjective(childQ[b]) /\ \A i \in 1..Len(childQ[b]) : childQ[b][i] \in Kids(b)
  BY <1>1, KidFacts DEF Shape
<1>3. Pos(b) \in 1..Len(childQ[b]) /\ curr_build[b] = childQ[b][Pos(b)]
  BY <1>1, CurrentFacts
<1>4. Pos(b) + 1 \in 1..Len(childQ[b]) /\ Pos(b)' = Pos(b) + 1
  BY <1>1, CountedFacts
<1> DEFINE i == CHOOSE j \in DOMAIN childQ[b] : childQ[b][j] = curr_build[b]
<1>5. i \in DOMAIN childQ[b] /\ childQ[b][i] = curr_build[b]
  BY <1>2, <1>3
<1>6. i = Pos(b)
  <2> HIDE DEF i
  <2> QED BY <1>2, <1>3, <1>5 DEF IsInjective
<1>7. NextChild(b) = childQ[b][Pos(b) + 1]
  <2>1. NextChild(b) = childQ[b][i + 1]
    BY DEF NextChild
  <2> HIDE DEF i
  <2> QED BY <1>6, <2>1
<1>8. NextChild(b) \notin Called(b)
  BY <1>2, <1>3, <1>4, <1>7 DEF Called, IsInjective
<1>9. Called(b)' = Called(b) \cup {NextChild(b)}
  <2> DEFINE J == {j \in DOMAIN childQ[b] : j <= Pos(b)}
             K == {j \in DOMAIN childQ[b] : j <= Pos(b) + 1}
  <2>1. Called(b) = {childQ[b][j] : j \in J}
    BY DEF Called
  <2>2. Called(b)' = {childQ[b][j] : j \in K}
    BY <1>4 DEF Called
  <2>3. K = J \cup {Pos(b) + 1}
    BY <1>2, <1>3, <1>4
  <2> HIDE DEF J, K
  <2> QED BY <1>7, <2>1, <2>2, <2>3
<1> QED BY <1>1, <1>2, <1>3, <1>4, <1>7, <1>8, <1>9

\* A SEQ counts a child and runs the next one.
LEMMA SeqStep ==
  ASSUME BuildInv, NEW b, b = parsing, b # NULL, ParseSeq(b)
  PROVE  (Live => [AwakeNext]_schedVars) /\ BuildInv'
<1> USE DEF BuildInv, Built
<1> DEFINE c == NextChild(b)
           s == csp_runbuild(c)
<1>1. /\ type[b] = "SEQ_BUILD" /\ ~BuildDone(b) /\ Counted(b) /\ parsing' = NULL
      /\ Readies(s) /\ curr_build' = [curr_build EXCEPT ![b] = c]
      /\ UNCHANGED <<type, childQ, parent, is_root, run_proc>>
  BY DEF ParseSeq
<1>2. /\ b \in Comp /\ Pos(b) \in 1..Len(childQ[b]) /\ Len(childQ[b]) \in Nat
      /\ Pos(b) + 1 \in 1..Len(childQ[b]) /\ Pos(b)' = Pos(b) + 1
      /\ curr_build[b] = childQ[b][Pos(b)] /\ c = childQ[b][Pos(b) + 1]
      /\ c \in Kids(b) /\ c \notin Called(b) /\ Called(b)' = Called(b) \cup {c}
  BY <1>1, NextFacts
<1>3. c \in Build /\ parent[c] = b /\ type[c] # "FREE" /\ ~is_root[c] /\ b \in Build /\ b \notin Proc
  BY <1>2, Allocated, BuildFacts DEF Shape
<1>4. s \in Seq(Proc)
  BY <1>3, RunFacts DEF Lists
<1> HIDE DEF c, s
<1>5. /\ UNCHANGED <<pc, curr_proc, totalQ, freeing>> /\ started' = started \cup Range(s)
      /\ state' = [p \in Proc |-> IF p \in Range(s) THEN "READY" ELSE state[p]]
      /\ (Live' <=> Live)
  BY <1>1 DEF Readies, scheduler_addready, Live
<1>6. /\ ended' = ended
      /\ \A x : Kids(x)' = Kids(x)
      /\ \A x \in Build : Finished(x)' <=> Finished(x)
      /\ \A x \in Build : x # b => /\ num_childs'[x] = num_childs[x] /\ Pos(x)' = Pos(x)
                                   /\ Called(x)' = Called(x)
      /\ num_childs[b] = num_childs'[b] + 1 /\ num_childs'[b] = Cardinality(Todo(b))
      /\ num_childs[b] <= Len(childQ[b])
      /\ num_childs' \in [Build -> Nat]
  BY <1>1, <1>2, CountedFacts
<1>7. TypeInv'
  BY <1>1, <1>4, ReadiesType
<1>8. CspTypeOK'
  BY <1>1, <1>3, <1>6 DEF CspTypeOK
<1>9. Shape' /\ Ranked'
  BY <1>1, CountedShape
<1>10. curr_build'[b] = c /\ \A x \in Build : x # b => curr_build'[x] = curr_build[x]
  BY <1>1, <1>3 DEF CspTypeOK
<1>11. Counts'
  <2> SUFFICES ASSUME NEW x \in Comp
               PROVE  /\ num_childs'[x] = Cardinality(Todo(x)') + (IF parsing' = x THEN 1 ELSE 0)
                      /\ num_childs'[x] <= Len(childQ'[x])
                      /\ type'[x] = "SEQ_BUILD" => curr_build'[x] = childQ'[x][Pos(x)']
    BY DEF Counts
  <2>1. x \in Build /\ parsing' # x
    BY <1>1, BuildFacts
  <2>2. Todo(x)' = Todo(x)
    BY <1>1, <2>1, CountedTodo
  <2>3. Cardinality(Todo(x)) \in Nat /\ Len(childQ[x]) \in Nat
    BY <2>1, TodoFacts, KidFacts
  <2>4. CASE x = b
    BY <1>1, <1>2, <1>6, <1>10, <2>1, <2>2, <2>3, <2>4
  <2>5. CASE x # b
    BY <1>1, <1>6, <1>10, <2>1, <2>2, <2>3, <2>5 DEF Counts
  <2> QED BY <2>4, <2>5
<1>12. Parses'
  BY <1>1, <1>5, <1>6, BuildFacts DEF Parses
<1>13. ASSUME Live PROVE AwakeNext /\ Active'
  <2>1. PICK on : Runs(on) /\ Nested(on)
    BY <1>13 DEF Active
  <2>2. b \in on /\ c \notin on
    BY <1>2, <1>3, <2>1 DEF Runs, Reaches
  <2>3. PICK X : Launches(c, X, s, on)
    BY <1>3, <2>1, <2>2, LaunchFacts DEF s
  <2>4. /\ c \in X /\ X \subseteq Build /\ X \cap on = {}
        /\ \A y \in X : /\ y # c => parent[y] \in X /\ y \in Called(parent[y])
                        /\ Called(y) \subseteq X
        /\ s \in Batches /\ IsInjective(s)
        /\ Range(s) = X \cap Proc /\ Range(s) \subseteq Parked
        /\ \A p \in Range(s) : p \notin started /\ p \in Range(totalQ)
    BY <2>3 DEF Launches
  <2>5. pc = "free"
    BY <1>13 DEF Parses, Live
  <2>6. AwakeNext
    BY <1>1, <2>4, <2>5 DEF AwakeNext, AddReady
  <2>7. Steady'
    BY <1>5, <1>13, <2>6, AwakeStep DEF SInv, Active
  <2>8. Joins'
    <3>1. \A p \in Range(s) : p \in Proc /\ state[p] = "READY"
      BY <1>13, <2>4 DEF Active, Steady, Fits
    <3>2. \A p \in Proc : state'[p] = "RUNWAIT" <=> state[p] = "RUNWAIT"
      BY <1>5, <3>1
    <3> QED BY <1>1, <1>5, <1>13, <3>2 DEF Active, Joins
  <2> DEFINE more == on \cup X
  <2>9. Runs(more)'
    <3>1. more \subseteq Build
      BY <2>1, <2>4 DEF Runs
    <3>2. Reaches(more)'
      <4> SUFFICES ASSUME NEW x \in Build
                   PROVE  x \in more <=> is_root'[x] \/ (parent'[x] \in more /\ x \in Called(parent[x])')
        BY DEF Reaches
      <4>1. x \in on <=> is_root[x] \/ (parent[x] \in on /\ x \in Called(parent[x]))
        BY <2>1 DEF Runs, Reaches
      <4>2. parent[x] \in more /\ parent[x] # b => Called(parent[x])' = Called(parent[x])
        BY <1>1, <1>6, <3>1
      <4>3. parent[x] = b => Called(parent[x])' = Called(parent[x]) \cup {c}
        BY <1>1, <1>2
      <4>4. CASE x = c
        BY <1>1, <1>3, <2>2, <2>4, <4>3, <4>4
      <4>5. CASE x \in X /\ x # c
        <5>1. parent[x] \in X /\ x \in Called(parent[x]) /\ parent[x] # b
          BY <2>2, <2>4, <4>5
        <5> QED BY <1>1, <4>2, <4>5, <5>1
      <4>6. CASE x \notin X
        <5>1. x # c /\ (parent[x] \in X => x \notin Called(parent[x]))
          BY <2>4, <4>6
        <5>2. parent[x] \in X => parent[x] # b
          BY <2>2, <2>4
        <5> QED BY <1>1, <4>1, <4>2, <4>3, <4>6, <5>1, <5>2
      <4> QED BY <4>4, <4>5, <4>6
    <3>3. \A x \in Build : type'[x] # "FREE" /\ Finished(x)' => x \in more
      BY <1>1, <1>6, <2>1 DEF Runs
    <3>4. \A x \in Build : is_root'[x] => ~Finished(x)'
      BY <1>1, <1>6, <2>1 DEF Runs
    <3>5. \A x \in Proc : type'[x] # "FREE" => /\ x \in more <=> x \in started' \cup ended'
                                               /\ x \notin more => x \in Range(totalQ')
      BY <1>1, <1>5, <1>6, <2>1, <2>4 DEF Runs
    <3>6. ASSUME NEW x \in Comp, type'[x] = "SEQ_BUILD" PROVE InOrder(x)'
      <4>1. x \in Build /\ x # NULL /\ InOrder(x) /\ childQ' = childQ /\ type[x] = "SEQ_BUILD"
        BY <1>1, <2>1, <3>6, BuildFacts DEF Runs
      <4>2. Pos(x) \in 1..Len(childQ[x]) /\ Len(childQ[x]) \in Nat /\ curr_build[x] \in Kids(x)
        BY <4>1, CurrentFacts, KidFacts
      <4>3. curr_build[x] \in Build /\ \A i \in 1..Pos(x) : childQ[x][i] \in Build
        BY <4>1, <4>2, KidFacts
      <4>4. CASE x # b
        BY <1>1, <1>6, <1>10, <4>1, <4>2, <4>3, <4>4 DEF InOrder
      <4>5. CASE x = b
        <5>1. \A i \in 1..Pos(b) : Finished(childQ[b][i])
          <6> SUFFICES ASSUME NEW i \in 1..Pos(b) PROVE Finished(childQ[b][i])
            OBVIOUS
          <6>1. CASE i = Pos(b)
            BY <1>2, <4>1, <4>5, <6>1 DEF InOrder
          <6>2. CASE i # Pos(b)
            <7>1. i \in 1..Pos(b) - 1
              BY <1>2, <6>2
            <7> QED BY <4>1, <4>5, <7>1 DEF InOrder
          <6> QED BY <6>1, <6>2
        <5>2. \A i \in 1..Pos(b)' - 1 : Finished(childQ[b][i])'
          <6>1. Pos(b)' - 1 = Pos(b)
            BY <1>2
          <6>2. \A i \in 1..Pos(b) : childQ'[b][i] = childQ[b][i] /\ childQ[b][i] \in Build
            BY <1>1, <4>3, <4>5
          <6>3. \A i \in 1..Pos(b) : Finished(childQ[b][i])'
            BY <1>6, <5>1, <6>2
          <6> QED BY <6>1, <6>3
        <5>3. PICK d : d = c
          OBVIOUS
        <5>4. ~Finished(d)'
          BY <1>3, <1>6, <2>1, <2>2, <5>3 DEF Runs
        <5>5. ~Finished(curr_build[b])'
          BY <1>10, <5>3, <5>4
        <5>6. parsing' # b
          BY <1>1
        <5> QED BY <4>5, <5>2, <5>5, <5>6 DEF InOrder
      <4> QED BY <4>4, <4>5
    <3>7. freeing' # NULL /\ freeing' # parsing' /\ type'[freeing'] # "FREE" => freeing' \in ended'
      <4>1. freeing # NULL => freeing \in Proc
        BY DEF TypeInv, SchedTypeOK
      <4> QED BY <1>1, <1>3, <1>5, <1>6, <2>1, <4>1 DEF Runs
    <3> HIDE DEF more
    <3> QED BY <1>1, <3>1, <3>2, <3>3, <3>4, <3>5, <3>6, <3>7 DEF Runs
  <2>10. Nested(more)'
    <3> HIDE DEF more
    <3>1. PICK level \in [Build -> Nat] :
            \A x \in on : /\ is_root[x] /\ run_proc[x] # NULL => level[run_proc[x]] < level[x]
                          /\ ~is_root[x] => level[x] = level[parent[x]]
      BY <2>1 DEF Nested
    <3> DEFINE new == [x \in Build |-> IF x \in X THEN level[b] ELSE level[x]]
    <3>2. new \in [Build -> Nat] /\ b \notin X
      BY <1>3, <2>2, <2>4, <3>1
    <3>3. \A x \in Build : run_proc[x] # NULL => run_proc[x] \in Build \ X
      <4>1. \A p \in X \cap Proc : state[p] = "READY"
        BY <1>13, <2>4 DEF Active, Steady, Fits
      <4> QED BY <1>13, <4>1, BuildFacts DEF Active, Joins, CspTypeOK
    <3>4. ASSUME NEW x \in on
          PROVE  /\ is_root[x] /\ run_proc[x] # NULL => new[run_proc[x]] < new[x]
                 /\ ~is_root[x] => new[x] = new[parent[x]]
      <4>1. x \in Build /\ x \notin X
        BY <2>1, <2>4 DEF Runs
      <4>2. ~is_root[x] => parent[x] \in on /\ parent[x] \in Build /\ parent[x] \notin X
        BY <2>1, <2>4, <4>1 DEF Runs, Reaches
      <4> QED BY <3>1, <3>3, <4>1, <4>2
    <3>5. ASSUME NEW x \in X
          PROVE  ~is_root[x] /\ new[x] = new[parent[x]]
      <4>1. x \in Build /\ new[x] = level[b]
        BY <2>4
      <4>2. CASE x = c
        BY <1>3, <3>2, <4>1, <4>2
      <4>3. CASE x # c
        <5>1. parent[x] \in X /\ parent[x] \in Build /\ ~is_root[x]
          BY <2>4, <4>1, <4>3, BuildFacts DEF Shape
        <5> QED BY <4>1, <5>1
      <4> QED BY <4>2, <4>3
    <3> HIDE DEF new
    <3> QED BY <1>1, <3>2, <3>4, <3>5 DEF Nested, more
  <2> QED BY <2>6, <2>7, <2>8, <2>9, <2>10 DEF Active
<1> QED BY <1>5, <1>7, <1>8, <1>9, <1>11, <1>12, <1>13

\* What csp_cleanupbuild frees when the root is complete is a whole tree, whose
\* PROCs have all ended.
LEMMA WholeTree ==
  ASSUME Built, NEW b, b = parsing, b # NULL, is_root[b], BuildDone(b),
         NEW T, T = csp_cleanupbuild(b)
  PROVE  /\ b \in Build /\ b \in T /\ T \subseteq Build
         /\ \A x \in Build \ T : parent[x] \notin T /\ Kids(x) \cap T = {}
         /\ \A x \in T : x # b => ~is_root[x]
         /\ \A x \in T \cap Proc : x \in ended \/ x = freeing
<1> USE DEF Built
<1>1. b \in Build /\ type[b] # "FREE" /\ (b \in Proc => b = freeing) /\ parent[b] = NULL
  BY DEF Parses, CspTypeOK, Shape
<1>2. /\ b \in T /\ T \subseteq Build
      /\ T = {b} \cup UNION {csp_cleanupbuild(c) : c \in Kids(b)}
      /\ \A y \in T : Kids(y) \subseteq T /\ (y # b => parent[y] \in T)
  BY <1>1, CleanupFacts
<1>3. \A x \in Build \ T : parent[x] \notin T
  BY <1>2 DEF Shape
<1>4. ASSUME NEW x \in Build \ T, NEW c \in Kids(x) PROVE c \notin T
  <2>1. c \in Build /\ parent[c] = x
    BY KidFacts DEF Shape
  <2> QED BY <1>1, <1>2, <2>1, BuildFacts
<1>5. \A x \in T : x # b => ~is_root[x]
  BY <1>2, BuildFacts DEF Shape
<1>6. ASSUME NEW x \in T \cap Proc, x # b PROVE x \in ended
  <2>1. PICK c \in Kids(b) : x \in csp_cleanupbuild(c)
    BY <1>2, <1>6
  <2>2. b \in Comp /\ b \notin Proc
    <3>1. b \in Proc => Kids(b) = {}
      BY DEF Shape, Kids, Range
    <3> QED BY <1>1, <2>1, <3>1, BuildFacts
  <2>3. num_childs[b] = 1
    BY <2>2 DEF BuildDone, Shape
  <2>4. num_childs[b] = Cardinality(Todo(b)) + 1
    BY <2>2 DEF Counts
  <2>5. Todo(b) = {}
    BY <1>1, <2>3, <2>4, TodoFacts
  <2>6. Finished(c)
    BY <2>5 DEF Todo, Kids, Range
  <2>7. Complete(c)
    BY <1>1, <2>6, Allocated, FinishedFacts
  <2> QED BY <1>6, <2>1, <2>7 DEF Complete, Leaves
<1> QED BY <1>1, <1>2, <1>3, <1>4, <1>5, <1>6

\* Freeing a whole tree leaves the others as they are.
LEMMA RestStays ==
  ASSUME Built, NEW T, T \subseteq Build,
         \A x \in Build \ T : parent[x] \notin T /\ Kids(x) \cap T = {},
         type' = [x \in Build |-> IF x \in T THEN "FREE" ELSE type[x]],
         childQ' = [x \in Build |-> IF x \in T THEN <<>> ELSE childQ[x]],
         num_childs' = [x \in Build |-> IF x \in T THEN 0 ELSE num_childs[x]],
         ended' = ended \ T
  PROVE  /\ \A x \in T : Kids(x)' = {} /\ Todo(x)' = {} /\ childQ'[x] = <<>>
         /\ \A x \in Build \ T : /\ Kids(x)' = Kids(x) /\ (Finished(x)' <=> Finished(x))
                                 /\ Todo(x)' = Todo(x) /\ Pos(x)' = Pos(x) /\ Called(x)' = Called(x)
<1> USE DEF Built
<1>1. ASSUME NEW x \in T PROVE Kids(x)' = {} /\ Todo(x)' = {} /\ childQ'[x] = <<>>
  BY <1>1 DEF Kids, Todo, Range
<1>2. \A x \in Build \ T : /\ type'[x] = type[x] /\ childQ'[x] = childQ[x]
                           /\ num_childs'[x] = num_childs[x] /\ (x \in ended' <=> x \in ended)
  OBVIOUS
<1>3. \A x \in Build \ T : Kids(x)' = Kids(x) /\ Pos(x)' = Pos(x) /\ (Finished(x)' <=> Finished(x))
  BY <1>2 DEF Kids, Pos, Finished
<1>4. ASSUME NEW x \in Build \ T PROVE Todo(x)' = Todo(x)
  <2>1. \A i \in DOMAIN childQ[x] : childQ[x][i] \in Build \ T
    BY KidFacts
  <2>2. \A i \in DOMAIN childQ[x] : (Finished(childQ[x][i])' <=> Finished(childQ[x][i]))
    BY <1>2, <1>3, <2>1
  <2> QED BY <1>2, <2>2 DEF Todo
<1>5. ASSUME NEW x \in Build \ T PROVE Called(x)' = Called(x)
  BY <1>2, <1>3 DEF Called
<1> QED BY <1>1, <1>3, <1>4, <1>5

\* The trees that are left have the shape they had.
LEMMA RootShape ==
  ASSUME Built, NEW b, b = parsing, b # NULL, ParseRoot(b)
  PROVE  CspTypeOK' /\ Shape' /\ Ranked' /\ Counts'
<1> USE DEF Built
<1>1. PICK T : T = csp_cleanupbuild(b)
  OBVIOUS
<1>2. /\ BuildDone(b) /\ is_root[b]
      /\ type' = [x \in Build |-> IF x \in T THEN "FREE" ELSE type[x]]
      /\ childQ' = [x \in Build |-> IF x \in T THEN <<>> ELSE childQ[x]]
      /\ parent' = [x \in Build |-> IF x \in T THEN NULL ELSE parent[x]]
      /\ num_childs' = [x \in Build |-> IF x \in T THEN 0 ELSE num_childs[x]]
      /\ curr_build' = [x \in Build |-> IF x \in T THEN NULL ELSE curr_build[x]]
      /\ is_root' = [is_root EXCEPT ![b] = FALSE]
      /\ run_proc' = [run_proc EXCEPT ![b] = NULL]
      /\ ended' = ended \ T
      /\ parsing' = NULL
  BY <1>1 DEF ParseRoot
<1>3. /\ b \in Build /\ b \in T /\ T \subseteq Build
      /\ \A x \in Build \ T : parent[x] \notin T /\ Kids(x) \cap T = {}
      /\ \A x \in T : x # b => ~is_root[x]
  BY <1>1, <1>2, WholeTree
<1>4. /\ \A x \in T : Kids(x)' = {} /\ Todo(x)' = {} /\ childQ'[x] = <<>>
      /\ \A x \in Build \ T : Kids(x)' = Kids(x) /\ Todo(x)' = Todo(x) /\ Pos(x)' = Pos(x)
  BY <1>2, <1>3, RestStays
<1>5. \A x \in Build \ T : /\ type'[x] = type[x] /\ childQ'[x] = childQ[x] /\ parent'[x] = parent[x]
                           /\ num_childs'[x] = num_childs[x] /\ curr_build'[x] = curr_build[x]
  BY <1>2
<1>6. \A x \in T : type'[x] = "FREE" /\ parent'[x] = NULL /\ num_childs'[x] = 0
  BY <1>2, <1>3
<1>7. /\ \A x \in Build : is_root'[x] <=> is_root[x] /\ x # b
      /\ \A x \in Build : run_proc'[x] = IF x = b THEN NULL ELSE run_proc[x]
  BY <1>2 DEF CspTypeOK
<1>8. CspTypeOK'
  <2>1. childQ' \in [Build -> Seq(Build)]
    <3>1. <<>> \in Seq(Build)
      OBVIOUS
    <3> QED BY <1>2, <3>1 DEF CspTypeOK
  <2>2. /\ type' \in [Build -> {"FREE", "PROC_BUILD", "PAR_BUILD", "SEQ_BUILD"}]
        /\ parent' \in [Build -> Build \cup {NULL}] /\ num_childs' \in [Build -> Nat]
        /\ curr_build' \in [Build -> Build \cup {NULL}]
    BY <1>2 DEF CspTypeOK
  <2>3. /\ is_root' \in [Build -> BOOLEAN] /\ run_proc' \in [Build -> Proc \cup {NULL}]
        /\ parsing' \in Build \cup {NULL} /\ ended' \subseteq Proc
    BY <1>2 DEF CspTypeOK
  <2> QED BY <2>1, <2>2, <2>3 DEF CspTypeOK
<1>9. Shape'
  <2>1. \A x \in Proc : type'[x] \in {"FREE", "PROC_BUILD"} /\ childQ'[x] = <<>>
    BY <1>4, <1>5, <1>6, BuildFacts DEF Shape
  <2>2. \A x \in Comp : type'[x] # "PROC_BUILD" /\ (type'[x] = "FREE" <=> childQ'[x] = <<>>)
    BY <1>4, <1>5, <1>6, BuildFacts DEF Shape
  <2>3. \A x \in Build : IsInjective(childQ'[x])
    <3>1. IsInjective(<<>>)
      BY DEF IsInjective
    <3>2. \A x \in Build : IsInjective(childQ[x])
      BY DEF Shape
    <3> QED BY <1>4, <1>5, <3>1, <3>2
  <2>4. ASSUME NEW x \in Build, NEW c \in Build PROVE c \in Kids(x)' <=> parent'[c] = x
    <3>1. (c \in Kids(x) <=> parent[c] = x) /\ x # NULL
      BY BuildFacts DEF Shape
    <3>2. CASE x \in T
      BY <1>3, <1>4, <1>5, <1>6, <3>1, <3>2
    <3>3. CASE x \notin T
      BY <1>3, <1>4, <1>5, <1>6, <3>1, <3>3
    <3> QED BY <3>2, <3>3
  <2>5. ASSUME NEW x \in Build, type'[x] = "FREE" PROVE parent'[x] = NULL /\ ~is_root'[x] /\ x \notin ended'
    <3>1. CASE x \in T
      BY <1>2, <1>3, <1>6, <1>7, <3>1
    <3>2. CASE x \notin T
      BY <1>2, <1>5, <1>7, <2>5, <3>2 DEF Shape
    <3> QED BY <3>1, <3>2
  <2>6. \A x \in Build : is_root'[x] => parent'[x] = NULL
    BY <1>3, <1>5, <1>7 DEF Shape
  <2>7. \A x \in Build : ~is_root'[x] => run_proc'[x] = NULL
    BY <1>7 DEF Shape
  <2> QED BY <2>1, <2>2, <2>3, <2>4, <2>5, <2>6, <2>7 DEF Shape
<1>10. Ranked'
  <2>1. PICK n, rank : Falls(Build, AllKids, n, rank)
    BY DEF Ranked
  <2>2. \A x \in Build : Kids(x)' \subseteq Kids(x)
    BY <1>4
  <2>3. Falls(Build, AllKids, n, rank)'
    BY <2>1, <2>2 DEF Falls, AllKids
  <2> QED BY <2>3 DEF Ranked
<1>11. Counts'
  <2> SUFFICES ASSUME NEW x \in Comp
               PROVE  /\ num_childs'[x] = Cardinality(Todo(x)') + (IF parsing' = x THEN 1 ELSE 0)
                      /\ num_childs'[x] <= Len(childQ'[x])
                      /\ type'[x] = "SEQ_BUILD" => curr_build'[x] = childQ'[x][Pos(x)']
    BY DEF Counts
  <2>1. x \in Build /\ parsing' # x
    BY <1>2, BuildFacts
  <2>2. CASE x \in T
    <3>1. Cardinality(Todo(x)') = 0
      BY <1>4, <2>2, FS_EmptySet
    <3>2. Len(childQ'[x]) = 0
      BY <1>4, <2>2
    <3> QED BY <1>6, <2>1, <2>2, <3>1, <3>2
  <2>3. CASE x \notin T
    <3>1. x # b
      BY <1>3, <2>3
    <3> QED BY <1>4, <1>5, <2>1, <2>3, <3>1 DEF Counts
  <2> QED BY <2>2, <2>3
<1> QED BY <1>8, <1>9, <1>10, <1>11

\* The PROC that waits in RUN for the tree at b is parked: waking it is an
\* AddReady, and leaves no other PROC in or out of RUN.
LEMMA WakeFacts ==
  ASSUME BuildInv, Live, NEW b \in Build, b = parsing, WakesRunner(b)
  PROVE  /\ [AwakeNext]_schedVars
         /\ UNCHANGED <<started, totalQ, freeing, pc>>
         /\ \A p \in Proc : state'[p] = "RUNWAIT" <=> state[p] = "RUNWAIT" /\ p # run_proc[b]
<1> USE DEF BuildInv, Built, Active
<1>1. CASE run_proc[b] = NULL
  <2>1. UNCHANGED schedVars
    BY <1>1 DEF WakesRunner
  <2> QED BY <1>1, <2>1, BuildFacts DEF schedVars
<1>2. CASE run_proc[b] # NULL
  <2>1. PICK p : p = run_proc[b]
    OBVIOUS
  <2>2. p \in Proc /\ state[p] = "RUNWAIT" /\ Readies(<<p>>)
    BY <1>2, <2>1 DEF WakesRunner, CspTypeOK, Joins
  <2>3. pc = "free"
    BY BuildFacts DEF Parses, Live
  <2>4. p # freeing
    BY <2>2, <2>3 DEF Steady, Where
  <2>5. p \in Range(totalQ)
    BY <2>2, <2>4 DEF Steady, Queues, TotalQSound
  <2>6. p \in started
    BY <2>2, <2>5 DEF Steady, Fits
  <2>7. <<p>> \in Seq(Proc) /\ Range(<<p>>) = {p} /\ IsInjective(<<p>>) /\ <<p>> # <<>>
    BY <2>2, SingletonFacts
  <2>8. <<p>> \in Batches
    BY <2>7, ListIsBatch
  <2>9. Range(<<p>>) \subseteq Parked
    BY <2>2, <2>4, <2>5, <2>7 DEF Parked, Blocked
  <2>10. AddReady(<<p>>)
    BY <2>2, <2>3, <2>7, <2>9 DEF AddReady
  <2>11. AwakeNext
    BY <2>8, <2>10 DEF AwakeNext
  <2>12. UNCHANGED <<totalQ, freeing, pc>> /\ started' = started
    BY <2>2, <2>6, <2>7 DEF Readies, scheduler_addready
  <2>13. \A q \in Proc : state'[q] = IF q = p THEN "READY" ELSE state[q]
    BY <2>2, <2>7 DEF Readies, scheduler_addready
  <2> QED BY <2>1, <2>11, <2>12, <2>13
<1> QED BY <1>1, <1>2

\* At the root csp_parsebuild wakes the PROC in RUN and frees the tree.
LEMMA RootStep ==
  ASSUME BuildInv, NEW b, b = parsing, b # NULL, ParseRoot(b)
  PROVE  (Live => [AwakeNext]_schedVars) /\ BuildInv'
<1> USE DEF BuildInv, Built
<1>1. PICK T : T = csp_cleanupbuild(b)
  OBVIOUS
<1>2. /\ BuildDone(b) /\ is_root[b] /\ WakesRunner(b)
      /\ type' = [x \in Build |-> IF x \in T THEN "FREE" ELSE type[x]]
      /\ childQ' = [x \in Build |-> IF x \in T THEN <<>> ELSE childQ[x]]
      /\ parent' = [x \in Build |-> IF x \in T THEN NULL ELSE parent[x]]
      /\ num_childs' = [x \in Build |-> IF x \in T THEN 0 ELSE num_childs[x]]
      /\ curr_build' = [x \in Build |-> IF x \in T THEN NULL ELSE curr_build[x]]
      /\ is_root' = [is_root EXCEPT ![b] = FALSE]
      /\ run_proc' = [run_proc EXCEPT ![b] = NULL]
      /\ ended' = ended \ T
      /\ parsing' = NULL
  BY <1>1 DEF ParseRoot
<1>3. /\ b \in Build /\ b \in T /\ T \subseteq Build
      /\ \A x \in Build \ T : parent[x] \notin T /\ Kids(x) \cap T = {}
      /\ \A x \in T : x # b => ~is_root[x]
      /\ \A x \in T \cap Proc : x \in ended \/ x = freeing
  BY <1>1, <1>2, WholeTree
<1>4. \A x \in Build \ T : /\ Kids(x)' = Kids(x) /\ (Finished(x)' <=> Finished(x))
                           /\ Pos(x)' = Pos(x) /\ Called(x)' = Called(x)
  BY <1>2, <1>3, RestStays
<1>5. \A x \in Build \ T : /\ type'[x] = type[x] /\ childQ'[x] = childQ[x] /\ parent'[x] = parent[x]
                           /\ num_childs'[x] = num_childs[x] /\ curr_build'[x] = curr_build[x]
  BY <1>2
<1>6. \A x \in T : type'[x] = "FREE" /\ parent'[x] = NULL
  BY <1>2, <1>3
<1>7. /\ \A x \in Build : is_root'[x] <=> is_root[x] /\ x # b
      /\ \A x \in Build : run_proc'[x] = IF x = b THEN NULL ELSE run_proc[x]
  BY <1>2 DEF CspTypeOK
<1>8. CspTypeOK' /\ Shape' /\ Ranked' /\ Counts'
  BY RootShape
<1>9. TypeInv' /\ UNCHANGED <<pc, totalQ, freeing>>
  <2>1. CASE run_proc[b] = NULL
    BY <1>2, <2>1 DEF WakesRunner, schedVars, TypeInv, SchedTypeOK, Control
  <2>2. CASE run_proc[b] # NULL
    <3>1. run_proc[b] \in Proc /\ Readies(<<run_proc[b]>>)
      BY <1>2, <1>3, <2>2 DEF WakesRunner, CspTypeOK
    <3>2. <<run_proc[b]>> \in Seq(Proc)
      BY <3>1, SingletonFacts
    <3>3. TypeInv'
      BY <3>1, <3>2, ReadiesType
    <3> QED BY <3>1, <3>3 DEF Readies
  <2> QED BY <2>1, <2>2
<1>10. Parses'
  BY <1>2, <1>9, BuildFacts DEF Parses
<1>11. Live' <=> Live
  BY <1>9 DEF Live
<1>12. ASSUME Live PROVE [AwakeNext]_schedVars /\ Active'
  <2>1. /\ [AwakeNext]_schedVars /\ started' = started
        /\ \A p \in Proc : state'[p] = "RUNWAIT" <=> state[p] = "RUNWAIT" /\ p # run_proc[b]
    BY <1>2, <1>3, <1>12, WakeFacts
  <2>2. Steady'
    BY <1>11, <1>12, <2>1, AwakeStep DEF SInv, Active
  <2>3. Joins'
    <3>1. \A p \in Range(totalQ') \ {Main} : type'[p] # "FREE"
      <4> SUFFICES ASSUME NEW p \in Range(totalQ) \ {Main} PROVE type'[p] # "FREE"
        BY <1>9
      <4>1. p \in Proc /\ p \in Build
        BY BuildFacts, RangeOfSeq DEF TypeInv, SchedTypeOK
      <4>2. p \notin ended /\ p # freeing
        BY DEF Parses
      <4>3. p \notin T
        BY <1>3, <4>1, <4>2
      <4> QED BY <1>5, <1>12, <4>1, <4>3 DEF Active, Joins
    <3>2. ASSUME NEW p \in Proc PROVE state'[p] = "RUNWAIT" <=> \E x \in Build : run_proc'[x] = p
      <4>1. state[p] = "RUNWAIT" <=> \E x \in Build : run_proc[x] = p
        BY <1>12 DEF Active, Joins
      <4>2. \A x \in Build : run_proc[x] = run_proc[b] /\ run_proc[x] # NULL => x = b
        BY <1>3, <1>12 DEF Active, Joins
      <4>3. p # NULL
        BY BuildFacts
      <4> QED BY <1>7, <2>1, <4>1, <4>2, <4>3
    <3>3. \A x, y \in Build : run_proc'[x] = run_proc'[y] /\ run_proc'[x] # NULL => x = y
      BY <1>7, <1>12 DEF Active, Joins
    <3> QED BY <3>1, <3>2, <3>3 DEF Joins
  <2>4. PICK on : Runs(on) /\ Nested(on)
    BY <1>12 DEF Active
  <2> DEFINE rest == on \ T
  <2>5. Runs(rest)'
    <3>1. rest \subseteq Build
      BY <2>4 DEF Runs
    <3>2. Reaches(rest)'
      <4> SUFFICES ASSUME NEW x \in Build
                   PROVE  x \in rest <=> is_root'[x] \/ (parent'[x] \in rest /\ x \in Called(parent[x])')
        BY DEF Reaches
      <4>1. x \in on <=> is_root[x] \/ (parent[x] \in on /\ x \in Called(parent[x]))
        BY <2>4 DEF Runs, Reaches
      <4>2. CASE x \in T
        BY <1>3, <1>6, <1>7, <3>1, <4>2, BuildFacts
      <4>3. CASE x \notin T
        <5>1. parent[x] \notin T /\ x # b /\ parent'[x] = parent[x]
          BY <1>3, <1>5, <4>3
        <5>2. parent[x] \in on => Called(parent[x])' = Called(parent[x])
          BY <1>4, <2>4, <5>1 DEF Runs
        <5> QED BY <1>7, <4>1, <4>3, <5>1, <5>2
      <4> QED BY <4>2, <4>3
    <3>3. \A x \in Build : type'[x] # "FREE" /\ Finished(x)' => x \in rest
      BY <1>4, <1>5, <1>6, <2>4 DEF Runs
    <3>4. \A x \in Build : is_root'[x] => ~Finished(x)'
      BY <1>3, <1>4, <1>7, <2>4 DEF Runs
    <3>5. \A x \in Proc : type'[x] # "FREE" => /\ x \in rest <=> x \in started' \cup ended'
                                               /\ x \notin rest => x \in Range(totalQ')
      BY <1>2, <1>5, <1>6, <1>9, <2>1, <2>4, BuildFacts DEF Runs
    <3>6. ASSUME NEW x \in Comp, type'[x] = "SEQ_BUILD" PROVE InOrder(x)'
      <4>1. x \in Build \ T /\ x # b /\ x # NULL
        BY <1>3, <1>6, <3>6, BuildFacts
      <4>2. InOrder(x) /\ type[x] = "SEQ_BUILD"
        BY <1>5, <2>4, <3>6, <4>1 DEF Runs
      <4>3. Pos(x) \in 1..Len(childQ[x]) /\ Len(childQ[x]) \in Nat /\ curr_build[x] \in Kids(x)
        BY <4>1, <4>2, CurrentFacts, KidFacts
      <4>4. /\ curr_build[x] \in Build \ T
            /\ \A i \in 1..Pos(x) - 1 : childQ[x][i] \in Build \ T
        BY <1>3, <4>1, <4>3, KidFacts
      <4>5. \A i \in 1..Pos(x)' - 1 : Finished(childQ[x][i])'
        BY <1>4, <1>5, <4>1, <4>2, <4>4 DEF InOrder
      <4>6. num_childs'[x] # 0 => ~Finished(curr_build[x])'
        BY <1>4, <1>5, <4>1, <4>2, <4>4 DEF InOrder
      <4> QED BY <1>2, <4>1, <4>5, <4>6 DEF InOrder
    <3>7. freeing' # NULL /\ freeing' # parsing' /\ type'[freeing'] # "FREE" => freeing' \in ended'
      <4>1. freeing # NULL => freeing \in Build
        BY BuildFacts DEF TypeInv, SchedTypeOK
      <4> QED BY <1>2, <1>3, <1>5, <1>6, <1>9, <2>4, <4>1 DEF Runs
    <3> HIDE DEF rest
    <3> QED BY <1>2, <3>1, <3>2, <3>3, <3>4, <3>5, <3>6, <3>7 DEF Runs
  <2>6. Nested(rest)'
    <3>1. \A x \in rest : x \in Build \ T /\ x # b
      BY <1>3, <2>4 DEF Runs
    <3> HIDE DEF rest
    <3>2. \A x \in rest : /\ is_root'[x] <=> is_root[x]
                          /\ run_proc'[x] = run_proc[x] /\ parent'[x] = parent[x]
      BY <1>5, <1>7, <3>1
    <3>3. Nested(rest)
      BY <2>4 DEF Nested, rest
    <3> QED BY <3>2, <3>3 DEF Nested
  <2> QED BY <2>1, <2>2, <2>3, <2>5, <2>6 DEF Active
<1> QED BY <1>8, <1>9, <1>10, <1>11, <1>12

-----------------------------------------------------------------------------
(* Theorems *)

\* It holds when scheduler_run starts: there is no builder.
LEMMA CspStart == SchedInit /\ CspInit => BuildInv
<1> SUFFICES ASSUME SchedInit, CspInit PROVE BuildInv
  OBVIOUS
<1> USE DEF CspInit
<1>1. TypeInv /\ Steady
  BY SteadyInit DEF SInv, SchedInit, Live
<1>2. CspTypeOK
  BY DEF CspTypeOK
<1>3. \A x \in Build : Kids(x) = {} /\ Todo(x) = {}
  BY DEF Kids, Todo, Range
<1>4. Shape
  <2>1. IsInjective(<<>>)
    BY DEF IsInjective
  <2> QED BY <1>3, <2>1, BuildFacts DEF Shape
<1>5. Ranked
  <2> DEFINE rank == [x \in Build |-> 0]
  <2>1. Falls(Build, AllKids, 0, rank)
    BY <1>3 DEF Falls, AllKids
  <2> QED BY <2>1 DEF Ranked
<1>6. Counts
  <2>1. \A x \in Comp : Cardinality(Todo(x)) = 0 /\ Len(childQ[x]) = 0 /\ parsing # x
    BY <1>3, FS_EmptySet, BuildFacts
  <2> QED BY <2>1, BuildFacts DEF Counts
<1>7. totalQ = <<Main>> /\ Range(totalQ) = {Main} /\ IsInjective(totalQ) /\ freeing = NULL
  BY SingletonFacts, SchedAssumption DEF SchedInit
<1>8. Parses
  BY <1>7, BuildFacts DEF Parses
<1>9. Joins
  <2>1. \A p \in Proc : state[p] # "RUNWAIT"
    BY DEF SchedInit
  <2> QED BY <1>7, <2>1, BuildFacts DEF Joins
<1>10. Runs({})
  <2>1. Reaches({})
    BY DEF Reaches
  <2> QED BY <1>7, <2>1, BuildFacts DEF Runs
<1>11. Nested({})
  <2>1. [x \in Build |-> 0] \in [Build -> Nat]
    OBVIOUS
  <2> QED BY <2>1 DEF Nested
<1> QED BY <1>1, <1>2, <1>4, <1>5, <1>6, <1>8, <1>9, <1>10, <1>11 DEF BuildInv, Built, Active

\* Every step keeps the invariant and is one the scheduler is proved for.
LEMMA CspStep ==
  ASSUME BuildInv, [CspNext]_<<schedVars, cspVars>>
  PROVE  BuildInv' /\ (Live => [AwakeNext]_schedVars)
<1>1. CASE UNCHANGED <<schedVars, cspVars>>
  <2>1. SInv'
    BY <1>1, AwakeStep DEF BuildInv, Built, Active, SInv
  <2>2. UNCHANGED <<pc, state, totalQ, freeing, started>> /\ (Live' <=> Live)
    BY <1>1 DEF schedVars, Live
  <2>3. parsing # NULL => pc \in {"free", "tfree"}
    BY DEF BuildInv, Built, Parses
  <2> QED BY <1>1, <2>1, <2>2, <2>3, BuildersAside
<1>2. ASSUME NEW p \in Proc, proxc_proc(p) PROVE BuildInv' /\ AwakeNext
  BY <1>2, ProcStep DEF proxc_proc, AwakeNext, Stay
<1>3. ASSUME NEW b \in Comp, NEW t \in {"PAR_BUILD", "SEQ_BUILD"},
             NEW s \in SetToAllKPermutations({x \in Build : Loose(x)}) \ {<<>>},
             proxc_comp(b, t, s)
      PROVE  BuildInv' /\ UNCHANGED schedVars
  BY <1>3, CompStep DEF proxc_comp
<1>4. ASSUME NEW b \in Build, proxc_go(b) \/ proxc_run(b) PROVE BuildInv' /\ [AwakeNext]_schedVars
  BY <1>4, LaunchStep
<1>5. ASSUME StartFree PROVE BuildInv' /\ AwakeNext
  BY <1>5, StartFreeStep DEF StartFree, AwakeNext, SchedStep
<1>6. ASSUME csp_parsebuild PROVE BuildInv' /\ (Live => [AwakeNext]_schedVars)
  <2>1. parsing # NULL
    BY <1>6 DEF csp_parsebuild
  <2>2. CASE ParsePar(parsing)
    BY <2>1, <2>2, ParStep DEF ParsePar
  <2>3. CASE ParseSeq(parsing)
    BY <2>1, <2>3, SeqStep
  <2>4. CASE ParseUp(parsing)
    BY <2>1, <2>4, UpStep
  <2>5. CASE ParseRoot(parsing)
    BY <2>1, <2>5, RootStep
  <2> QED BY <1>6, <2>2, <2>3, <2>4, <2>5 DEF csp_parsebuild
<1>7. ASSUME EndFree PROVE BuildInv' /\ AwakeNext
  BY <1>7, EndFreeStep DEF EndFree, AwakeNext, SchedStep
<1>8. ASSUME CspOtherStep PROVE BuildInv' /\ [AwakeNext]_schedVars
  BY <1>8, OtherKeeps, OtherSched
<1> QED BY <1>1, <1>2, <1>3, <1>4, <1>5, <1>6, <1>7, <1>8 DEF CspNext

\* Every variable of csp.c keeps its type; in particular the counters stay
\* natural numbers, whatever csp_parsebuild is called on.
THEOREM CspTypeCorrect == CspSpec => []CspTypeOK
<1>1. BuildInv => CspTypeOK
  BY DEF BuildInv, Built
<1> QED BY <1>1, CspStart, CspStep, PTL DEF CspSpec

\* Builders are freed with their whole tree, and the PROCs that scheduler_run
\* knows have their builders: csp_parsebuild never climbs into freed memory.
THEOREM BuildersAllocated == CspSpec => []ParentsAllocated
<1>1. BuildInv => ParentsAllocated
  BY ParentsRight
<1> QED BY <1>1, CspStart, CspStep, PTL DEF CspSpec

\* Between two calls of csp_parsebuild num_childs is the number of children
\* that are not complete, in every builder of every tree that was run.
THEOREM CountersRight == CspSpec => []CountsChildren
<1>1. BuildInv => CountsChildren
  BY CountsRight
<1> QED BY <1>1, CspStart, CspStep, PTL DEF CspSpec

\* csp_runbuild and csp_parsebuild start the PROCs that PAR and SEQ ask for,
\* none too early and none forgotten, however they are nested.
THEOREM StartsExactlyDue == CspSpec => []StartsWhatIsDue
<1>1. BuildInv => StartsWhatIsDue
  BY StartsRight
<1> QED BY <1>1, CspStart, CspStep, PTL DEF CspSpec

\* A PROC waits in RUN as long as its tree is unfinished, and no longer.
THEOREM RunJoins == CspSpec => []JoinsItsTree
<1>1. BuildInv => JoinsItsTree
  BY JoinsRight
<1> QED BY <1>1, CspStart, CspStep, PTL DEF CspSpec

\* While scheduler_run is running, what csp.c hands to scheduler_addready meets
\* the scheduler's preconditions: the queues partition the PROCs under RUN, GO
\* and the SEQs that csp_parsebuild continues, too.
THEOREM BuildersKeepScheduler == CspSpec => CspKeepsScheduler /\ []Placement
<1>1. BuildInv /\ [CspNext]_<<schedVars, cspVars>> => [Live => SchedNext]_schedVars
  BY CspStep, SleepOrAwake
<1>2. BuildInv /\ [CspNext]_<<schedVars, cspVars>> => BuildInv'
  BY CspStep
<1>3. BuildInv => Placement
  BY DEF BuildInv, Active, Steady, Queues, Placement
<1> QED BY <1>1, <1>2, <1>3, CspStart, PTL DEF CspSpec, CspKeepsScheduler
=============================================================================
