--------------------------- MODULE SleepTreeProofs ---------------------------
(***************************************************************************)
(* What the timer trees promise for any number of nodes and any keys: the  *)
(* pointer surgery and the recolouring of tree.h keep a balanced search    *)
(* tree, and the tree implements TimerSet.                                 *)
(***************************************************************************)
EXTENDS SleepTree, Loops, FiniteSetTheorems

-----------------------------------------------------------------------------
(* Assignments *)

LEMMA Sides ==
  /\ "left" \in Side /\ "right" \in Side /\ "left" # "right"
  /\ \A s \in Side : /\ Opposite(s) \in Side /\ Opposite(s) # s /\ Opposite(Opposite(s)) = s
                     /\ \A x \in Side : x = s \/ x = Opposite(s)
BY DEF Side, Opposite

\* What a link can be.
Link == Node \cup {NULL}

SetKid(t, s, n, c) == [t EXCEPT !.kid[s][n] = c]

\* u is t after an assignment to a link, a parent pointer or a colour.
KidSet(t, u, s, n, c) ==
  /\ u \in Tree /\ u.root = t.root /\ u.parent = t.parent /\ u.color = t.color
  /\ u.kid[s][n] = c
  /\ \A x \in Side, m \in Node : x # s \/ m # n => u.kid[x][m] = t.kid[x][m]

ParentSet(t, u, n, p) ==
  /\ u \in Tree /\ u.root = t.root /\ u.kid = t.kid /\ u.color = t.color
  /\ n # NULL => u.parent[n] = p
  /\ \A m \in Node : m # n => u.parent[m] = t.parent[m]

Painted(t, u, n, c) ==
  /\ u \in Tree /\ u.root = t.root /\ u.kid = t.kid /\ u.parent = t.parent
  /\ u.color[n] = c
  /\ \A m \in Node : m # n => u.color[m] = t.color[m]

\* ... after the pointer of p on side s, or the root pointer, is set to n.
Relinked(t, u, p, s, n) ==
  /\ u \in Tree /\ u.parent = t.parent /\ u.color = t.color
  /\ p = NULL => u.root = n /\ u.kid = t.kid
  /\ p # NULL => KidSet(t, u, s, p, n)

LEMMA SetKidFacts ==
  ASSUME NEW t \in Tree, NEW s \in Side, NEW n \in Node, NEW c \in Link
  PROVE  KidSet(t, SetKid(t, s, n, c), s, n, c)
BY DEF SetKid, Tree, Link, KidSet

LEMMA SetParentFacts ==
  ASSUME NEW t \in Tree, NEW n \in Link, NEW p \in Link
  PROVE  ParentSet(t, SetParent(t, n, p), n, p)
BY RBAssumption DEF SetParent, Tree, Link, ParentSet

LEMMA PaintFacts ==
  ASSUME NEW t \in Tree, NEW n \in Node, NEW c \in Color
  PROVE  Painted(t, Paint(t, n, c), n, c)
BY DEF Paint, Tree, Painted

LEMMA RelinkFacts ==
  ASSUME NEW t \in Tree, NEW p \in Link, NEW old \in Node, NEW n \in Link
  PROVE  /\ Relinked(t, Relink(t, p, old, n), p, SideOf(t, p, old), n)
         /\ SideOf(t, p, old) \in Side
<1>1. SideOf(t, p, old) \in Side
  BY Sides DEF SideOf
<1>2. CASE p = NULL
  BY <1>1, <1>2, RBAssumption DEF Relink, Relinked, Tree, Link
<1>3. CASE p # NULL
  <2>1. Relink(t, p, old, n) = SetKid(t, SideOf(t, p, old), p, n) /\ p \in Node
    BY <1>3 DEF Relink, SetKid, Link
  <2>2. KidSet(t, Relink(t, p, old, n), SideOf(t, p, old), p, n)
    BY <1>1, <2>1, SetKidFacts
  <2> QED BY <1>1, <1>3, <2>2 DEF Relinked, KidSet
<1> QED BY <1>2, <1>3

\* Where RB_ROTATE takes place: tmp hangs below elm, inner changes sides, p is
\* above on side sp.
Pivot(t, s, elm, tmp, inner, p, sp) ==
  /\ elm \in Node /\ tmp \in Node /\ s \in Side
  /\ tmp = t.kid[Opposite(s)][elm] /\ inner = t.kid[s][tmp]
  /\ p = t.parent[elm] /\ sp = SideOf(t, p, elm)
  /\ elm # tmp /\ p # elm /\ p # tmp /\ inner # elm /\ inner # tmp

\* What it does to each link.
Rotated(t, u, s, elm, tmp, inner, p, sp) ==
  /\ u \in Tree /\ u.color = t.color
  /\ p = NULL => u.root = tmp
  /\ p # NULL => u.root = t.root /\ u.kid[sp][p] = tmp
  /\ u.kid[Opposite(s)][elm] = inner /\ u.kid[s][tmp] = elm
  /\ \A x \in Side, m \in Node :
       ~(x = Opposite(s) /\ m = elm) /\ ~(x = s /\ m = tmp) /\ ~(x = sp /\ m = p) => u.kid[x][m] = t.kid[x][m]
  /\ u.parent[tmp] = p /\ u.parent[elm] = tmp
  /\ inner # NULL => u.parent[inner] = elm
  /\ \A m \in Node : m \notin {tmp, elm, inner} => u.parent[m] = t.parent[m]

LEMMA RotateFacts ==
  ASSUME NEW t \in Tree, NEW s, NEW elm, NEW tmp, NEW inner, NEW p, NEW sp,
         Pivot(t, s, elm, tmp, inner, p, sp)
  PROVE  Rotated(t, Rotate(t, s, elm), s, elm, tmp, inner, p, sp)
<1>1. PICK o : o = Opposite(s)
  OBVIOUS
<1>2. /\ elm \in Node /\ tmp \in Node /\ s \in Side /\ o \in Side /\ o # s
      /\ inner \in Link /\ p \in Link /\ elm \in Link /\ tmp \in Link
      /\ elm # tmp /\ p # elm /\ p # tmp /\ inner # elm /\ inner # tmp /\ elm # NULL /\ tmp # NULL
  BY <1>1, Sides, RBAssumption DEF Pivot, Tree, Link
<1> DEFINE a == SetKid(t, o, elm, inner)
           b == SetParent(a, inner, elm)
           c == SetParent(b, tmp, p)
           d == Relink(c, p, elm, tmp)
           e == SetKid(d, s, tmp, elm)
           v == SetParent(e, elm, tmp)
<1>3. Rotate(t, s, elm) = v
  BY <1>1 DEF Rotate, SetKid, Pivot
<1>4. KidSet(t, a, o, elm, inner)
  BY <1>2, SetKidFacts
<1> HIDE DEF a
<1>5. ParentSet(a, b, inner, elm)
  BY <1>2, <1>4, SetParentFacts DEF KidSet
<1> HIDE DEF b
<1>6. ParentSet(b, c, tmp, p)
  BY <1>2, <1>5, SetParentFacts DEF ParentSet
<1> HIDE DEF c
<1>7. p # NULL => SideOf(c, p, elm) = sp /\ sp \in Side
  <2> SUFFICES ASSUME p # NULL PROVE SideOf(c, p, elm) = sp /\ sp \in Side
    OBVIOUS
  <2>1. c.kid["left"][p] = t.kid["left"][p]
    BY <1>2, <1>4, <1>5, <1>6, Sides DEF Link, KidSet, ParentSet
  <2> QED BY <2>1, Sides DEF SideOf, Pivot
<1>8. Relinked(c, d, p, sp, tmp)
  <2>1. Relinked(c, d, p, SideOf(c, p, elm), tmp)
    BY <1>2, <1>6, RelinkFacts DEF ParentSet
  <2> HIDE DEF d
  <2> QED BY <2>1, <1>7 DEF Relinked
<1> HIDE DEF d
<1>9. KidSet(d, e, s, tmp, elm)
  BY <1>2, <1>8, SetKidFacts DEF Relinked
<1> HIDE DEF e
<1>10. ParentSet(e, v, elm, tmp)
  BY <1>2, <1>9, SetParentFacts DEF KidSet
<1> HIDE DEF v
<1>11. /\ v \in Tree /\ v.color = t.color
       /\ p = NULL => v.root = tmp
       /\ p # NULL => v.root = t.root /\ v.kid[sp][p] = tmp
       /\ v.kid[o][elm] = inner /\ v.kid[s][tmp] = elm
  BY <1>2, <1>4, <1>5, <1>6, <1>7, <1>8, <1>9, <1>10 DEF Link, KidSet, ParentSet, Relinked
<1>12. ASSUME NEW x \in Side, NEW m \in Node,
              ~(x = o /\ m = elm), ~(x = s /\ m = tmp), ~(x = sp /\ m = p)
       PROVE  v.kid[x][m] = t.kid[x][m]
  BY <1>2, <1>4, <1>5, <1>6, <1>7, <1>8, <1>9, <1>10, <1>12 DEF Link, KidSet, ParentSet, Relinked
<1>13. /\ v.parent[tmp] = p /\ v.parent[elm] = tmp
       /\ inner # NULL => v.parent[inner] = elm
       /\ \A m \in Node : m \notin {tmp, elm, inner} => v.parent[m] = t.parent[m]
  BY <1>2, <1>4, <1>5, <1>6, <1>8, <1>9, <1>10 DEF Link, KidSet, ParentSet, Relinked
<1> QED BY <1>1, <1>3, <1>11, <1>12, <1>13 DEF Rotated

-----------------------------------------------------------------------------
(* Search trees *)

\* a comes before b, seen from the side s.
Less(s, a, b) == IF s = "left" THEN a < b ELSE b < a

\* sub gives each node its subtree; a missing child has none.
Sub(sub, c) == IF c = NULL THEN {} ELSE sub[c]

\* The links of t connect the nodes of S, in both directions.
Joints(t, S) ==
  /\ \A n \in S, s \in Side : t.kid[s][n] # NULL => t.kid[s][n] \in S /\ t.parent[t.kid[s][n]] = n
  /\ \A n \in S : n # t.root => t.parent[n] \in S /\ \E s \in Side : t.kid[s][t.parent[n]] = n

\* sub are the subtrees.
Subtrees(t, S, sub) ==
  \A n \in S, m \in Node : m \in sub[n] <=> m = n \/ \E s \in Side : m \in Sub(sub, t.kid[s][n])

Sorted(t, key_, S, sub) ==
  \A n \in S, s \in Side, m \in Node : m \in Sub(sub, t.kid[s][n]) => Less(s, key_[m], key_[n])

\* t is a search tree of the nodes S with the subtrees sub.
Shape(t, key_, S, sub) ==
  /\ t \in Tree /\ key_ \in [Node -> Nat] /\ S \subseteq Node /\ sub \in [Node -> SUBSET Node]
  /\ t.root \in S \cup {NULL} /\ Sub(sub, t.root) = S
  /\ t.root # NULL => t.parent[t.root] = NULL
  /\ Joints(t, S)
  /\ Subtrees(t, S, sub)
  /\ Sorted(t, key_, S, sub)

LEMMA LessFacts ==
  ASSUME NEW s \in Side, NEW a \in Nat, NEW b \in Nat, NEW c \in Nat
  PROVE  /\ ~Less(s, a, a)
         /\ ~(Less(s, a, b) /\ Less(s, b, a))
         /\ Less(s, a, b) <=> Less(Opposite(s), b, a)
         /\ Less(s, a, b) /\ Less(s, b, c) => Less(s, a, c)
         /\ a # b => Less(s, a, b) \/ Less(s, b, a)
BY DEF Less, Side, Opposite

\* What a node and its children have to do with each other.
LEMMA KidFacts ==
  ASSUME NEW t, NEW key_, NEW S, NEW sub, Shape(t, key_, S, sub), NEW n \in S, NEW s \in Side
  PROVE  /\ n \in Node /\ n # NULL /\ t.kid[s][n] \in Link /\ n \in sub[n]
         /\ n \notin Sub(sub, t.kid[s][n]) /\ Sub(sub, t.kid[s][n]) \subseteq sub[n]
         /\ Sub(sub, t.kid[s][n]) \cap Sub(sub, t.kid[Opposite(s)][n]) = {}
         /\ t.kid[s][n] # n
         /\ t.kid[s][n] # NULL => /\ t.kid[s][n] \in S /\ t.kid[s][n] \in Node
                                  /\ t.parent[t.kid[s][n]] = n
                                  /\ t.kid[s][n] \in sub[t.kid[s][n]]
                                  /\ t.kid[Opposite(s)][n] # t.kid[s][n]
                                  /\ t.kid[s][n] # t.root
<1> USE DEF Shape
<1>1. n \in Node /\ n # NULL /\ t.kid[s][n] \in Link /\ n \in sub[n]
  BY RBAssumption DEF Tree, Link, Subtrees
<1>2. n \notin Sub(sub, t.kid[s][n])
  BY <1>1, LessFacts DEF Sorted
<1>3. Sub(sub, t.kid[s][n]) \subseteq sub[n]
  <2>1. Sub(sub, t.kid[s][n]) \subseteq Node
    BY <1>1 DEF Sub, Link
  <2> QED BY <1>1, <2>1 DEF Subtrees
<1>4. ASSUME NEW m \in Sub(sub, t.kid[s][n]), m \in Sub(sub, t.kid[Opposite(s)][n]) PROVE FALSE
  <2>1. m \in Node
    BY <1>1, <1>3
  <2>2. Less(s, key_[m], key_[n]) /\ Less(Opposite(s), key_[m], key_[n])
    BY <2>1, <1>4, Sides DEF Sorted
  <2> QED BY <2>1, <2>2, <1>1, LessFacts
<1>5. ASSUME t.kid[s][n] # NULL
      PROVE  /\ t.kid[s][n] \in S /\ t.kid[s][n] \in Node
             /\ t.parent[t.kid[s][n]] = n
             /\ t.kid[s][n] \in sub[t.kid[s][n]]
             /\ t.kid[Opposite(s)][n] # t.kid[s][n]
             /\ t.kid[s][n] # t.root
             /\ t.kid[s][n] # n
  <2>1. t.kid[s][n] \in S /\ t.kid[s][n] \in Node /\ t.parent[t.kid[s][n]] = n
    BY <1>1, <1>5 DEF Joints
  <2>2. t.kid[s][n] \in sub[t.kid[s][n]]
    BY <2>1 DEF Subtrees
  <2>3. t.kid[s][n] # n
    BY <1>2, <1>5, <2>2, <1>1 DEF Sub
  <2>4. t.kid[s][n] \in Sub(sub, t.kid[s][n])
    BY <2>2, <1>5 DEF Sub
  <2>5. t.kid[Opposite(s)][n] # t.kid[s][n]
    BY <1>4, <2>4
  <2>6. t.kid[s][n] # t.root
    BY <1>1, <2>1, <1>5
  <2> QED BY <2>1, <2>2, <2>3, <2>5, <2>6
<1>6. t.kid[s][n] # n
  BY <1>1, <1>5
<1>7. Sub(sub, t.kid[s][n]) \cap Sub(sub, t.kid[Opposite(s)][n]) = {}
  BY <1>4
<1> QED BY <1>1, <1>2, <1>3, <1>5, <1>6, <1>7

LEMMA Sizes ==
  ASSUME NEW A \in SUBSET Node, NEW B \in SUBSET Node
  PROVE  /\ IsFiniteSet(A) /\ Cardinality(A) \in Nat /\ Cardinality(A) <= Cardinality(Node)
         /\ A \subseteq B => Cardinality(A) <= Cardinality(B)
         /\ A \subseteq B /\ A # B => Cardinality(A) < Cardinality(B)
         /\ A # {} => Cardinality(A) > 0
<1>1. IsFiniteSet(A) /\ IsFiniteSet(B) /\ Cardinality(A) \in Nat /\ Cardinality(B) \in Nat
  BY RBAssumption, FS_Subset, FS_CardinalityType
<1>2. Cardinality(A) <= Cardinality(Node)
  BY RBAssumption, FS_Subset
<1>3. A \subseteq B => Cardinality(A) <= Cardinality(B) /\ (Cardinality(A) = Cardinality(B) => A = B)
  BY <1>1, FS_Subset
<1>4. A # {} => Cardinality(A) # 0
  BY <1>1, FS_EmptySet
<1> QED BY <1>1, <1>2, <1>3, <1>4

\* Children have smaller subtrees.
LEMMA KidsSmaller ==
  ASSUME NEW t, NEW key_, NEW S, NEW sub, Shape(t, key_, S, sub), NEW n \in S, NEW s \in Side,
         t.kid[s][n] # NULL
  PROVE  /\ sub[t.kid[s][n]] \subseteq sub[n] /\ sub[t.kid[s][n]] \in SUBSET Node /\ sub[n] \in SUBSET Node
         /\ Cardinality(sub[t.kid[s][n]]) < Cardinality(sub[n])
<1>1. /\ sub[t.kid[s][n]] \subseteq sub[n] /\ sub[t.kid[s][n]] # sub[n] /\ t.kid[s][n] \in Node
      /\ n \in Node
  BY KidFacts DEF Sub
<1>2. sub[t.kid[s][n]] \in SUBSET Node /\ sub[n] \in SUBSET Node
  BY <1>1 DEF Shape
<1> QED BY <1>1, <1>2, Sizes

\* Induction from the leaves to the root, and from the root to the leaves.
LEMMA FromKids ==
  ASSUME NEW t, NEW key_, NEW S, NEW sub, Shape(t, key_, S, sub), NEW G,
         \A n \in S : (\A s \in Side : t.kid[s][n] # NULL => t.kid[s][n] \in G) => n \in G
  PROVE  S \subseteq G
<1> DEFINE Bad == {Cardinality(sub[n]) : n \in S \ G}
<1>1. \A n \in S : sub[n] \in SUBSET Node /\ Cardinality(sub[n]) \in Nat
  BY Sizes DEF Shape
<1>2. ASSUME Bad # {} PROVE FALSE
  <2>1. Bad \in SUBSET Nat
    BY <1>1
  <2>2. PICK k \in Bad : \A y \in Bad : k <= y
    <3> HIDE DEF Bad
    <3> QED BY <1>2, <2>1, NatMin
  <2>3. PICK n \in S \ G : k = Cardinality(sub[n])
    OBVIOUS
  <2>4. ASSUME NEW s \in Side, t.kid[s][n] # NULL PROVE t.kid[s][n] \in G
    <3>1. t.kid[s][n] \in S /\ Cardinality(sub[t.kid[s][n]]) < Cardinality(sub[n])
      BY <2>3, <2>4, KidFacts, KidsSmaller
    <3>2. t.kid[s][n] \notin G => Cardinality(sub[t.kid[s][n]]) \in Bad
      BY <3>1
    <3> HIDE DEF Bad
    <3> QED BY <3>1, <3>2, <2>1, <2>2, <2>3, <1>1
  <2> QED BY <2>3, <2>4
<1> QED BY <1>2

LEMMA FromRoot ==
  ASSUME NEW t, NEW key_, NEW S, NEW sub, Shape(t, key_, S, sub), NEW G,
         t.root # NULL => t.root \in G,
         \A n \in S, s \in Side : n \in G /\ t.kid[s][n] # NULL => t.kid[s][n] \in G
  PROVE  S \subseteq G
<1> DEFINE Bad == {Cardinality(Node) - Cardinality(sub[n]) : n \in S \ G}
<1>0. Cardinality(Node) \in Nat
  BY Sizes
<1>1. \A n \in S : sub[n] \in SUBSET Node /\ Cardinality(sub[n]) \in Nat /\ Cardinality(sub[n]) <= Cardinality(Node)
  BY Sizes DEF Shape
<1>2. ASSUME Bad # {} PROVE FALSE
  <2>1. Bad \in SUBSET Nat
    BY <1>0, <1>1
  <2>2. PICK k \in Bad : \A y \in Bad : k <= y
    <3> HIDE DEF Bad
    <3> QED BY <1>2, <2>1, NatMin
  <2>3. PICK n \in S \ G : k = Cardinality(Node) - Cardinality(sub[n])
    OBVIOUS
  <2>4. n # t.root
    BY <2>3, RBAssumption DEF Shape
  <2>5. PICK s \in Side : t.parent[n] \in S /\ t.kid[s][t.parent[n]] = n
    BY <2>3, <2>4 DEF Shape, Joints
  <2>6. Cardinality(sub[n]) < Cardinality(sub[t.parent[n]]) /\ n # NULL
    BY <2>5, <2>3, KidsSmaller, KidFacts
  <2>7. t.parent[n] \notin G
    BY <2>3, <2>5, <2>6
  <2>8. Cardinality(Node) - Cardinality(sub[t.parent[n]]) \in Bad
    BY <2>5, <2>7
  <2> HIDE DEF Bad
  <2> QED BY <2>1, <2>2, <2>3, <2>5, <2>6, <2>8, <1>0, <1>1
<1> QED BY <1>2

\* Subtrees are nested.
LEMMA SubsNested ==
  ASSUME NEW t, NEW key_, NEW S, NEW sub, Shape(t, key_, S, sub)
  PROVE  \A n \in S : sub[n] \subseteq S /\ \A m \in sub[n] : sub[m] \subseteq sub[n]
<1> DEFINE G == {n \in S : sub[n] \subseteq S /\ \A m \in sub[n] : sub[m] \subseteq sub[n]}
<1>1. ASSUME NEW n \in S, \A s \in Side : t.kid[s][n] # NULL => t.kid[s][n] \in G
      PROVE  n \in G
  <2>1. \A m \in sub[n] : m = n \/ \E s \in Side : t.kid[s][n] # NULL /\ m \in sub[t.kid[s][n]]
    BY DEF Shape, Subtrees, Sub
  <2>2. ASSUME NEW m \in sub[n] PROVE m \in S /\ sub[m] \subseteq sub[n]
    <3>1. CASE m = n
      BY <3>1
    <3>2. CASE m # n
      <4>1. PICK s \in Side : t.kid[s][n] # NULL /\ m \in sub[t.kid[s][n]]
        BY <3>2, <2>1
      <4>2. sub[t.kid[s][n]] \subseteq sub[n]
        BY <4>1, KidsSmaller
      <4> QED BY <1>1, <4>1, <4>2
    <3> QED BY <3>1, <3>2
  <2> QED BY <2>2
<1> HIDE DEF G
<1>2. S \subseteq G
  BY <1>1, FromKids
<1> QED BY <1>2 DEF G

-----------------------------------------------------------------------------
(* The subtrees of the specification *)

\* What holds a node and the children of all it holds, holds its subtree.
LEMMA ClosedHolds ==
  ASSUME NEW t, NEW key_, NEW S, NEW sub, Shape(t, key_, S, sub), NEW T,
         \A n \in S, s \in Side : n \in T /\ t.kid[s][n] # NULL => t.kid[s][n] \in T
  PROVE  \A n \in S : n \in T => sub[n] \subseteq T
<1> DEFINE G == {n \in S : n \in T => sub[n] \subseteq T}
<1>1. ASSUME NEW n \in S, \A s \in Side : t.kid[s][n] # NULL => t.kid[s][n] \in G
      PROVE  n \in G
  <2>1. \A m \in sub[n] : m = n \/ \E s \in Side : t.kid[s][n] # NULL /\ m \in sub[t.kid[s][n]]
    BY DEF Shape, Subtrees, Sub
  <2> QED BY <1>1, <2>1
<1> HIDE DEF G
<1>2. S \subseteq G
  BY <1>1, FromKids
<1> QED BY <1>2 DEF G

\* Below computes it.
LEMMA BelowIsSub ==
  ASSUME NEW t, NEW key_, NEW S, NEW sub, Shape(t, key_, S, sub), NEW n \in S \cup {NULL}
  PROVE  Below(t, n) = Sub(sub, n)
<1> DEFINE N == Cardinality(Node)
           step(T) == T \cup Kids(t, T)
           a == {n} \ {NULL}
           it == CHOOSE it : it = [i \in 0..N |-> IF i = 0 THEN a ELSE step(it[i - 1])]
           X == {T \in SUBSET Sub(sub, n) : n = NULL \/ n \in T}
           g == [T \in X |-> step(T)]
           D == {T \in X : step(T) = T}
           m == [T \in X |-> IF n = NULL THEN N ELSE Cardinality(T)]
<1>1. N \in Nat
  BY Sizes
<1>2. Below(t, n) = it[N]
  BY DEF Below, Loop
<1>3. Sub(sub, n) \subseteq S /\ S \subseteq Node /\ (n # NULL => n \in Sub(sub, n) /\ n \in S)
  BY SubsNested, KidFacts, Sides DEF Sub, Shape
<1>4. ASSUME NEW T \in X PROVE step(T) \in X
  <2>1. ASSUME NEW s \in Side, NEW k \in T, t.kid[s][k] # NULL PROVE t.kid[s][k] \in Sub(sub, n)
    <3>1. k \in S /\ k \in Sub(sub, n) /\ n # NULL /\ k \in sub[n] /\ n \in S
      BY <1>3 DEF Sub
    <3>2. sub[k] \subseteq sub[n]
      BY <3>1, SubsNested
    <3>3. t.kid[s][k] \in sub[k]
      BY <3>1, <2>1, KidFacts, KidsSmaller
    <3> QED BY <3>1, <3>2, <3>3 DEF Sub
  <2> QED BY <2>1 DEF Kids
<1>5. a \in X
  BY <1>3
<1>6. \A T \in X : T \in SUBSET Node
  BY <1>3
<1>7. ASSUME NEW T \in X
      PROVE  (T \in D => g[T] \in D) /\ (T \notin D => g[T] \in D \/ m[g[T]] > m[T])
  <2>1. g[T] = step(T) /\ step(T) \in X /\ T \subseteq step(T)
    BY <1>4
  <2>2. CASE T \in D
    BY <2>1, <2>2
  <2>3. CASE T \notin D
    <3>1. n # NULL
      <4>1. n = NULL => T = {}
        BY DEF Sub
      <4> QED BY <4>1, <2>3 DEF Kids
    <3>2. step(T) # T /\ T \in SUBSET Node /\ step(T) \in SUBSET Node
      BY <2>1, <2>3, <1>6
    <3>3. Cardinality(step(T)) > Cardinality(T)
      <4> HIDE DEF step
      <4> QED BY <2>1, <3>2, Sizes
    <3> QED BY <2>1, <2>3, <3>1, <3>3
  <2> QED BY <2>2, <2>3
<1>8. Progress(X, D, N, g, m)
  <2>1. \A T \in X : Cardinality(T) \in Nat /\ Cardinality(T) <= N
    BY <1>6, Sizes
  <2>2. g \in [X -> X] /\ m \in [X -> Nat] /\ \A T \in X : m[T] <= N
    <3> HIDE DEF X, step
    <3> QED BY <1>1, <1>4, <2>1
  <2> HIDE DEF X, step, D, g, m
  <2> QED BY <2>2, <1>7 DEF Progress
<1>9. m[a] > 0 \/ n = NULL
  <2>1. n # NULL => Cardinality(a) > 0
    BY <1>3, Sizes
  <2> QED BY <2>1, <1>5
<1> HIDE DEF N, step, a, X, D, g, m
<1>10. PICK f : f \in [0..N -> X] /\ f[0] = a /\ Rounds(f, X, N, g)
  BY <1>1, <1>5, <1>8, Repeats DEF Progress
<1>11. f = [i \in 0..N |-> IF i = 0 THEN a ELSE step(f[i - 1])]
  <2>1. ASSUME NEW i \in 0..N, i # 0 PROVE f[i] = step(f[i - 1])
    <3>1. i \in 1..N /\ i - 1 \in 0..N
      BY <1>1, <2>1
    <3>2. f[i - 1] \in X /\ f[i] = g[f[i - 1]]
      BY <1>10, <3>1 DEF Rounds
    <3> QED BY <3>2 DEF g
  <2>2. \A i \in 0..N : f[i] = IF i = 0 THEN a ELSE step(f[i - 1])
    BY <1>10, <2>1
  <2> QED BY <1>10, <2>2
<1>12. it = [i \in 0..N |-> IF i = 0 THEN a ELSE step(it[i - 1])]
  BY <1>11
<1> HIDE DEF it
<1>13. it[0] = a /\ \A i \in 1..N : it[i] = step(it[i - 1])
  BY <1>1, <1>12
<1>14. CASE n # NULL
  <2>0. Rounds(it, X, N, g)
    BY <1>13 DEF g, Rounds
  <2>1. it[N] \in X /\ it[N] \in D
    BY <1>1, <1>5, <1>8, <1>9, <1>13, <1>14, <2>0, Settles
  <2>2. it[N] \subseteq sub[n] /\ n \in it[N] /\ n \in S
    BY <2>1, <1>14, <1>3 DEF X, Sub
  <2>3. \A k \in S, s \in Side : k \in it[N] /\ t.kid[s][k] # NULL => t.kid[s][k] \in it[N]
    BY <2>1 DEF D, step, Kids
  <2>4. sub[n] \subseteq it[N]
    BY <2>2, <2>3, ClosedHolds
  <2>5. it[N] = sub[n]
    BY <2>2, <2>4
  <2> QED BY <1>2, <1>14, <2>5 DEF Sub
<1>15. CASE n = NULL
  <2>1. a = {} /\ step(a) = a /\ Sub(sub, n) = {}
    BY <1>15 DEF a, step, Kids, Sub
  <2>2. \A i \in 1..N : it[i - 1] = a => it[i] = a
    BY <1>13, <2>1
  <2>3. it[N] = a
    BY <1>1, <1>13, <2>2, Constantly
  <2> QED BY <1>2, <2>1, <2>3
<1> QED BY <1>14, <1>15

-----------------------------------------------------------------------------
(* Rotations *)

\* A node and its parent.
LEMMA UpFacts ==
  ASSUME NEW t, NEW key_, NEW S, NEW sub, Shape(t, key_, S, sub), NEW n \in S
  PROVE  /\ t.parent[n] \in Link
         /\ n = t.root <=> t.parent[n] = NULL
         /\ n # t.root => /\ t.parent[n] \in S /\ t.parent[n] # n
                          /\ SideOf(t, t.parent[n], n) \in Side
                          /\ t.kid[SideOf(t, t.parent[n], n)][t.parent[n]] = n
                          /\ \A s \in Side : t.kid[s][t.parent[n]] = n => s = SideOf(t, t.parent[n], n)
                          /\ Cardinality(sub[n]) < Cardinality(sub[t.parent[n]])
                          /\ sub[n] \subseteq sub[t.parent[n]]
<1>1. n \in Node /\ t.parent[n] \in Link /\ n # NULL
  BY RBAssumption DEF Shape, Tree, Link
<1>2. ASSUME n # t.root
      PROVE  /\ t.parent[n] \in S /\ t.parent[n] # n /\ t.parent[n] # NULL
             /\ SideOf(t, t.parent[n], n) \in Side
             /\ t.kid[SideOf(t, t.parent[n], n)][t.parent[n]] = n
             /\ \A s \in Side : t.kid[s][t.parent[n]] = n => s = SideOf(t, t.parent[n], n)
             /\ Cardinality(sub[n]) < Cardinality(sub[t.parent[n]])
             /\ sub[n] \subseteq sub[t.parent[n]]
  <2>1. PICK s \in Side : t.parent[n] \in S /\ t.kid[s][t.parent[n]] = n
    BY <1>2 DEF Shape, Joints
  <2>2. /\ t.parent[n] # n /\ t.kid[Opposite(s)][t.parent[n]] # n /\ t.parent[n] # NULL
    BY <1>1, <2>1, KidFacts
  <2>3. Cardinality(sub[n]) < Cardinality(sub[t.parent[n]]) /\ sub[n] \subseteq sub[t.parent[n]]
    BY <1>1, <2>1, KidsSmaller
  <2>4. s = SideOf(t, t.parent[n], n)
    BY <2>1, <2>2 DEF SideOf, Side, Opposite
  <2>5. \A x \in Side : t.kid[x][t.parent[n]] = n => x = s
    BY <2>1, <2>2, Sides
  <2> QED BY <2>1, <2>2, <2>3, <2>4, <2>5
<1>3. n = t.root => t.parent[n] = NULL
  BY <1>1 DEF Shape
<1> QED BY <1>1, <1>2, <1>3

\* Where a node has a child there is room to rotate.
LEMMA PivotHolds ==
  ASSUME NEW t, NEW key_, NEW S, NEW sub, Shape(t, key_, S, sub), NEW elm \in S, NEW s \in Side,
         NEW tmp, tmp = t.kid[Opposite(s)][elm], tmp # NULL
  PROVE  Pivot(t, s, elm, tmp, t.kid[s][tmp], t.parent[elm], SideOf(t, t.parent[elm], elm))
<1>1. Opposite(s) \in Side
  BY Sides
<1>2. /\ elm \in Node /\ elm # NULL /\ tmp \in S /\ tmp \in Node /\ tmp # elm
      /\ Cardinality(sub[tmp]) < Cardinality(sub[elm]) /\ sub[tmp] \in SUBSET Node /\ sub[elm] \in SUBSET Node
  BY <1>1, KidFacts, KidsSmaller
<1>3. Cardinality(sub[tmp]) \in Nat /\ Cardinality(sub[elm]) \in Nat
  BY <1>2, Sizes
<1>4. t.kid[s][tmp] # tmp /\ t.kid[s][tmp] # elm
  <2>1. t.kid[s][tmp] # NULL => Cardinality(sub[t.kid[s][tmp]]) < Cardinality(sub[tmp])
    BY <1>2, KidsSmaller
  <2> QED BY <1>2, <1>3, <2>1, KidFacts
<1>5. t.parent[elm] # elm /\ t.parent[elm] # tmp
  <2>1. elm # t.root => t.parent[elm] # elm /\ Cardinality(sub[elm]) < Cardinality(sub[t.parent[elm]])
    BY UpFacts
  <2>2. elm = t.root => t.parent[elm] = NULL
    BY UpFacts
  <2> QED BY <1>2, <1>3, <2>1, <2>2
<1> QED BY <1>2, <1>4, <1>5 DEF Pivot

\* The subtrees after a rotation.
TurnedSubs(sub, near, elm, tmp, inner) ==
  [sub EXCEPT ![tmp] = sub[elm], ![elm] = {elm} \cup Sub(sub, near) \cup Sub(sub, inner)]

\* A rotation keeps a search tree of the same nodes.
LEMMA ShapeRotates ==
  ASSUME NEW t, NEW key_, NEW S, NEW sub, Shape(t, key_, S, sub), NEW elm \in S, NEW s \in Side,
         NEW tmp, NEW inner, NEW p, NEW sp, Pivot(t, s, elm, tmp, inner, p, sp),
         NEW u, Rotated(t, u, s, elm, tmp, inner, p, sp)
  PROVE  Shape(u, key_, S, TurnedSubs(sub, t.kid[s][elm], elm, tmp, inner))
<1> DEFINE near == t.kid[s][elm]
           sub2 == TurnedSubs(sub, near, elm, tmp, inner)
<1>1. PICK o : o = Opposite(s)
  OBVIOUS
<1>2. PICK far : far = t.kid[o][tmp]
  OBVIOUS
<1>3. /\ elm \in Node /\ tmp \in Node /\ o \in Side /\ o # s /\ Opposite(o) = s
      /\ \A x \in Side : x = s \/ x = o
      /\ tmp = t.kid[o][elm] /\ inner = t.kid[s][tmp] /\ p = t.parent[elm]
      /\ elm # tmp /\ p # elm /\ p # tmp /\ inner # elm /\ inner # tmp /\ elm # NULL /\ tmp # NULL
  BY <1>1, Sides, RBAssumption, SMTT(20) DEF Pivot
<1>4. /\ tmp \in S /\ t.parent[tmp] = elm /\ near # tmp /\ near # elm /\ tmp # t.root
      /\ inner # NULL => inner \in S /\ t.parent[inner] = tmp /\ inner # far /\ inner # t.root
      /\ inner \in Link /\ near \in Link /\ far \in Link
  BY <1>2, <1>3, KidFacts, SMTT(20)
<1>5. /\ far # tmp /\ far # elm
  <2>1. far = elm => t.parent[elm] = tmp
    BY <1>2, <1>3, <1>4, KidFacts
  <2> QED BY <1>2, <1>3, <1>4, <2>1, KidFacts, SMTT(20)
<1>6. /\ p = NULL => elm = t.root
      /\ p # NULL => p \in S /\ sp \in Side /\ t.kid[sp][p] = elm /\ elm # t.root
      /\ p # NULL => \A x \in Side : t.kid[x][p] = elm => x = sp
  BY <1>3, UpFacts DEF Pivot
<1>7. \A n \in S, x \in Side : /\ t.kid[x][n] = tmp => n = elm /\ x = o
                               /\ t.kid[x][n] = elm => n = p /\ x = sp
                               /\ t.kid[x][n] = inner /\ inner # NULL => n = tmp /\ x = s
  <2> SUFFICES ASSUME NEW n \in S, NEW x \in Side
               PROVE  /\ t.kid[x][n] = tmp => n = elm /\ x = o
                      /\ t.kid[x][n] = elm => n = p /\ x = sp
                      /\ t.kid[x][n] = inner /\ inner # NULL => n = tmp /\ x = s
    OBVIOUS
  <2>1. t.kid[x][n] # NULL => t.parent[t.kid[x][n]] = n /\ n # NULL
    BY KidFacts
  <2>2. t.kid[x][n] = tmp => n = elm /\ x = o
    BY <1>3, <1>4, <2>1
  <2>3. t.kid[x][n] = elm => n = p /\ x = sp
    BY <1>3, <1>6, <2>1, SMTT(20)
  <2>4. t.kid[x][n] = inner /\ inner # NULL => n = tmp /\ x = s
    BY <1>2, <1>3, <1>4, <2>1
  <2> QED BY <2>2, <2>3, <2>4
<1>8. /\ u \in Tree
      /\ p = NULL => u.root = tmp
      /\ p # NULL => u.root = t.root /\ u.kid[sp][p] = tmp
      /\ u.kid[o][elm] = inner /\ u.kid[s][tmp] = elm
      /\ \A x \in Side, m \in Node :
           ~(x = o /\ m = elm) /\ ~(x = s /\ m = tmp) /\ ~(x = sp /\ m = p) => u.kid[x][m] = t.kid[x][m]
      /\ u.parent[tmp] = p /\ u.parent[elm] = tmp
      /\ inner # NULL => u.parent[inner] = elm
      /\ \A m \in Node : m \notin {tmp, elm, inner} => u.parent[m] = t.parent[m]
  BY <1>1 DEF Rotated
<1>9. /\ t \in Tree /\ key_ \in [Node -> Nat] /\ S \subseteq Node /\ sub \in [Node -> SUBSET Node]
      /\ t.root \in S \cup {NULL} /\ Sub(sub, t.root) = S
      /\ t.root # NULL => t.parent[t.root] = NULL
      /\ Joints(t, S) /\ Subtrees(t, S, sub) /\ Sorted(t, key_, S, sub)
  BY DEF Shape
<1>10. /\ sub2 \in [Node -> SUBSET Node]
       /\ sub2[tmp] = sub[elm]
       /\ sub2[elm] = {elm} \cup Sub(sub, near) \cup Sub(sub, inner)
       /\ \A n \in Node : n # tmp /\ n # elm => sub2[n] = sub[n]
       /\ \A c \in Link : c # tmp /\ c # elm => Sub(sub2, c) = Sub(sub, c)
  <2>1. Sub(sub, near) \in SUBSET Node /\ Sub(sub, inner) \in SUBSET Node
    BY <1>4, <1>9 DEF Sub, Link
  <2> QED BY <1>3, <1>9, <2>1, ZenonT(30) DEF TurnedSubs, Sub, Link
<1> HIDE DEF near, sub2
<1>11. Joints(u, S)
  <2>1. ASSUME NEW n \in S, NEW x \in Side, u.kid[x][n] # NULL
        PROVE  u.kid[x][n] \in S /\ u.parent[u.kid[x][n]] = n
    <3>1. CASE x = o /\ n = elm
      BY <3>1, <2>1, <1>4, <1>8
    <3>2. CASE x = s /\ n = tmp
      BY <3>2, <2>1, <1>4, <1>8
    <3>3. CASE x = sp /\ n = p
      BY <3>3, <2>1, <1>4, <1>6, <1>8, <1>9, RBAssumption
    <3>4. CASE ~(x = o /\ n = elm) /\ ~(x = s /\ n = tmp) /\ ~(x = sp /\ n = p)
      <4>1. u.kid[x][n] = t.kid[x][n]
        BY <3>4, <1>8, <1>9
      <4>2. t.kid[x][n] \in S /\ t.kid[x][n] \in Node /\ t.parent[t.kid[x][n]] = n
        BY <4>1, <2>1, KidFacts
      <4>3. t.kid[x][n] \notin {tmp, elm, inner}
        BY <3>4, <1>7, <2>1, <4>1
      <4> QED BY <4>1, <4>2, <4>3, <1>8
    <3> QED BY <3>1, <3>2, <3>3, <3>4
  <2>2. ASSUME NEW n \in S, n # u.root
        PROVE  u.parent[n] \in S /\ \E x \in Side : u.kid[x][u.parent[n]] = n
    <3>1. CASE n = tmp
      BY <3>1, <2>2, <1>6, <1>8
    <3>2. CASE n = elm
      BY <3>2, <1>4, <1>8
    <3>3. CASE n = inner
      <4>1. n # NULL
        BY <1>9, RBAssumption
      <4> QED BY <3>3, <4>1, <1>3, <1>8, ZenonT(30)
    <3>4. CASE n \notin {tmp, elm, inner}
      <4>1. n # t.root /\ u.parent[n] = t.parent[n]
        BY <3>4, <2>2, <1>6, <1>8, <1>9
      <4>2. PICK x \in Side : t.parent[n] \in S /\ t.kid[x][t.parent[n]] = n
        BY <4>1, <1>9 DEF Joints
      <4>3. u.kid[x][t.parent[n]] = n
        BY <4>2, <3>4, <1>3, <1>6, <1>8, <1>9, RBAssumption, SMTT(20)
      <4> QED BY <4>1, <4>2, <4>3
    <3> QED BY <3>1, <3>2, <3>3, <3>4
  <2> QED BY <2>1, <2>2 DEF Joints
<1>12. ASSUME NEW n \in S, n # elm, n # tmp, NEW x \in Side
       PROVE  Sub(sub2, u.kid[x][n]) = Sub(sub, t.kid[x][n])
  <2>1. CASE x = sp /\ n = p
    <3>1. u.kid[x][n] = tmp /\ t.kid[x][n] = elm
      BY <2>1, <1>6, <1>8, <1>9, RBAssumption
    <3> QED BY <3>1, <1>3, <1>10 DEF Sub
  <2>2. CASE ~(x = sp /\ n = p)
    <3>1. u.kid[x][n] = t.kid[x][n]
      BY <2>2, <1>8, <1>9, <1>12
    <3>2. t.kid[x][n] # tmp /\ t.kid[x][n] # elm /\ t.kid[x][n] \in Link
      BY <2>2, <1>7, <1>12, KidFacts
    <3> QED BY <3>1, <3>2, <1>10
  <2> QED BY <2>1, <2>2
<1>13. /\ Sub(sub2, u.kid[s][elm]) = Sub(sub, near)
       /\ Sub(sub2, u.kid[o][elm]) = Sub(sub, inner)
       /\ Sub(sub2, u.kid[s][tmp]) = sub2[elm]
       /\ Sub(sub2, u.kid[o][tmp]) = Sub(sub, far)
       /\ Sub(sub, t.kid[o][elm]) = sub[tmp]
  <2>1. u.kid[s][elm] = near /\ u.kid[o][tmp] = far
    BY <1>2, <1>3, <1>8 DEF near
  <2>2. Sub(sub2, elm) = sub2[elm] /\ Sub(sub, tmp) = sub[tmp]
    BY <1>3, SMTT(20) DEF Sub
  <2> QED BY <2>1, <2>2, <1>3, <1>4, <1>5, <1>8, <1>10, ZenonT(30)
<1>14. \A m \in Node : /\ m \in sub[elm] <=> m = elm \/ m \in Sub(sub, near) \/ m \in sub[tmp]
                       /\ m \in sub[tmp] <=> m = tmp \/ m \in Sub(sub, inner) \/ m \in Sub(sub, far)
  BY <1>2, <1>3, <1>4, <1>9, <1>13 DEF Subtrees, near
<1>15. Subtrees(u, S, sub2)
  <2> SUFFICES ASSUME NEW n \in S, NEW m \in Node
               PROVE  m \in sub2[n] <=> m = n \/ \E x \in Side : m \in Sub(sub2, u.kid[x][n])
    BY SMTT(20) DEF Subtrees
  <2>1. CASE n = elm
    BY <2>1, <1>3, <1>10, <1>13
  <2>2. CASE n = tmp
    BY <2>2, <1>3, <1>10, <1>13, <1>14, ZenonT(30)
  <2>3. CASE n # elm /\ n # tmp
    <3>1. sub2[n] = sub[n]
      BY <2>3, <1>9, <1>10
    <3> QED BY <2>3, <3>1, <1>12, <1>9 DEF Subtrees
  <2> QED BY <2>1, <2>2, <2>3
<1>16. Sorted(u, key_, S, sub2)
  <2> SUFFICES ASSUME NEW n \in S, NEW x \in Side, NEW m \in Node, m \in Sub(sub2, u.kid[x][n])
               PROVE  Less(x, key_[m], key_[n])
    BY DEF Sorted
  <2>0. key_[m] \in Nat /\ key_[n] \in Nat /\ key_[elm] \in Nat /\ key_[tmp] \in Nat
    BY <1>3, <1>9
  <2>1. CASE n = elm /\ x = s
    BY <2>1, <1>13, <1>9 DEF Sorted, near
  <2>2. CASE n = elm /\ x = o
    <3>1. m \in Sub(sub, t.kid[o][elm])
      BY <2>2, <1>13, <1>14
    <3> QED BY <2>2, <3>1, <1>3, <1>9 DEF Sorted
  <2>3. CASE n = tmp /\ x = o
    BY <2>3, <1>2, <1>3, <1>4, <1>13, <1>9, SMTT(20) DEF Sorted
  <2>4. CASE n = tmp /\ x = s
    <3>1. Less(s, key_[elm], key_[tmp])
      <4>1. tmp \in Sub(sub, t.kid[o][elm])
        BY <1>13, <1>14, <1>3
      <4>2. Less(o, key_[tmp], key_[elm])
        BY <4>1, <1>3, <1>9 DEF Sorted
      <4> QED BY <4>2, <2>0, <1>1, <1>3, LessFacts
    <3>2. m = elm \/ m \in Sub(sub, near) \/ m \in Sub(sub, inner)
      BY <2>4, <1>13, <1>10
    <3>3. CASE m = elm
      BY <3>1, <3>3, <2>4
    <3>4. CASE m \in Sub(sub, near)
      <4>1. Less(s, key_[m], key_[elm])
        BY <3>4, <1>9, SMTT(20) DEF Sorted, near
      <4> QED BY <4>1, <3>1, <2>4, <2>0, LessFacts
    <3>5. CASE m \in Sub(sub, inner)
      BY <3>5, <2>4, <1>3, <1>4, <1>9 DEF Sorted
    <3> QED BY <3>2, <3>3, <3>4, <3>5
  <2>5. CASE n # elm /\ n # tmp
    BY <2>5, <1>12, <1>9 DEF Sorted
  <2> QED BY <2>1, <2>2, <2>3, <2>4, <2>5, <1>3
<1>17. /\ u.root \in S \cup {NULL} /\ Sub(sub2, u.root) = S
       /\ u.root # NULL => u.parent[u.root] = NULL
  <2>1. CASE p = NULL
    <3>1. u.root = tmp /\ u.parent[tmp] = NULL /\ elm = t.root
      BY <2>1, <1>6, <1>8
    <3> QED BY <3>1, <1>3, <1>4, <1>9, <1>10, ZenonT(30) DEF Sub
  <2>2. CASE p # NULL
    <3>1. u.root = t.root /\ t.root # tmp /\ t.root # elm
      BY <2>2, <1>4, <1>6, <1>8
    <3>2. t.root \in Link
      BY <1>9 DEF Link
    <3>3. t.root # NULL => t.root # inner /\ t.root \in Node
      BY <1>4, <1>9
    <3> QED BY <3>1, <3>2, <3>3, <1>8, <1>9, <1>10
  <2> QED BY <2>1, <2>2
<1> QED BY <1>8, <1>9, <1>10, <1>11, <1>15, <1>16, <1>17 DEF Shape, sub2, near

-----------------------------------------------------------------------------
(* Colours and black heights *)

\* A missing child counts as black.
Dark(col, c) == c = NULL \/ col[c] = "BLACK"

\* The black nodes on a way down from c, c included, when bh counts them from
\* the children of each node on.
Height(col, bh, c) == IF c = NULL THEN 0 ELSE IF col[c] = "BLACK" THEN bh[c] + 1 ELSE bh[c]

\* n may have the child c on side x: red nodes have black children, and all ways
\* down pass the same number of black nodes.  The side hs of hp lacks one; e may
\* be red where it should not.
Fit(col, bh, n, x, c, hp, hs, e) ==
  /\ bh[n] = Height(col, bh, c) + (IF n = hp /\ x = hs THEN 1 ELSE 0)
  /\ col[n] = "RED" /\ n # e /\ c # e => Dark(col, c)

Fits(t, S, bh, hp, hs, e) ==
  /\ bh \in [Node -> Nat]
  /\ \A n \in S, x \in Side : Fit(t.color, bh, n, x, t.kid[x][n], hp, hs, e)

\* What a rotation needs of the nodes around it.
LEMMA FitsRotate ==
  ASSUME NEW t, NEW key_, NEW S, NEW sub, Shape(t, key_, S, sub), NEW elm \in S, NEW s \in Side,
         NEW tmp, NEW inner, NEW p, NEW sp, Pivot(t, s, elm, tmp, inner, p, sp),
         NEW u, Rotated(t, u, s, elm, tmp, inner, p, sp),
         NEW bh \in [Node -> Nat], NEW hp, NEW hs, NEW e,
         \A n \in S, x \in Side : n # elm /\ n # tmp /\ t.kid[x][n] # elm =>
           Fit(t.color, bh, n, x, t.kid[x][n], hp, hs, e),
         p # NULL => Fit(t.color, bh, p, sp, tmp, hp, hs, e),
         Fit(t.color, bh, elm, s, t.kid[s][elm], hp, hs, e),
         Fit(t.color, bh, elm, Opposite(s), inner, hp, hs, e),
         Fit(t.color, bh, tmp, s, elm, hp, hs, e),
         Fit(t.color, bh, tmp, Opposite(s), t.kid[Opposite(s)][tmp], hp, hs, e)
  PROVE  Fits(u, S, bh, hp, hs, e)
<1>1. PICK o : o = Opposite(s)
  OBVIOUS
<1>2. /\ elm \in Node /\ tmp \in Node /\ o \in Side /\ o # s /\ Opposite(o) = s
      /\ \A x \in Side : x = s \/ x = o
      /\ elm # tmp /\ p # elm /\ p # tmp /\ S \subseteq Node
  BY <1>1, Sides, RBAssumption, SMTT(20) DEF Pivot, Shape
<1>3. \A n \in S, x \in Side : t.kid[x][n] = elm => n = p /\ x = sp
  <2> SUFFICES ASSUME NEW n \in S, NEW x \in Side, t.kid[x][n] = elm PROVE n = p /\ x = sp
    OBVIOUS
  <2>1. t.parent[elm] = n /\ n # NULL
    BY RBAssumption, KidFacts
  <2> QED BY <2>1, UpFacts DEF Pivot
<1>4. /\ u.color = t.color
      /\ p # NULL => u.kid[sp][p] = tmp
      /\ u.kid[o][elm] = inner /\ u.kid[s][tmp] = elm
      /\ \A x \in Side, m \in Node :
           ~(x = o /\ m = elm) /\ ~(x = s /\ m = tmp) /\ ~(x = sp /\ m = p) => u.kid[x][m] = t.kid[x][m]
  BY <1>1 DEF Rotated
<1>5. ASSUME NEW n \in S, NEW x \in Side
      PROVE  Fit(t.color, bh, n, x, u.kid[x][n], hp, hs, e)
  <2>1. CASE n = elm /\ x = s
    BY <2>1, <1>2, <1>4
  <2>2. CASE n = elm /\ x = o
    BY <2>2, <1>1, <1>2, <1>4
  <2>3. CASE n = tmp /\ x = s
    BY <2>3, <1>2, <1>4
  <2>4. CASE n = tmp /\ x = o
    BY <2>4, <1>1, <1>2, <1>4
  <2>5. CASE n = p /\ x = sp
    BY <2>5, <1>2, <1>4, RBAssumption
  <2>6. CASE n # elm /\ n # tmp /\ ~(n = p /\ x = sp)
    <3>1. t.kid[x][n] # elm /\ u.kid[x][n] = t.kid[x][n]
      BY <2>6, <1>2, <1>3, <1>4
    <3> QED BY <2>6, <3>1
  <2> QED BY <2>1, <2>2, <2>3, <2>4, <2>5, <2>6, <1>2
<1> QED BY <1>4, <1>5 DEF Fits

\* Colours do not matter to the shape.
SameLinks(t, u) == u \in Tree /\ u.root = t.root /\ u.kid = t.kid /\ u.parent = t.parent

LEMMA ShapeRecolored ==
  ASSUME NEW t, NEW key_, NEW S, NEW sub, Shape(t, key_, S, sub), NEW u, SameLinks(t, u)
  PROVE  Shape(u, key_, S, sub)
BY DEF Shape, SameLinks, Joints, Subtrees, Sorted

LEMMA SetBlackRedFacts ==
  ASSUME NEW t \in Tree, NEW b \in Node, NEW r \in Node, b # r
  PROVE  LET u == SetBlackRed(t, b, r) IN
         /\ SameLinks(t, u)
         /\ u.color[b] = "BLACK" /\ u.color[r] = "RED"
         /\ \A m \in Node : m # b /\ m # r => u.color[m] = t.color[m]
<1> DEFINE v == Paint(t, b, "BLACK")
           u == Paint(v, r, "RED")
<1>1. Painted(t, v, b, "BLACK")
  BY PaintFacts DEF Color
<1> HIDE DEF v
<1>2. Painted(v, u, r, "RED")
  BY <1>1, PaintFacts DEF Color, Painted
<1> HIDE DEF u
<1>3. SetBlackRed(t, b, r) = u
  BY DEF SetBlackRed, u, v
<1> QED BY <1>1, <1>2, <1>3 DEF Painted, SameLinks

-----------------------------------------------------------------------------
(* RB_INSERT_COLOR *)

\* All is well, but e is red and its parent may be.
Rising(t, S, bh, e) ==
  /\ e \in S /\ t.color[e] = "RED"
  /\ \A x \in Side : Dark(t.color, t.kid[x][e])
  /\ Fits(t, S, bh, NULL, "left", e)

\* All is well, but the root may be red.
Well(t, key_, S) ==
  \E sub, bh : Shape(t, key_, S, sub) /\ Fits(t, S, bh, NULL, "left", NULL)

\* e is red, its parent P too, on the outer side of its parent G.
LEMMA OuterRotation ==
  ASSUME NEW t, NEW key_, NEW S, NEW sub, Shape(t, key_, S, sub), NEW bh, NEW e, Rising(t, S, bh, e),
         NEW P \in S, NEW G \in S, NEW s \in Side, t.kid[s][G] = P, t.kid[s][P] = e,
         t.color[P] = "RED", Dark(t.color, t.kid[Opposite(s)][G]),
         NEW u, u = Rotate(SetBlackRed(t, P, G), Opposite(s), G)
  PROVE  /\ Well(u, key_, S) /\ u \in Tree
         /\ u.parent[e] = P /\ u.color[P] = "BLACK" /\ u.color[e] = "RED"
<1>1. PICK o : o = Opposite(s)
  OBVIOUS
<1>2. PICK w : w = SetBlackRed(t, P, G)
  OBVIOUS
<1>3. /\ o \in Side /\ o # s /\ Opposite(o) = s /\ S \subseteq Node /\ t \in Tree
      /\ \A x \in Side : x = s \/ x = o
  BY <1>1, Sides DEF Shape
<1>4. /\ P \in Node /\ G \in Node /\ P # G /\ e \in S /\ e \in Node /\ e # P /\ t.parent[P] = G /\ t.parent[e] = P
      /\ P # NULL /\ G # NULL /\ e # NULL
  BY <1>3, KidFacts, RBAssumption DEF Rising
<1>5. /\ SameLinks(t, w) /\ w.color[P] = "BLACK" /\ w.color[G] = "RED"
      /\ \A m \in Node : m # P /\ m # G => w.color[m] = t.color[m]
  BY <1>2, <1>3, <1>4, SetBlackRedFacts
<1>6. Shape(w, key_, S, sub)
  BY <1>5, ShapeRecolored
<1>7. PICK inner, far, near, p, sp : /\ inner = t.kid[o][P] /\ far = e /\ near = t.kid[o][G]
                                     /\ p = t.parent[G] /\ sp = SideOf(w, p, G)
  OBVIOUS
<1>8. Pivot(w, o, G, P, inner, p, sp)
  <2>1. P = w.kid[Opposite(o)][G] /\ inner = w.kid[o][P] /\ p = w.parent[G]
    BY <1>3, <1>5, <1>7 DEF SameLinks
  <2>2. Pivot(w, o, G, P, w.kid[o][P], w.parent[G], SideOf(w, w.parent[G], G))
    BY <1>3, <1>4, <1>6, <2>1, PivotHolds
  <2> QED BY <2>1, <2>2, <1>7
<1>9. Rotated(w, u, o, G, P, inner, p, sp)
  BY <1>1, <1>2, <1>5, <1>8, RotateFacts DEF SameLinks
<1>10. \E sub2 : Shape(u, key_, S, sub2)
  BY <1>3, <1>6, <1>8, <1>9, ShapeRotates
<1>11. /\ bh \in [Node -> Nat] /\ \A n \in S, x \in Side : Fit(t.color, bh, n, x, t.kid[x][n], NULL, "left", e)
       /\ t.color[e] = "RED" /\ \A x \in Side : Dark(t.color, t.kid[x][e])
  BY DEF Rising, Fits
<1>12. G # e /\ inner # e /\ inner # P /\ inner # G /\ near # P /\ near # G /\ inner \in Link /\ near \in Link
  <2>1. inner # e /\ near # P /\ near # G /\ inner # P /\ inner \in Link /\ near \in Link
    BY <1>3, <1>4, <1>7, KidFacts
  <2>2. G # e /\ inner # G
    BY <1>3, <1>8, <1>4, <1>6, <1>7, KidFacts, UpFacts DEF Pivot
  <2> QED BY <2>1, <2>2
<1>13. t.color[G] = "BLACK" /\ bh[G] = bh[P] /\ bh[P] \in Nat /\ bh[e] = bh[P]
  <2>1. Fit(t.color, bh, G, s, P, NULL, "left", e) /\ Fit(t.color, bh, P, s, e, NULL, "left", e)
    BY <1>11
  <2>2. t.color[G] \in Color
    BY <1>3, <1>4 DEF Tree
  <2> QED BY <2>1, <2>2, <1>4, <1>11, <1>12 DEF Fit, Dark, Height, Color
<1>14. /\ Height(w.color, bh, P) = bh[P] + 1 /\ Height(w.color, bh, G) = bh[P] /\ Height(w.color, bh, e) = bh[P]
       /\ Height(w.color, bh, near) = bh[P] /\ Height(w.color, bh, inner) = bh[P]
       /\ Dark(w.color, inner) /\ Dark(w.color, near)
  <2>1. Fit(t.color, bh, G, o, near, NULL, "left", e) /\ Fit(t.color, bh, P, o, inner, NULL, "left", e)
    BY <1>3, <1>7, <1>11
  <2>2. Height(t.color, bh, near) = bh[P] /\ Height(t.color, bh, inner) = bh[P] /\ Dark(t.color, inner)
        /\ Dark(t.color, near) /\ Height(t.color, bh, near) \in Nat /\ Height(t.color, bh, inner) \in Nat
    BY <2>1, <1>1, <1>3, <1>4, <1>7, <1>11, <1>12, <1>13 DEF Fit, Height, Link
  <2>3. \A c \in Link : c # P /\ c # G => /\ Height(w.color, bh, c) = Height(t.color, bh, c)
                                          /\ Dark(w.color, c) <=> Dark(t.color, c)
    BY <1>5 DEF Height, Dark, Link
  <2>4. Height(w.color, bh, near) = bh[P] /\ Height(w.color, bh, inner) = bh[P]
        /\ Dark(w.color, inner) /\ Dark(w.color, near)
    BY <2>2, <2>3, <1>12
  <2>5. /\ Height(w.color, bh, P) = bh[P] + 1 /\ Height(w.color, bh, G) = bh[P] /\ Height(w.color, bh, e) = bh[P]
    BY <1>4, <1>5, <1>11, <1>12, <1>13 DEF Height
  <2> QED BY <2>4, <2>5
<1>15. ASSUME NEW n \in S, NEW x \in Side, n # G, n # P, w.kid[x][n] # G
       PROVE  Fit(w.color, bh, n, x, w.kid[x][n], NULL, "left", NULL)
  <2>1. w.kid[x][n] = t.kid[x][n] /\ t.kid[x][n] # P /\ t.kid[x][n] # G /\ t.kid[x][n] # e /\ t.kid[x][n] \in Link
        /\ n \in Node /\ n # NULL
    BY <1>4, <1>5, <1>15, KidFacts DEF SameLinks
  <2>2. /\ Height(w.color, bh, t.kid[x][n]) = Height(t.color, bh, t.kid[x][n])
        /\ Dark(w.color, t.kid[x][n]) <=> Dark(t.color, t.kid[x][n])
        /\ w.color[n] = t.color[n]
    BY <1>5, <1>15, <2>1 DEF Height, Dark, Link
  <2>3. Fit(t.color, bh, n, x, t.kid[x][n], NULL, "left", e)
    BY <1>11
  <2>4. n = e => Dark(t.color, t.kid[x][n])
    BY <1>11
  <2> QED BY <2>1, <2>2, <2>3, <2>4 DEF Fit
<1>16. p # NULL => Fit(w.color, bh, p, sp, P, NULL, "left", NULL)
  <2> SUFFICES ASSUME p # NULL PROVE Fit(w.color, bh, p, sp, P, NULL, "left", NULL)
    OBVIOUS
  <2>1. p \in S /\ sp \in Side /\ w.kid[sp][p] = G /\ t.kid[sp][p] = G
    BY <1>5, <1>6, <1>7, UpFacts DEF SameLinks
  <2>2. Fit(t.color, bh, p, sp, G, NULL, "left", e)
    BY <2>1, <1>11
  <2> QED BY <2>2, <1>4, <1>5, <1>13, <1>14 DEF Fit, Height, Dark
<1>17. /\ Fit(w.color, bh, G, o, near, NULL, "left", NULL)
       /\ Fit(w.color, bh, G, s, inner, NULL, "left", NULL)
       /\ Fit(w.color, bh, P, o, G, NULL, "left", NULL)
       /\ Fit(w.color, bh, P, s, e, NULL, "left", NULL)
  BY <1>4, <1>5, <1>13, <1>14 DEF Fit
<1>18. Fits(u, S, bh, NULL, "left", NULL)
  <2>1. near = w.kid[o][G] /\ e = w.kid[Opposite(o)][P] /\ Opposite(o) = s /\ o \in Side
    BY <1>3, <1>5, <1>7 DEF SameLinks
  <2>2. bh \in [Node -> Nat]
    BY <1>11
  <2> HIDE DEF Fit, Fits
  <2> QED BY <1>6, <1>8, <1>9, <1>15, <1>16, <1>17, <2>1, <2>2, FitsRotate
<1>19. u \in Tree /\ u.parent[e] = P /\ u.color[P] = "BLACK" /\ u.color[e] = "RED"
  <2>1. e \notin {P, G, inner}
    BY <1>4, <1>12
  <2> QED BY <2>1, <1>4, <1>5, <1>9, <1>11 DEF Rotated, SameLinks
<1> QED BY <1>10, <1>18, <1>19 DEF Well

\* e is red, its parent P too, on the inner side: a rotation swaps their roles.
LEMMA InnerRotation ==
  ASSUME NEW t, NEW key_, NEW S, NEW sub, Shape(t, key_, S, sub), NEW bh, NEW e, Rising(t, S, bh, e),
         NEW P \in S, NEW G \in S, NEW s \in Side, t.kid[s][G] = P, t.kid[Opposite(s)][P] = e,
         t.color[P] = "RED", NEW u, u = Rotate(t, s, P)
  PROVE  /\ \E sub2 : Shape(u, key_, S, sub2)
         /\ Rising(u, S, bh, P)
         /\ u.kid[s][G] = e /\ u.kid[s][e] = P /\ u.kid[Opposite(s)][G] = t.kid[Opposite(s)][G]
         /\ u.color = t.color
<1>1. PICK o : o = Opposite(s)
  OBVIOUS
<1>3. /\ o \in Side /\ o # s /\ Opposite(o) = s /\ S \subseteq Node /\ t \in Tree
      /\ \A x \in Side : x = s \/ x = o
  BY <1>1, Sides DEF Shape
<1>4. /\ P \in Node /\ G \in Node /\ P # G /\ e \in S /\ e \in Node /\ e # P /\ t.parent[P] = G /\ t.parent[e] = P
      /\ P # NULL /\ G # NULL /\ e # NULL /\ P # t.root
  BY <1>1, <1>3, KidFacts, RBAssumption DEF Rising
<1>7. PICK inner, far, near : inner = t.kid[s][e] /\ far = t.kid[o][e] /\ near = t.kid[s][P]
  OBVIOUS
<1>8. Pivot(t, s, P, e, inner, G, s)
  <2>1. e = t.kid[Opposite(s)][P] /\ inner = t.kid[s][e] /\ G = t.parent[P]
    BY <1>1, <1>4, <1>7
  <2>2. Pivot(t, s, P, e, t.kid[s][e], t.parent[P], SideOf(t, t.parent[P], P))
    BY <1>4, PivotHolds
  <2>3. SideOf(t, t.parent[P], P) = s
    BY <1>4, UpFacts
  <2> QED BY <2>1, <2>2, <2>3
<1>9. Rotated(t, u, s, P, e, inner, G, s)
  BY <1>3, <1>8, RotateFacts
<1>10. \E sub2 : Shape(u, key_, S, sub2)
  BY <1>8, <1>9, ShapeRotates
<1>11. /\ bh \in [Node -> Nat] /\ \A n \in S, x \in Side : Fit(t.color, bh, n, x, t.kid[x][n], NULL, "left", e)
       /\ t.color[e] = "RED" /\ \A x \in Side : Dark(t.color, t.kid[x][e])
  BY DEF Rising, Fits
<1>12. near # e /\ G # e
  BY <1>1, <1>3, <1>4, <1>7, <1>8, KidFacts DEF Pivot
<1>13. t.color[G] = "BLACK" /\ bh[G] = bh[P] /\ bh[P] \in Nat /\ bh[e] = bh[P]
  <2>1. Fit(t.color, bh, G, s, P, NULL, "left", e) /\ Fit(t.color, bh, P, o, e, NULL, "left", e)
    BY <1>1, <1>3, <1>11
  <2>2. t.color[G] \in Color
    BY <1>3, <1>4 DEF Tree
  <2> QED BY <2>1, <2>2, <1>4, <1>11, <1>12 DEF Fit, Dark, Height, Color
<1>14. ASSUME NEW n \in S, NEW x \in Side, n # P, n # e, t.kid[x][n] # P
       PROVE  Fit(t.color, bh, n, x, t.kid[x][n], NULL, "left", P)
  <2>1. t.kid[x][n] # e
    BY <1>4, <1>14, KidFacts
  <2> QED BY <2>1, <1>11, <1>14 DEF Fit
<1>15. Fit(t.color, bh, G, s, e, NULL, "left", P)
  BY <1>4, <1>11, <1>13 DEF Fit, Height
<1>16. /\ Fit(t.color, bh, P, s, near, NULL, "left", P)
       /\ Fit(t.color, bh, P, o, inner, NULL, "left", P)
       /\ Fit(t.color, bh, e, s, P, NULL, "left", P)
       /\ Fit(t.color, bh, e, o, far, NULL, "left", P)
  <2>1. /\ Fit(t.color, bh, P, s, near, NULL, "left", e)
        /\ Fit(t.color, bh, e, s, inner, NULL, "left", e)
        /\ Fit(t.color, bh, e, o, far, NULL, "left", e)
        /\ Dark(t.color, far)
    BY <1>3, <1>4, <1>7, <1>11
  <2> QED BY <2>1, <1>4, <1>11, <1>13 DEF Fit, Height
<1>17. Fits(u, S, bh, NULL, "left", P)
  <2>2. bh \in [Node -> Nat] /\ P \in S
    BY <1>11
  <2> QED BY <1>1, <1>7, <1>8, <1>9, <1>14, <1>15, <1>16, <2>2, FitsRotate
<1>18. Dark(t.color, near) /\ Dark(t.color, inner)
  <2>1. Fit(t.color, bh, P, s, near, NULL, "left", e)
    BY <1>7, <1>11
  <2> QED BY <2>1, <1>4, <1>7, <1>11, <1>12 DEF Fit
<1>19. /\ u.color = t.color /\ u.kid[o][P] = inner /\ u.kid[s][P] = near
       /\ u.kid[s][G] = e /\ u.kid[s][e] = P /\ u.kid[o][G] = t.kid[o][G]
  BY <1>1, <1>3, <1>4, <1>7, <1>9, <1>12 DEF Rotated
<1>20. Rising(u, S, bh, P)
  BY <1>3, <1>17, <1>18, <1>19 DEF Rising
<1> QED BY <1>1, <1>10, <1>19, <1>20

\* The uncle U of e is red: the black of G moves down to P and U.
LEMMA RedUncle ==
  ASSUME NEW t, NEW key_, NEW S, NEW sub, Shape(t, key_, S, sub), NEW bh, NEW e, Rising(t, S, bh, e),
         NEW P \in S, NEW G \in S, NEW s \in Side, t.kid[s][G] = P, t.parent[e] = P,
         NEW U, U = t.kid[Opposite(s)][G], ~Dark(t.color, U),
         t.color[P] = "RED", NEW u, u = SetBlackRed(Paint(t, U, "BLACK"), P, G)
  PROVE  /\ SameLinks(t, u)
         /\ \E bh2 : Rising(u, S, bh2, G)
         /\ \A m \in Node : m \notin {P, U, G} => u.color[m] = t.color[m]
<1>1. PICK o : o = Opposite(s)
  OBVIOUS
<1>2. PICK v : v = Paint(t, U, "BLACK")
  OBVIOUS
<1>3. /\ o \in Side /\ o # s /\ Opposite(o) = s /\ S \subseteq Node /\ t \in Tree
      /\ \A x \in Side : x = s \/ x = o
  BY <1>1, Sides DEF Shape
<1>4. /\ P \in Node /\ G \in Node /\ P # G /\ e \in S /\ e \in Node /\ t.parent[P] = G
      /\ P # NULL /\ G # NULL /\ e # NULL /\ e # P
      /\ U \in S /\ U \in Node /\ U # G /\ U # P /\ t.parent[U] = G /\ U # NULL
  <2>1. U # NULL
    BY DEF Dark
  <2>2. /\ P \in Node /\ G \in Node /\ P # G /\ e \in S /\ e \in Node /\ t.parent[P] = G
        /\ P # NULL /\ G # NULL /\ e # NULL
        /\ U \in S /\ U \in Node /\ U # G /\ U # P /\ t.parent[U] = G /\ U # NULL
    BY <1>1, <1>3, <2>1, KidFacts, RBAssumption DEF Rising
  <2>3. e # P
    BY <2>2, UpFacts
  <2> QED BY <2>2, <2>3
<1>5. Painted(t, v, U, "BLACK")
  BY <1>2, <1>3, <1>4, PaintFacts DEF Color
<1>6. /\ SameLinks(v, u) /\ u.color[P] = "BLACK" /\ u.color[G] = "RED"
      /\ \A m \in Node : m # P /\ m # G => u.color[m] = v.color[m]
  BY <1>2, <1>4, <1>5, SetBlackRedFacts DEF Painted
<1>7. /\ SameLinks(t, u)
      /\ u.color[P] = "BLACK" /\ u.color[G] = "RED" /\ u.color[U] = "BLACK"
      /\ \A m \in Node : m \notin {P, U, G} => u.color[m] = t.color[m]
  BY <1>4, <1>5, <1>6 DEF Painted, SameLinks
<1>8. /\ bh \in [Node -> Nat] /\ \A n \in S, x \in Side : Fit(t.color, bh, n, x, t.kid[x][n], NULL, "left", e)
      /\ t.color[e] = "RED" /\ \A x \in Side : Dark(t.color, t.kid[x][e])
  BY DEF Rising, Fits
<1>9. e # G /\ e # U
  <2>1. e = G => t.parent[G] = P
    OBVIOUS
  <2>2. Cardinality(sub[P]) < Cardinality(sub[G]) /\ sub[P] \in SUBSET Node /\ sub[G] \in SUBSET Node
    BY <1>4, KidsSmaller
  <2>3. e = G => Cardinality(sub[G]) < Cardinality(sub[P])
    BY <1>4, UpFacts
  <2>4. Cardinality(sub[P]) \in Nat /\ Cardinality(sub[G]) \in Nat
    BY <2>2, Sizes
  <2> QED BY <2>2, <2>3, <2>4, <1>4
<1>10. t.color[U] = "RED"
  <2>1. t.color[U] \in Color
    BY <1>3, <1>4 DEF Tree
  <2> QED BY <2>1 DEF Dark, Color
<1>11. bh[G] = bh[P] /\ bh[G] = bh[U] /\ bh[P] \in Nat /\ t.color[G] = "BLACK"
  <2>1. Fit(t.color, bh, G, s, P, NULL, "left", e) /\ Fit(t.color, bh, G, o, U, NULL, "left", e)
    BY <1>1, <1>3, <1>8
  <2>2. t.color[G] \in Color
    BY <1>3, <1>4 DEF Tree
  <2>3. bh[G] = Height(t.color, bh, P) /\ bh[G] = Height(t.color, bh, U)
    BY <2>1, <1>4, <1>8 DEF Fit, Height
  <2>4. t.color[G] = "BLACK"
    BY <2>1, <2>2, <1>4, <1>9 DEF Fit, Dark, Color
  <2> QED BY <2>3, <2>4, <1>4, <1>8, <1>10 DEF Height
<1> DEFINE bh2 == [bh EXCEPT ![G] = bh[G] + 1]
<1>12. bh2 \in [Node -> Nat] /\ bh2[G] = bh[P] + 1 /\ \A n \in Node : n # G => bh2[n] = bh[n]
  BY <1>4, <1>8, <1>11
<1> HIDE DEF bh2
<1>13. ASSUME NEW n \in S, NEW x \in Side
       PROVE  Fit(u.color, bh2, n, x, t.kid[x][n], NULL, "left", G)
  <2>0. n \in Node /\ n # NULL /\ t.kid[x][n] \in Link /\ t.kid[x][n] # n
    BY KidFacts
  <2>1. CASE n = G
    <3>1. t.kid[x][n] = P \/ t.kid[x][n] = U
      BY <2>1, <1>1, <1>3
    <3>2. Height(u.color, bh2, P) = bh[P] + 1 /\ Height(u.color, bh2, U) = bh[P] + 1
      BY <1>4, <1>7, <1>11, <1>12 DEF Height
    <3>4. Height(u.color, bh2, t.kid[x][n]) = bh[P] + 1
      <4>1. CASE t.kid[x][n] = P
        BY <4>1, <3>2
      <4>2. CASE t.kid[x][n] = U
        BY <4>2, <3>2
      <4> QED BY <3>1, <4>1, <4>2
    <3>5. bh2[n] = bh[P] + 1
      BY <2>1, <1>12
    <3>6. bh2[n] \in Nat
      BY <2>0, <1>12
    <3>3. bh2[n] = Height(u.color, bh2, t.kid[x][n]) /\ bh2[n] \in Nat
      BY <3>4, <3>5, <3>6
    <3> QED BY <2>0, <2>1, <3>3 DEF Fit
  <2>2. CASE n # G
    <3>1. t.kid[x][n] # P /\ t.kid[x][n] # U
      BY <2>2, <1>4, <2>0, KidFacts
    <3>2. Height(u.color, bh2, t.kid[x][n]) = Height(t.color, bh, t.kid[x][n])
      BY <3>1, <2>0, <1>7, <1>11, <1>12 DEF Height, Link
    <3>3. Fit(t.color, bh, n, x, t.kid[x][n], NULL, "left", e)
      BY <1>8
    <3>4. t.kid[x][n] = e => n = P
      BY <1>4, KidFacts
    <3>5. ASSUME u.color[n] = "RED", t.kid[x][n] # G PROVE Dark(u.color, t.kid[x][n])
      <4>1. n # P /\ n # U /\ t.color[n] = "RED"
        BY <3>5, <2>0, <2>2, <1>7
      <4>2. Dark(t.color, t.kid[x][n])
        BY <4>1, <3>3, <3>4, <1>8 DEF Fit
      <4> QED BY <4>2, <3>1, <3>5, <2>0, <1>7 DEF Dark, Link
    <3> QED BY <2>0, <2>2, <3>2, <3>3, <3>5, <1>12 DEF Fit
  <2> QED BY <2>1, <2>2
<1>14. Rising(u, S, bh2, G)
  <2>1. \A x \in Side : Dark(u.color, u.kid[x][G])
    BY <1>1, <1>3, <1>7 DEF Dark, SameLinks
  <2> QED BY <2>1, <1>7, <1>12, <1>13 DEF Rising, Fits, SameLinks
<1> QED BY <1>7, <1>14

\* The loop of RB_INSERT_COLOR goes on while e has a red parent.
Quiet(t, e) == t.parent[e] = NULL \/ t.color[t.parent[e]] = "BLACK"

RootOk(t, e) == t.root = e \/ t.color[t.root] = "BLACK"

\* One round.
LEMMA InsertColorRound ==
  ASSUME NEW t, NEW key_, NEW S, NEW sub, Shape(t, key_, S, sub), NEW bh, NEW e, Rising(t, S, bh, e),
         RootOk(t, e), ~Quiet(t, e), NEW y, y = InsertColorStep([t |-> t, elm |-> e])
  PROVE  /\ y \in [t : Tree, elm : S]
         /\ \/ Well(y.t, key_, S) /\ Quiet(y.t, y.elm)
            \/ /\ SameLinks(t, y.t) /\ RootOk(y.t, y.elm)
               /\ \E bh2 : Rising(y.t, S, bh2, y.elm)
               /\ Cardinality(sub[y.elm]) > Cardinality(sub[e])
<1>1. PICK P : P = t.parent[e]
  OBVIOUS
<1>2. e \in S /\ S \subseteq Node /\ t \in Tree /\ t.color[e] = "RED"
  BY DEF Rising, Shape
<1>3. P # NULL /\ P \in S /\ e # t.root /\ t.kid[SideOf(t, P, e)][P] = e /\ SideOf(t, P, e) \in Side
      /\ \A x \in Side : t.kid[x][P] = e => x = SideOf(t, P, e)
  BY <1>1, <1>2, UpFacts DEF Quiet
<1>4. t.color[P] = "RED"
  <2>1. t.color[P] \in Color
    BY <1>2, <1>3 DEF Tree
  <2> QED BY <2>1, <1>1 DEF Quiet, Color
<1>5. P # t.root
  BY <1>3, <1>4 DEF RootOk
<1>6. PICK G : G = t.parent[P]
  OBVIOUS
<1>7. PICK s : s = SideOf(t, G, P)
  OBVIOUS
<1>8. G \in S /\ s \in Side /\ t.kid[s][G] = P
  BY <1>3, <1>5, <1>6, <1>7, UpFacts
<1>9. PICK U : U = t.kid[Opposite(s)][G]
  OBVIOUS
<1>10. IsBlack(t, U) <=> Dark(t.color, U)
  BY DEF IsBlack, Dark
<1>11. CASE ~Dark(t.color, U)
  <2>1. y = [t |-> SetBlackRed(Paint(t, U, "BLACK"), P, G), elm |-> G]
    BY <1>1, <1>3, <1>4, <1>6, <1>7, <1>9, <1>10, <1>11 DEF InsertColorStep
  <2>2. PICK u : u = SetBlackRed(Paint(t, U, "BLACK"), P, G)
    OBVIOUS
  <2>3. /\ SameLinks(t, u) /\ \E bh2 : Rising(u, S, bh2, G)
        /\ \A m \in Node : m \notin {P, U, G} => u.color[m] = t.color[m]
    BY <1>1, <1>3, <1>4, <1>8, <1>9, <1>11, <2>2, RedUncle
  <2>4. RootOk(u, G)
    <3>1. t.root # P /\ t.root # U /\ t.root \in Node
      <4>1. U # NULL => U # t.root
        BY <1>8, <1>9, Sides, KidFacts
      <4>2. t.root # NULL /\ t.root \in Node
        <5>1. t.root = NULL => S = {}
          BY DEF Shape, Sub
        <5> QED BY <5>1, <1>2 DEF Shape
      <4> QED BY <4>1, <4>2, <1>5
    <3>2. t.root # G => t.color[t.root] = "BLACK"
      BY <1>3 DEF RootOk
    <3> QED BY <3>1, <3>2, <2>3 DEF RootOk, SameLinks
  <2>5. Cardinality(sub[G]) > Cardinality(sub[e])
    <3>1. Cardinality(sub[e]) < Cardinality(sub[P]) /\ Cardinality(sub[P]) < Cardinality(sub[G])
      BY <1>1, <1>2, <1>3, <1>5, <1>6, UpFacts
    <3>2. Cardinality(sub[e]) \in Nat /\ Cardinality(sub[P]) \in Nat /\ Cardinality(sub[G]) \in Nat
      BY <1>2, <1>3, <1>8, Sizes DEF Shape
    <3> QED BY <3>1, <3>2
  <2>6. y.t = u /\ y.elm = G /\ y \in [t : Tree, elm : S]
    BY <2>1, <2>2, <2>3, <1>8 DEF SameLinks
  <2> QED BY <2>3, <2>4, <2>5, <2>6, SMTT(20)
<1>12. CASE Dark(t.color, U)
  <2>1. CASE t.kid[Opposite(s)][P] = e
    <3>1. PICK v : v = Rotate(t, s, P)
      OBVIOUS
    <3>2. PICK u : u = Rotate(SetBlackRed(v, e, G), Opposite(s), G)
      OBVIOUS
    <3>3. y = [t |-> u, elm |-> P]
      BY <1>1, <1>3, <1>4, <1>6, <1>7, <1>9, <1>10, <1>12, <2>1, <3>1, <3>2, ZenonT(30) DEF InsertColorStep
    <3>4. /\ \E sub2 : Shape(v, key_, S, sub2)
          /\ Rising(v, S, bh, P)
          /\ v.kid[s][G] = e /\ v.kid[s][e] = P /\ v.kid[Opposite(s)][G] = U
          /\ v.color = t.color
      BY <1>3, <1>4, <1>8, <1>9, <2>1, <3>1, InnerRotation
    <3>5. PICK sub2 : Shape(v, key_, S, sub2)
      BY <3>4
    <3>6. /\ Well(u, key_, S) /\ u \in Tree
          /\ u.parent[P] = e /\ u.color[e] = "BLACK"
      BY <1>2, <1>8, <1>12, <3>2, <3>4, <3>5, OuterRotation
    <3> QED BY <1>3, <3>3, <3>6 DEF Quiet
  <2>2. CASE t.kid[Opposite(s)][P] # e
    <3>1. t.kid[s][P] = e
      BY <1>3, <1>8, <2>2, Sides
    <3>2. PICK u : u = Rotate(SetBlackRed(t, P, G), Opposite(s), G)
      OBVIOUS
    <3>3. y = [t |-> u, elm |-> e]
      BY <1>1, <1>3, <1>4, <1>6, <1>7, <1>9, <1>10, <1>12, <2>2, <3>2, ZenonT(30) DEF InsertColorStep
    <3>4. /\ Well(u, key_, S) /\ u \in Tree
          /\ u.parent[e] = P /\ u.color[P] = "BLACK"
      BY <1>3, <1>4, <1>8, <1>9, <1>12, <3>1, <3>2, OuterRotation
    <3> QED BY <1>2, <3>3, <3>4 DEF Quiet
  <2> QED BY <2>1, <2>2
<1> QED BY <1>11, <1>12

\* The last round.
LEMMA InsertColorRests ==
  ASSUME NEW t, NEW e, Quiet(t, e)
  PROVE  InsertColorStep([t |-> t, elm |-> e]) = [t |-> t, elm |-> e]
BY DEF Quiet, InsertColorStep

LEMMA RisenWell ==
  ASSUME NEW t, NEW key_, NEW S, NEW sub, Shape(t, key_, S, sub), NEW bh, NEW e, Rising(t, S, bh, e),
         Quiet(t, e)
  PROVE  Well(t, key_, S)
<1>1. ASSUME NEW n \in S, NEW x \in Side PROVE Fit(t.color, bh, n, x, t.kid[x][n], NULL, "left", NULL)
  <2>1. Fit(t.color, bh, n, x, t.kid[x][n], NULL, "left", e)
    BY DEF Rising, Fits
  <2>2. n = e => Dark(t.color, t.kid[x][n])
    BY DEF Rising
  <2>3. t.kid[x][n] = e => t.color[n] = "BLACK"
    <3>1. t.kid[x][n] = e => t.parent[e] = n /\ n # NULL
      BY RBAssumption, KidFacts DEF Rising, Shape
    <3> QED BY <3>1 DEF Quiet
  <2> QED BY <2>1, <2>2, <2>3 DEF Fit
<1>2. Fits(t, S, bh, NULL, "left", NULL)
  BY <1>1 DEF Fits, Rising
<1> QED BY <1>2 DEF Well

\* All is well.
Sound(t, key_, S) == Well(t, key_, S) /\ IsBlack(t, t.root)

\* Painting the root black makes it so.
LEMMA RootPainted ==
  ASSUME NEW t, NEW key_, NEW S, Well(t, key_, S), t.root # NULL
  PROVE  Sound(Paint(t, t.root, "BLACK"), key_, S)
<1>1. PICK sub, bh : Shape(t, key_, S, sub) /\ Fits(t, S, bh, NULL, "left", NULL)
  BY DEF Well
<1>2. PICK u : u = Paint(t, t.root, "BLACK")
  OBVIOUS
<1>3. t \in Tree /\ t.root \in Node /\ S \subseteq Node
  BY <1>1 DEF Shape
<1>4. Painted(t, u, t.root, "BLACK")
  BY <1>2, <1>3, PaintFacts DEF Color
<1>5. Shape(u, key_, S, sub)
  BY <1>1, <1>4, ShapeRecolored DEF Painted, SameLinks
<1>6. ASSUME NEW n \in S, NEW x \in Side PROVE Fit(u.color, bh, n, x, u.kid[x][n], NULL, "left", NULL)
  <2>1. t.kid[x][n] # t.root /\ t.kid[x][n] \in Link /\ n \in Node
    BY <1>1, <1>3, KidFacts
  <2>2. u.kid[x][n] = t.kid[x][n] /\ (t.kid[x][n] # NULL => u.color[t.kid[x][n]] = t.color[t.kid[x][n]])
    BY <1>4, <2>1 DEF Painted, Link
  <2>3. u.color[n] = t.color[n] \/ u.color[n] = "BLACK"
    BY <1>4, <2>1 DEF Painted
  <2>4. Fit(t.color, bh, n, x, t.kid[x][n], NULL, "left", NULL)
    BY <1>1 DEF Fits
  <2>5. /\ Height(u.color, bh, t.kid[x][n]) = Height(t.color, bh, t.kid[x][n])
        /\ Dark(u.color, t.kid[x][n]) <=> Dark(t.color, t.kid[x][n])
    BY <2>2 DEF Height, Dark
  <2> QED BY <2>2, <2>3, <2>4, <2>5 DEF Fit
<1>7. Fits(u, S, bh, NULL, "left", NULL)
  BY <1>1, <1>6 DEF Fits
<1> QED BY <1>2, <1>4, <1>5, <1>7 DEF Sound, Well, IsBlack, Painted

\* RB_INSERT_COLOR repairs the tree.
LEMMA InsertColorSound ==
  ASSUME NEW t, NEW key_, NEW S, NEW sub, Shape(t, key_, S, sub), NEW bh, NEW e, Rising(t, S, bh, e),
         RootOk(t, e)
  PROVE  Sound(RB_INSERT_COLOR(t, e), key_, S)
<1> DEFINE N == Cardinality(Node)
           step(x) == InsertColorStep(x)
           a == [t |-> t, elm |-> e]
           it == CHOOSE it : it = [i \in 0..N |-> IF i = 0 THEN a ELSE step(it[i - 1])]
           Fin(x) == Well(x.t, key_, S) /\ Quiet(x.t, x.elm)
           Mid(x) == SameLinks(t, x.t) /\ RootOk(x.t, x.elm) /\ \E bh2 : Rising(x.t, S, bh2, x.elm)
           X == {x \in [t : Tree, elm : S] : Fin(x) \/ Mid(x)}
           g == [x \in X |-> step(x)]
           D == {x \in X : Fin(x)}
           m == [x \in X |-> Cardinality(sub[x.elm])]
<1>1. N \in Nat
  BY Sizes
<1>2. RB_INSERT_COLOR(t, e) = Paint(it[N].t, it[N].t.root, "BLACK")
  BY DEF RB_INSERT_COLOR, Loop
<1>3. e \in S /\ S \subseteq Node /\ t \in Tree
  BY DEF Rising, Shape
<1>4. a \in X
  <2>1. SameLinks(t, t)
    BY <1>3 DEF SameLinks
  <2> QED BY <2>1, <1>3
<1>5. ASSUME NEW x \in X
      PROVE  /\ step(x) \in X
             /\ Fin(x) => step(x) = x
             /\ ~Fin(x) => Fin(step(x)) \/ Cardinality(sub[step(x).elm]) > Cardinality(sub[x.elm])
  <2>1. x = [t |-> x.t, elm |-> x.elm] /\ x.t \in Tree /\ x.elm \in S
    OBVIOUS
  <2>2. CASE Quiet(x.t, x.elm)
    <3>1. step(x) = x
      BY <2>1, <2>2, InsertColorRests
    <3>2. ASSUME Mid(x) PROVE Fin(x)
      <4>1. Shape(x.t, key_, S, sub)
        BY <3>2, ShapeRecolored
      <4> QED BY <4>1, <3>2, <2>2, RisenWell
    <3> QED BY <3>1, <3>2
  <2>3. CASE ~Quiet(x.t, x.elm)
    <3>1. Mid(x)
      BY <2>3
    <3>2. PICK bh2 : Rising(x.t, S, bh2, x.elm)
      BY <3>1
    <3>3. Shape(x.t, key_, S, sub)
      BY <3>1, ShapeRecolored
    <3>4. PICK y : y = step(x)
      OBVIOUS
    <3>5. /\ y \in [t : Tree, elm : S]
          /\ \/ Well(y.t, key_, S) /\ Quiet(y.t, y.elm)
             \/ /\ SameLinks(x.t, y.t) /\ RootOk(y.t, y.elm)
                /\ \E bh3 : Rising(y.t, S, bh3, y.elm)
                /\ Cardinality(sub[y.elm]) > Cardinality(sub[x.elm])
      BY <2>1, <2>3, <3>1, <3>2, <3>3, <3>4, InsertColorRound
    <3>6. SameLinks(x.t, y.t) => SameLinks(t, y.t)
      BY <3>1 DEF SameLinks
    <3> QED BY <2>3, <3>4, <3>5, <3>6
  <2> QED BY <2>2, <2>3
<1>6. \A x \in X : x.elm \in S /\ Cardinality(sub[x.elm]) \in Nat /\ Cardinality(sub[x.elm]) <= N
  BY <1>3, Sizes DEF Shape
<1> HIDE DEF step, N
<1>7. Progress(X, D, N, g, m)
  <2>1. \A x \in X : g[x] = step(x) /\ m[x] = Cardinality(sub[x.elm])
    OBVIOUS
  <2>2. g \in [X -> X] /\ m \in [X -> Nat]
    BY <1>5, <1>6
  <2>3. \A x \in X : x \in D <=> Fin(x)
    OBVIOUS
  <2> HIDE DEF X, D, g, m, Fin
  <2> QED BY <1>5, <1>6, <2>1, <2>2, <2>3 DEF Progress
<1>8. m[a] > 0
  <2>1. sub[e] # {} /\ sub[e] \in SUBSET Node
    BY <1>3, Sides, KidFacts DEF Shape
  <2> QED BY <2>1, <1>4, Sizes
<1> HIDE DEF a, X, D, g, m, Fin, Mid
<1>10. PICK f : f \in [0..N -> X] /\ f[0] = a /\ Rounds(f, X, N, g)
  BY <1>1, <1>4, <1>7, Repeats DEF Progress
<1>11. f = [i \in 0..N |-> IF i = 0 THEN a ELSE step(f[i - 1])]
  <2>1. ASSUME NEW i \in 0..N, i # 0 PROVE f[i] = step(f[i - 1])
    <3>1. i \in 1..N /\ i - 1 \in 0..N
      BY <1>1, <2>1
    <3>2. f[i - 1] \in X /\ f[i] = g[f[i - 1]]
      BY <1>10, <3>1 DEF Rounds
    <3> QED BY <3>2 DEF g
  <2>2. \A i \in 0..N : f[i] = IF i = 0 THEN a ELSE step(f[i - 1])
    BY <1>10, <2>1
  <2> QED BY <1>10, <2>2
<1>12. it = [i \in 0..N |-> IF i = 0 THEN a ELSE step(it[i - 1])]
  BY <1>11
<1> HIDE DEF it
<1>13. it[0] = a /\ \A i \in 1..N : it[i] = step(it[i - 1])
  BY <1>1, <1>12
<1>14. Rounds(it, X, N, g)
  BY <1>13 DEF g, Rounds
<1>15. it[N] \in X /\ it[N] \in D
  BY <1>1, <1>4, <1>7, <1>8, <1>13, <1>14, Settles
<1>16. Well(it[N].t, key_, S)
  BY <1>15 DEF D, Fin
<1>17. it[N].t.root # NULL
  BY <1>3, <1>16 DEF Well, Shape, Sub
<1> QED BY <1>2, <1>16, <1>17, RootPainted

-----------------------------------------------------------------------------
(* Searching *)

\* A subtree lies on one side of every node outside of it.
LEMMA Convex ==
  ASSUME NEW t, NEW key_, NEW S, NEW sub, Shape(t, key_, S, sub)
  PROVE  \A n \in S : \A a, b \in sub[n], m \in S \ sub[n] :
           key_[a] # key_[m] /\ (key_[a] < key_[m] <=> key_[b] < key_[m])
<1> DEFINE G == {n \in S : \A a, b \in sub[n], m \in S \ sub[n] :
                             key_[a] # key_[m] /\ (key_[a] < key_[m] <=> key_[b] < key_[m])}
<1>1. S \subseteq Node /\ key_ \in [Node -> Nat] /\ sub \in [Node -> SUBSET Node]
  BY DEF Shape
<1>2. t.root # NULL => t.root \in G
  BY DEF Shape, Sub
<1>3. ASSUME NEW n \in S, NEW s \in Side, n \in G, t.kid[s][n] # NULL
      PROVE  t.kid[s][n] \in G
  <2>1. PICK c : c = t.kid[s][n]
    OBVIOUS
  <2>2. c \in S /\ c # NULL /\ sub[c] \subseteq sub[n] /\ Sub(sub, c) = sub[c]
    BY <1>3, <2>1, KidFacts, KidsSmaller DEF Sub
  <2>3. ASSUME NEW a \in sub[c], NEW b \in sub[c], NEW m \in S \ sub[c]
        PROVE  key_[a] # key_[m] /\ (key_[a] < key_[m] <=> key_[b] < key_[m])
    <3>0. /\ a \in Node /\ b \in Node /\ m \in Node /\ n \in Node
          /\ key_[a] \in Nat /\ key_[b] \in Nat /\ key_[m] \in Nat /\ key_[n] \in Nat
      BY <1>1, <2>2
    <3>1. Less(s, key_[a], key_[n]) /\ Less(s, key_[b], key_[n])
      BY <2>1, <2>2, <3>0 DEF Shape, Sorted
    <3>2. CASE m \notin sub[n]
      BY <3>2, <1>3, <2>2
    <3>3. CASE m = n
      BY <3>0, <3>1, <3>3 DEF Less
    <3>4. CASE m \in sub[n] /\ m # n
      <4>1. PICK x \in Side : m \in Sub(sub, t.kid[x][n])
        BY <3>0, <3>4 DEF Shape, Subtrees
      <4>2. x = Opposite(s)
        BY <4>1, <2>1, <2>2, <2>3, Sides
      <4>3. Less(Opposite(s), key_[m], key_[n])
        BY <4>1, <4>2, <3>0 DEF Shape, Sorted
      <4> QED BY <4>3, <3>0, <3>1, Sides DEF Less, Opposite, Side
    <3> QED BY <3>2, <3>3, <3>4
  <2> QED BY <2>1, <2>2, <2>3
<1> HIDE DEF G
<1>4. S \subseteq G
  BY <1>2, <1>3, FromRoot
<1> QED BY <1>4 DEF G

\* No two nodes have the same key.
LEMMA KeysDiffer ==
  ASSUME NEW t, NEW key_, NEW S, NEW sub, Shape(t, key_, S, sub), NEW a \in S, NEW b \in S, a # b
  PROVE  key_[a] # key_[b]
<1>1. a \in sub[a] /\ S \subseteq Node /\ key_ \in [Node -> Nat]
  BY Sides, KidFacts DEF Shape
<1>2. CASE b \notin sub[a]
  BY <1>1, <1>2, Convex
<1>3. CASE b \in sub[a]
  <2>1. PICK s \in Side : b \in Sub(sub, t.kid[s][a])
    BY <1>1, <1>3 DEF Shape, Subtrees
  <2>2. Less(s, key_[b], key_[a])
    BY <1>1, <2>1 DEF Shape, Sorted
  <2> QED BY <1>1, <2>2 DEF Less
<1> QED BY <1>2, <1>3

\* The keys of other nodes do not matter.
LEMMA ShapeRekeyed ==
  ASSUME NEW t, NEW key_, NEW S, NEW sub, Shape(t, key_, S, sub), NEW key2 \in [Node -> Nat],
         \A n \in S : key2[n] = key_[n]
  PROVE  Shape(t, key2, S, sub)
<1>1. ASSUME NEW n \in S, NEW s \in Side, NEW m \in Node, m \in Sub(sub, t.kid[s][n])
      PROVE  Less(s, key2[m], key2[n])
  <2>1. m \in S
    BY <1>1, KidFacts, SubsNested
  <2>2. Less(s, key_[m], key_[n])
    BY <1>1 DEF Shape, Sorted
  <2> QED BY <2>1, <2>2 DEF Less
<1> QED BY <1>1 DEF Shape, Sorted

\* The key k belongs below q on the side x.
Spot(key_, S, sub, k, q, x) ==
  /\ q \in S /\ x \in Side /\ Less(x, k, key_[q])
  /\ \A m \in S \ sub[q] : k # key_[m] /\ (k < key_[m] <=> key_[q] < key_[m])

\* One step down.
LEMMA SpotBelow ==
  ASSUME NEW t, NEW key_, NEW S, NEW sub, Shape(t, key_, S, sub), NEW k \in Nat, NEW q, NEW x,
         Spot(key_, S, sub, k, q, x), NEW c, c = t.kid[x][q], c # NULL, k # key_[c]
  PROVE  Spot(key_, S, sub, k, c, IF k < key_[c] THEN "left" ELSE "right")
<1>1. /\ S \subseteq Node /\ key_ \in [Node -> Nat] /\ q \in S /\ x \in Side
      /\ c \in S /\ sub[c] \subseteq sub[q] /\ Sub(sub, c) = sub[c] /\ c \in sub[c] /\ q \in sub[q]
  BY KidFacts, KidsSmaller DEF Shape, Spot, Sub
<1>2. ASSUME NEW m \in S \ sub[c] PROVE k # key_[m] /\ (k < key_[m] <=> key_[c] < key_[m])
  <2>0. key_[m] \in Nat /\ key_[c] \in Nat /\ key_[q] \in Nat /\ m \in Node /\ c \in Node
    BY <1>1
  <2>1. Less(x, key_[c], key_[q]) /\ Less(x, k, key_[q])
    BY <1>1, <2>0 DEF Shape, Sorted, Spot
  <2>2. CASE m \notin sub[q]
    <3>1. key_[q] < key_[m] <=> key_[c] < key_[m]
      BY <1>1, <2>2, Convex
    <3> QED BY <1>2, <2>2, <3>1 DEF Spot
  <2>3. CASE m = q
    BY <2>0, <2>1, <2>3 DEF Less
  <2>4. CASE m \in sub[q] /\ m # q
    <3>1. PICK y \in Side : m \in Sub(sub, t.kid[y][q])
      BY <1>1, <2>0, <2>4 DEF Shape, Subtrees
    <3>2. y = Opposite(x)
      BY <1>1, <1>2, <3>1, Sides
    <3>3. Less(Opposite(x), key_[m], key_[q])
      BY <1>1, <2>0, <3>1, <3>2 DEF Shape, Sorted
    <3> QED BY <2>0, <2>1, <3>3, <1>1 DEF Less, Opposite, Side
  <2> QED BY <2>2, <2>3, <2>4
<1>3. Less(IF k < key_[c] THEN "left" ELSE "right", k, key_[c])
  <2>1. key_[c] \in Nat
    BY <1>1
  <2> QED BY <2>1 DEF Less
<1>4. (IF k < key_[c] THEN "left" ELSE "right") \in Side
  BY Sides
<1> QED BY <1>1, <1>2, <1>3, <1>4 DEF Spot

\* A leaf position where the key belongs tells that nobody has it.
LEMMA SpotFree ==
  ASSUME NEW t, NEW key_, NEW S, NEW sub, Shape(t, key_, S, sub), NEW k \in Nat, NEW q, NEW x,
         Spot(key_, S, sub, k, q, x), t.kid[x][q] = NULL
  PROVE  \A m \in S : key_[m] # k
<1> SUFFICES ASSUME NEW m \in S PROVE key_[m] # k
  OBVIOUS
<1>1. S \subseteq Node /\ key_ \in [Node -> Nat] /\ q \in S /\ x \in Side /\ Less(x, k, key_[q])
  BY DEF Shape, Spot
<1>2. CASE m \notin sub[q]
  BY <1>2 DEF Spot
<1>3. CASE m = q
  BY <1>1, <1>3 DEF Less
<1>4. CASE m \in sub[q] /\ m # q
  <2>1. PICK y \in Side : m \in Sub(sub, t.kid[y][q])
    BY <1>1, <1>4 DEF Shape, Subtrees
  <2>2. y = Opposite(x)
    BY <1>1, <2>1, Sides DEF Sub
  <2>3. Less(Opposite(x), key_[m], key_[q])
    BY <1>1, <2>1, <2>2 DEF Shape, Sorted
  <2> QED BY <1>1, <2>3 DEF Less, Opposite, Side
<1> QED BY <1>2, <1>3, <1>4

\* The descent of RB_INSERT finds the node in the way, or the place of the key.
LEMMA DescendFinds ==
  ASSUME NEW t, NEW key_, NEW S, NEW sub, Shape(t, key_, S, sub), NEW k \in Nat, Node # {},
         NEW d, d = Descend(t, key_, k)
  PROVE  /\ d.hit \in BOOLEAN
         /\ d.hit <=> \E m \in S : key_[m] = k
         /\ ~d.hit => \/ d.parent = NULL /\ S = {}
                      \/ /\ d.parent # NULL /\ t.kid[d.side][d.parent] = NULL
                         /\ Spot(key_, S, sub, k, d.parent, d.side)
<1> DEFINE N == Cardinality(Node)
           step(x) == IF x.tmp = NULL \/ x.hit THEN x
                      ELSE IF k = key_[x.tmp] THEN [x EXCEPT !.hit = TRUE]
                      ELSE LET s == IF k < key_[x.tmp] THEN "left" ELSE "right"
                           IN  [tmp |-> t.kid[s][x.tmp], parent |-> x.tmp, side |-> s, hit |-> FALSE]
           a == [tmp |-> t.root, parent |-> NULL, side |-> "left", hit |-> FALSE]
           it == CHOOSE it : it = [i \in 0..N |-> IF i = 0 THEN a ELSE step(it[i - 1])]
           Ok(x) == /\ x.tmp \in S \cup {NULL}
                    /\ x.parent = NULL => x.tmp = t.root
                    /\ x.parent # NULL => /\ Spot(key_, S, sub, k, x.parent, x.side)
                                          /\ x.tmp = t.kid[x.side][x.parent]
                    /\ x.hit => x.tmp # NULL /\ k = key_[x.tmp]
           X == {x \in [tmp : Link, parent : Link, side : Side, hit : BOOLEAN] : Ok(x)}
           Fin(x) == x.tmp = NULL \/ x.hit
           g == [x \in X |-> step(x)]
           D == {x \in X : Fin(x)}
           m == [x \in X |-> IF x.tmp = NULL THEN N ELSE N + 1 - Cardinality(sub[x.tmp])]
<1>1. N \in Nat /\ N > 0
  BY Sizes
<1>2. Descend(t, key_, k) = step(it[N])
  BY ZenonT(30) DEF Descend, Loop
<1>3. S \subseteq Node /\ t \in Tree /\ key_ \in [Node -> Nat] /\ t.root \in S \cup {NULL}
  BY DEF Shape
<1>4. a \in X
  BY <1>3, Sides DEF Link
<1>5. \A x \in X : x.tmp # NULL => /\ x.tmp \in S /\ Cardinality(sub[x.tmp]) \in Nat
                                   /\ Cardinality(sub[x.tmp]) <= N /\ Cardinality(sub[x.tmp]) > 0
  <2> SUFFICES ASSUME NEW n \in S
               PROVE Cardinality(sub[n]) \in Nat /\ Cardinality(sub[n]) <= N /\ Cardinality(sub[n]) > 0
    OBVIOUS
  <2>1. sub[n] \in SUBSET Node /\ n \in sub[n]
    BY <1>3, Sides, KidFacts DEF Shape
  <2> QED BY <2>1, Sizes
<1>6. ASSUME NEW x \in X
      PROVE  /\ step(x) \in X
             /\ Fin(x) => step(x) = x
             /\ ~Fin(x) => \/ Fin(step(x))
                           \/ /\ step(x).tmp # NULL
                              /\ Cardinality(sub[step(x).tmp]) < Cardinality(sub[x.tmp])
  <2>1. CASE Fin(x)
    BY <2>1
  <2>2. CASE ~Fin(x) /\ k = key_[x.tmp]
    <3>1. step(x) = [x EXCEPT !.hit = TRUE]
      BY <2>2
    <3> QED BY <2>2, <3>1
  <2>3. CASE ~Fin(x) /\ k # key_[x.tmp]
    <3>1. PICK s : s = IF k < key_[x.tmp] THEN "left" ELSE "right"
      OBVIOUS
    <3>2. PICK c : c = x.tmp
      OBVIOUS
    <3>3. PICK y : y = step(x)
      OBVIOUS
    <3>4. y = [tmp |-> t.kid[s][c], parent |-> c, side |-> s, hit |-> FALSE]
      BY <2>3, <3>1, <3>2, <3>3
    <3>5. c \in S /\ c # NULL /\ s \in Side /\ c \in Link /\ k # key_[c]
      BY <2>3, <3>1, <3>2, <1>3, Sides DEF Link
    <3>6. t.kid[s][c] \in Link /\ (t.kid[s][c] # NULL => /\ t.kid[s][c] \in S
                                                         /\ Cardinality(sub[t.kid[s][c]]) < Cardinality(sub[c]))
      BY <3>5, KidFacts, KidsSmaller
    <3>7. Spot(key_, S, sub, k, c, s)
      <4>1. CASE x.parent # NULL
        <5>1. Spot(key_, S, sub, k, x.parent, x.side) /\ c = t.kid[x.side][x.parent]
          BY <4>1, <3>2
        <5> QED BY <5>1, <3>1, <3>2, <3>5, SpotBelow
      <4>2. CASE x.parent = NULL
        <5>1. c = t.root /\ sub[c] = S
          BY <4>2, <3>2, <3>5 DEF Shape, Sub
        <5>2. Less(s, k, key_[c])
          <6>1. key_[c] \in Nat
            BY <1>3, <3>5
          <6> QED BY <6>1, <3>1, <3>2, <3>5 DEF Less
        <5> QED BY <3>5, <5>1, <5>2 DEF Spot
      <4> QED BY <4>1, <4>2
    <3>8. y \in X
      BY <3>4, <3>5, <3>6, <3>7
    <3>9. y.tmp = NULL \/ (y.tmp # NULL /\ Cardinality(sub[y.tmp]) < Cardinality(sub[c]))
      BY <3>4, <3>6
    <3> HIDE DEF step, X
    <3> QED BY <2>3, <3>2, <3>3, <3>8, <3>9
  <2> QED BY <2>1, <2>2, <2>3, ZenonT(30)
<1> HIDE DEF step, N
<1>7. Progress(X, D, N, g, m)
  <2>1. \A x \in X : /\ g[x] = step(x)
                     /\ x.tmp = NULL => m[x] = N
                     /\ x.tmp # NULL => m[x] = N + 1 - Cardinality(sub[x.tmp])
    OBVIOUS
  <2>2. g \in [X -> X] /\ m \in [X -> Nat]
    <3> HIDE DEF X
    <3> QED BY <1>1, <1>5, <1>6
  <2>3. \A x \in X : (x \in D <=> Fin(x)) /\ (~Fin(x) => x.tmp # NULL)
    OBVIOUS
  <2> HIDE DEF X, D, g, m, Fin
  <2>4. ASSUME NEW x \in X
        PROVE  m[x] <= N /\ (x \in D => g[x] \in D) /\ (x \notin D => g[x] \in D \/ m[g[x]] > m[x])
    <3>1. m[x] <= N
      BY <1>1, <1>5, <2>1
    <3>2. x \in D => g[x] \in D
      BY <1>6, <2>1, <2>3
    <3>3. ASSUME x \notin D, g[x] \notin D PROVE m[g[x]] > m[x]
      <4>1. /\ g[x] \in X /\ g[x].tmp # NULL /\ x.tmp # NULL
            /\ Cardinality(sub[g[x].tmp]) < Cardinality(sub[x.tmp])
        BY <1>6, <2>1, <2>3, <3>3
      <4>2. m[x] = N + 1 - Cardinality(sub[x.tmp]) /\ m[g[x]] = N + 1 - Cardinality(sub[g[x].tmp])
        BY <2>1, <4>1
      <4>3. Cardinality(sub[g[x].tmp]) \in Nat /\ Cardinality(sub[x.tmp]) \in Nat
        BY <1>5, <4>1
      <4> QED BY <1>1, <4>1, <4>2, <4>3
    <3> QED BY <3>1, <3>2, <3>3
  <2> QED BY <2>2, <2>4 DEF Progress
<1>8. m[a] > 0
  <2>1. m[a] = IF a.tmp = NULL THEN N ELSE N + 1 - Cardinality(sub[a.tmp])
    BY <1>4
  <2> HIDE DEF m, a
  <2> QED BY <2>1, <1>1, <1>4, <1>5
<1> HIDE DEF a, X, D, g, m, Fin, Ok
<1>10. PICK f : f \in [0..N -> X] /\ f[0] = a /\ Rounds(f, X, N, g)
  BY <1>1, <1>4, <1>7, Repeats DEF Progress
<1>11. f = [i \in 0..N |-> IF i = 0 THEN a ELSE step(f[i - 1])]
  <2>1. ASSUME NEW i \in 0..N, i # 0 PROVE f[i] = step(f[i - 1])
    <3>1. i \in 1..N /\ i - 1 \in 0..N
      BY <1>1, <2>1
    <3>2. f[i - 1] \in X /\ f[i] = g[f[i - 1]]
      BY <1>10, <3>1 DEF Rounds
    <3> QED BY <3>2 DEF g
  <2>2. \A i \in 0..N : f[i] = IF i = 0 THEN a ELSE step(f[i - 1])
    BY <1>10, <2>1
  <2> QED BY <1>10, <2>2
<1>12. it = [i \in 0..N |-> IF i = 0 THEN a ELSE step(it[i - 1])]
  BY <1>11
<1> HIDE DEF it
<1>13. it[0] = a /\ \A i \in 1..N : it[i] = step(it[i - 1])
  BY <1>1, <1>12
<1>14. Rounds(it, X, N, g)
  BY <1>13 DEF g, Rounds
<1>15. it[N] \in X /\ it[N] \in D
  BY <1>1, <1>4, <1>7, <1>8, <1>13, <1>14, Settles
<1>16. d \in X /\ Fin(d)
  <2>1. step(it[N]) = it[N] /\ Fin(it[N])
    BY <1>6, <1>15 DEF D
  <2> QED BY <1>2, <1>15, <2>1
<1>17. d.hit \in BOOLEAN /\ d.tmp \in S \cup {NULL} /\ Ok(d) /\ (d.tmp = NULL \/ d.hit)
  BY <1>16 DEF X, Fin, Ok
<1>18. CASE d.hit
  BY <1>17, <1>18 DEF Ok
<1>19. CASE ~d.hit
  <2>1. CASE d.parent = NULL
    BY <1>17, <1>19, <2>1 DEF Ok, Shape, Sub
  <2>2. CASE d.parent # NULL
    <3>1. Spot(key_, S, sub, k, d.parent, d.side) /\ t.kid[d.side][d.parent] = NULL
      BY <1>17, <1>19, <2>2 DEF Ok
    <3>2. \A n \in S : key_[n] # k
      BY <3>1, SpotFree
    <3> QED BY <1>17, <1>19, <2>2, <3>1, <3>2
  <2> QED BY <2>1, <2>2
<1> QED BY <1>18, <1>19, <1>17

-----------------------------------------------------------------------------
(* RB_INSERT *)

\* u is t with the red leaf elm on side x of q, or as the only node.
Grown(t, u, elm, q, x) ==
  /\ u \in Tree
  /\ u.parent[elm] = q /\ u.color[elm] = "RED" /\ \A s \in Side : u.kid[s][elm] = NULL
  /\ \A m \in Node : m # elm => u.parent[m] = t.parent[m] /\ u.color[m] = t.color[m]
  /\ q = NULL => u.root = elm
  /\ q # NULL => /\ u.root = t.root /\ u.kid[x][q] = elm
                 /\ \A s \in Side, m \in Node : m # elm /\ ~(m = q /\ s = x) => u.kid[s][m] = t.kid[s][m]

LEMMA LeafLinked ==
  ASSUME NEW t \in Tree, NEW key_, NEW elm \in Node, NEW d, d = Descend(t, key_, key_[elm]),
         d.parent \in Link, d.parent # elm, d.parent # NULL => d.side \in Side
  PROVE  \E u : Grown(t, u, elm, d.parent, d.side) /\ RB_INSERT(t, key_, elm) = RB_INSERT_COLOR(u, elm)
<1> DEFINE t1 == [t EXCEPT !.parent[elm] = d.parent, !.kid.left[elm] = NULL, !.kid.right[elm] = NULL,
                           !.color[elm] = "RED"]
           t2 == IF d.parent = NULL THEN [t1 EXCEPT !.root = elm]
                                    ELSE [t1 EXCEPT !.kid[d.side][d.parent] = elm]
<1>1. RB_INSERT(t, key_, elm) = RB_INSERT_COLOR(t2, elm)
  BY DEF RB_INSERT
<1>2. /\ t1 \in Tree /\ t1.root = t.root
      /\ t1.parent[elm] = d.parent /\ t1.color[elm] = "RED"
      /\ \A s \in Side : t1.kid[s][elm] = NULL
      /\ \A m \in Node : m # elm => t1.parent[m] = t.parent[m] /\ t1.color[m] = t.color[m]
      /\ \A s \in Side, m \in Node : m # elm => t1.kid[s][m] = t.kid[s][m]
  <2> DEFINE v == [t EXCEPT !.parent[elm] = d.parent, !.color[elm] = "RED"]
  <2>1. /\ v \in Tree /\ v.root = t.root /\ v.kid = t.kid
        /\ v.parent[elm] = d.parent /\ v.color[elm] = "RED"
        /\ \A m \in Node : m # elm => v.parent[m] = t.parent[m] /\ v.color[m] = t.color[m]
    BY DEF Tree, Link, Color
  <2>2. t1 = SetKid(SetKid(v, "left", elm, NULL), "right", elm, NULL)
    BY DEF SetKid, Tree, Side
  <2> HIDE DEF v, t1
  <2>3. PICK w : w = SetKid(v, "left", elm, NULL)
    OBVIOUS
  <2>4. KidSet(v, w, "left", elm, NULL)
    BY <2>1, <2>3, SetKidFacts, Sides DEF Link
  <2>5. KidSet(w, t1, "right", elm, NULL)
    <3>1. w \in Tree
      BY <2>4 DEF KidSet
    <3>2. KidSet(w, SetKid(w, "right", elm, NULL), "right", elm, NULL)
      BY <3>1, SetKidFacts, Sides DEF Link
    <3> QED BY <2>2, <2>3, <3>2
  <2> QED BY <2>1, <2>4, <2>5, Sides DEF KidSet, Side
<1> HIDE DEF t1
<1>3. Grown(t, t2, elm, d.parent, d.side)
  <2>1. CASE d.parent = NULL
    <3>1. t2 = [t1 EXCEPT !.root = elm]
      BY <2>1
    <3>2. t2 \in Tree /\ t2.root = elm /\ t2.parent = t1.parent /\ t2.color = t1.color /\ t2.kid = t1.kid
      BY <3>1, <1>2 DEF Tree
    <3> QED BY <2>1, <3>2, <1>2 DEF Grown
  <2>2. CASE d.parent # NULL
    <3>1. t2 = SetKid(t1, d.side, d.parent, elm)
      BY <2>2 DEF SetKid
    <3>2. KidSet(t1, t2, d.side, d.parent, elm)
      BY <2>2, <3>1, <1>2, SetKidFacts DEF Link
    <3> HIDE DEF t2
    <3> QED BY <2>2, <3>2, <1>2 DEF Grown, KidSet, Link
  <2> QED BY <2>1, <2>2
<1> QED BY <1>1, <1>3

\* The subtrees after a leaf has been linked below q.
GrownSubs(sub, elm, q) ==
  [m \in Node |-> IF m = elm THEN {elm} ELSE IF q \in sub[m] THEN sub[m] \cup {elm} ELSE sub[m]]

LEMMA ShapeGrows ==
  ASSUME NEW t, NEW key_, NEW S, NEW sub, Shape(t, key_, S, sub), NEW elm \in Node \ S, NEW q, NEW x,
         Spot(key_, S, sub, key_[elm], q, x), t.kid[x][q] = NULL, NEW u, Grown(t, u, elm, q, x)
  PROVE  Shape(u, key_, S \cup {elm}, GrownSubs(sub, elm, q))
<1> PICK S2 : S2 = S \cup {elm}
  OBVIOUS
<1> PICK sub2 : sub2 = GrownSubs(sub, elm, q)
  OBVIOUS
<1>1. /\ q \in S /\ q \in Node /\ q # NULL /\ q # elm /\ x \in Side /\ elm # NULL /\ elm \notin S /\ S \subseteq Node
      /\ sub \in [Node -> SUBSET Node]
  BY RBAssumption DEF Spot, Shape
<1>2. \A n \in S : /\ n # elm /\ n # NULL /\ n \in sub[n] /\ sub[n] \subseteq S /\ elm \notin sub[n]
                   /\ \A s \in Side : n \notin Sub(sub, t.kid[s][n]) /\ (t.kid[s][n] # NULL => t.kid[s][n] \in S)
  BY <1>1, KidFacts, SubsNested, Sides
<1>3. /\ sub2 \in [Node -> SUBSET Node] /\ sub2[elm] = {elm}
      /\ \A n \in S, m \in Node : m # elm => (m \in sub2[n] <=> m \in sub[n])
      /\ \A n \in S : elm \in sub2[n] <=> q \in sub[n]
  BY <1>1, <1>2 DEF GrownSubs
<1>4. /\ \A n \in S, s \in Side : ~(n = q /\ s = x) => u.kid[s][n] = t.kid[s][n]
      /\ u.kid[x][q] = elm /\ \A s \in Side : u.kid[s][elm] = NULL
  BY <1>1, <1>2 DEF Grown
<1>5. \A n \in S, s \in Side, m \in Node : m # elm =>
        (m \in Sub(sub2, u.kid[s][n]) <=> m \in Sub(sub, t.kid[s][n]))
  <2> SUFFICES ASSUME NEW n \in S, NEW s \in Side, NEW m \in Node, m # elm
               PROVE  m \in Sub(sub2, u.kid[s][n]) <=> m \in Sub(sub, t.kid[s][n])
    OBVIOUS
  <2>1. CASE n = q /\ s = x
    BY <2>1, <1>1, <1>3, <1>4 DEF Sub
  <2>2. CASE ~(n = q /\ s = x)
    BY <2>2, <1>2, <1>3, <1>4 DEF Sub
  <2> QED BY <2>1, <2>2
<1>6. \A n \in S, s \in Side : elm \in Sub(sub2, u.kid[s][n]) <=>
        (n = q /\ s = x) \/ q \in Sub(sub, t.kid[s][n])
  <2> SUFFICES ASSUME NEW n \in S, NEW s \in Side
               PROVE  elm \in Sub(sub2, u.kid[s][n]) <=> (n = q /\ s = x) \/ q \in Sub(sub, t.kid[s][n])
    OBVIOUS
  <2>1. CASE n = q /\ s = x
    BY <2>1, <1>1, <1>3, <1>4 DEF Sub
  <2>2. CASE ~(n = q /\ s = x)
    BY <2>2, <1>2, <1>3, <1>4 DEF Sub
  <2> QED BY <2>1, <2>2
<1>7. \A n \in S, m \in Node : m \in sub[n] <=> m = n \/ \E s \in Side : m \in Sub(sub, t.kid[s][n])
  BY DEF Shape, Subtrees
<1>8. Subtrees(u, S2, sub2)
  <2>1. \A m \in Node : m \in sub2[elm] <=> m = elm \/ \E s \in Side : m \in Sub(sub2, u.kid[s][elm])
    BY <1>3, <1>4 DEF Sub
  <2>2. ASSUME NEW n \in S, NEW m \in Node
        PROVE  m \in sub2[n] <=> m = n \/ \E s \in Side : m \in Sub(sub2, u.kid[s][n])
    <3>1. CASE m # elm
      BY <3>1, <1>3, <1>5, <1>7
    <3>2. CASE m = elm
      <4>1. elm \in sub2[n] <=> q = n \/ \E s \in Side : q \in Sub(sub, t.kid[s][n])
        BY <1>1, <1>3, <1>7
      <4> QED BY <4>1, <3>2, <1>1, <1>2, <1>6
    <3> QED BY <3>1, <3>2
  <2> QED BY <2>1, <2>2 DEF Subtrees
<1>9. Sorted(u, key_, S2, sub2)
  <2>0. key_ \in [Node -> Nat] /\ Sorted(t, key_, S, sub)
    BY DEF Shape
  <2>1. \A m \in Node, s \in Side : m \notin Sub(sub2, u.kid[s][elm])
    BY <1>4 DEF Sub
  <2>2. ASSUME NEW n \in S, NEW s \in Side, NEW m \in Node, m \in Sub(sub2, u.kid[s][n])
        PROVE  Less(s, key_[m], key_[n])
    <3>1. CASE m # elm
      BY <3>1, <2>2, <2>0, <1>5 DEF Sorted
    <3>2. CASE m = elm /\ n = q /\ s = x
      BY <3>2 DEF Spot
    <3>3. CASE m = elm /\ ~(n = q /\ s = x)
      <4>1. PICK c : c = t.kid[s][n]
        OBVIOUS
      <4>2. q \in Sub(sub, c)
        BY <3>3, <4>1, <2>2, <1>6
      <4>3. c \in S /\ q \in sub[c]
        BY <4>1, <4>2, <1>2 DEF Sub
      <4>4. n \notin sub[c] /\ n \notin sub[q]
        <5>1. n \notin sub[c]
          BY <4>1, <4>3, <1>2 DEF Sub
        <5>2. sub[q] \subseteq sub[c]
          BY <4>3, SubsNested
        <5> QED BY <5>1, <5>2
      <4>5. key_[elm] # key_[n] /\ (key_[elm] < key_[n] <=> key_[q] < key_[n])
        BY <4>4 DEF Spot
      <4>6. Less(s, key_[q], key_[n])
        BY <4>1, <4>2, <1>1, <2>0 DEF Sorted
      <4>7. key_[elm] \in Nat /\ key_[n] \in Nat /\ key_[q] \in Nat
        BY <1>1, <2>0
      <4> QED BY <3>3, <4>5, <4>6, <4>7 DEF Less
    <3> QED BY <3>1, <3>2, <3>3
  <2> QED BY <2>1, <2>2 DEF Sorted
<1>10. u.root = t.root /\ t.root \in S /\ sub[t.root] = S
  BY <1>1 DEF Grown, Shape, Sub
<1>11. Sub(sub2, u.root) = S2
  <2>1. sub2[t.root] = S2
    BY <1>1, <1>3, <1>10
  <2> QED BY <2>1, <1>10, <1>2 DEF Sub
<1>12. /\ u.parent[elm] = q
       /\ \A m \in Node : m # elm => u.parent[m] = t.parent[m]
  BY DEF Grown
<1>13. Joints(u, S2)
  <2>0. Joints(t, S)
    BY DEF Shape
  <2>1. ASSUME NEW n \in S2, NEW s \in Side, u.kid[s][n] # NULL
        PROVE  u.kid[s][n] \in S2 /\ u.parent[u.kid[s][n]] = n
    <3>1. n \in S
      BY <2>1, <1>4
    <3>2. CASE n = q /\ s = x
      BY <3>2, <1>4, <1>12
    <3>3. CASE ~(n = q /\ s = x)
      <4>1. u.kid[s][n] = t.kid[s][n]
        BY <3>1, <3>3, <1>4
      <4>2. t.kid[s][n] \in S /\ t.parent[t.kid[s][n]] = n
        BY <4>1, <3>1, <2>0, <2>1 DEF Joints
      <4>3. t.kid[s][n] # elm /\ t.kid[s][n] \in Node
        BY <4>2, <1>1
      <4> QED BY <4>1, <4>2, <4>3, <1>12
    <3> QED BY <3>2, <3>3
  <2>2. ASSUME NEW n \in S2, n # u.root
        PROVE  u.parent[n] \in S2 /\ \E s \in Side : u.kid[s][u.parent[n]] = n
    <3>1. CASE n = elm
      BY <3>1, <1>1, <1>4, <1>12
    <3>2. CASE n \in S
      <4>1. t.parent[n] \in S /\ u.parent[n] = t.parent[n]
        BY <3>2, <2>2, <2>0, <1>1, <1>10, <1>12 DEF Joints
      <4>2. PICK s \in Side : t.kid[s][t.parent[n]] = n
        BY <3>2, <2>2, <2>0, <1>10 DEF Joints
      <4>3. ~(t.parent[n] = q /\ s = x)
        BY <4>2, <3>2, <1>2
      <4> QED BY <4>1, <4>2, <4>3, <1>4
    <3> QED BY <3>1, <3>2
  <2> QED BY <2>1, <2>2 DEF Joints
<1>14. u.parent[u.root] = NULL /\ u \in Tree /\ S2 \subseteq Node /\ key_ \in [Node -> Nat]
  BY <1>10, <1>12, <1>1, <1>2 DEF Shape, Grown
<1>15. Shape(u, key_, S2, sub2)
  BY <1>3, <1>8, <1>9, <1>10, <1>11, <1>13, <1>14 DEF Shape
<1> QED BY <1>15

\* The first node.
LEMMA ShapeStarts ==
  ASSUME NEW t, NEW key_ \in [Node -> Nat], NEW elm \in Node, NEW u, NEW x, Grown(t, u, elm, NULL, x)
  PROVE  Shape(u, key_, {elm}, [m \in Node |-> {elm}])
<1>1. elm # NULL /\ u.root = elm /\ u \in Tree /\ u.parent[elm] = NULL /\ \A s \in Side : u.kid[s][elm] = NULL
  BY RBAssumption DEF Grown
<1>2. Joints(u, {elm})
  BY <1>1 DEF Joints
<1> DEFINE sub == [m \in Node |-> {elm}]
<1>3. sub \in [Node -> SUBSET Node] /\ sub[elm] = {elm}
  OBVIOUS
<1> HIDE DEF sub
<1>4. \A s \in Side, m \in Node : m \notin Sub(sub, u.kid[s][elm])
  BY <1>1 DEF Sub
<1>5. Subtrees(u, {elm}, sub) /\ Sorted(u, key_, {elm}, sub)
  BY <1>3, <1>4 DEF Subtrees, Sorted
<1>6. Sub(sub, u.root) = {elm}
  BY <1>1, <1>3 DEF Sub
<1>7. Shape(u, key_, {elm}, sub)
  BY <1>1, <1>2, <1>3, <1>5, <1>6 DEF Shape
<1> QED BY <1>7 DEF sub

\* A new leaf is red: it can only disagree with its parent.
LEMMA LeafRises ==
  ASSUME NEW t, NEW key_, NEW S, NEW sub, Shape(t, key_, S, sub), NEW bh, Fits(t, S, bh, NULL, "left", NULL),
         NEW elm \in Node \ S, NEW q, NEW x, q # NULL => t.kid[x][q] = NULL, q = NULL => S = {}, NEW u, Grown(t, u, elm, q, x)
  PROVE  Rising(u, S \cup {elm}, [bh EXCEPT ![elm] = 0], elm)
<1> PICK bh2 : bh2 = [bh EXCEPT ![elm] = 0]
  OBVIOUS
<1>1. /\ bh2 \in [Node -> Nat] /\ bh2[elm] = 0 /\ \A m \in Node : m # elm => bh2[m] = bh[m]
      /\ \A n \in S : n # elm /\ n \in Node /\ n # NULL
      /\ elm # NULL
  BY RBAssumption DEF Fits, Shape
<1>2. /\ u.color[elm] = "RED" /\ \A s \in Side : u.kid[s][elm] = NULL
      /\ \A m \in Node : m # elm => u.color[m] = t.color[m]
  BY DEF Grown
<1>3. \A s \in Side : Fit(u.color, bh2, elm, s, u.kid[s][elm], NULL, "left", elm)
  BY <1>1, <1>2 DEF Fit, Height
<1>4. ASSUME NEW n \in S, NEW s \in Side
      PROVE  Fit(u.color, bh2, n, s, u.kid[s][n], NULL, "left", elm)
  <2>1. Fit(t.color, bh, n, s, t.kid[s][n], NULL, "left", NULL) /\ bh2[n] = bh[n] /\ u.color[n] = t.color[n] /\ n # NULL
    BY <1>1, <1>2 DEF Fits
  <2>2. q # NULL
    BY <1>4
  <2>3. CASE n = q /\ s = x
    <3>1. u.kid[s][n] = elm /\ t.kid[s][n] = NULL
      BY <2>2, <2>3 DEF Grown
    <3>2. Height(u.color, bh2, elm) = 0
      BY <1>1, <1>2 DEF Height
    <3>3. bh[n] = 0
      BY <2>1, <3>1 DEF Fit, Height
    <3> QED BY <2>1, <3>1, <3>2, <3>3 DEF Fit
  <2>4. CASE ~(n = q /\ s = x)
    <3>1. PICK c : c = t.kid[s][n]
      OBVIOUS
    <3>2. u.kid[s][n] = c
      BY <3>1, <2>2, <2>4, <1>1 DEF Grown
    <3>3. c # NULL => c \in S /\ c # elm /\ c \in Node
      BY <3>1, <1>1, KidFacts
    <3>4. Height(u.color, bh2, c) = Height(t.color, bh, c) /\ (Dark(u.color, c) <=> Dark(t.color, c))
      BY <3>3, <1>1, <1>2 DEF Height, Dark
    <3> QED BY <2>1, <3>1, <3>2, <3>4 DEF Fit, Dark
  <2> QED BY <2>3, <2>4
<1>5. Fits(u, S \cup {elm}, bh2, NULL, "left", elm)
  BY <1>1, <1>3, <1>4 DEF Fits
<1>6. Rising(u, S \cup {elm}, bh2, elm)
  BY <1>2, <1>5 DEF Rising, Dark
<1> QED BY <1>6

\* RB_INSERT keeps a sound tree.
LEMMA InsertSound ==
  ASSUME NEW t, NEW key_, NEW S, Sound(t, key_, S), NEW elm \in Node \ S, \A m \in S : key_[m] # key_[elm]
  PROVE  Sound(RB_INSERT(t, key_, elm), key_, S \cup {elm})
<1>1. PICK sub, bh : Shape(t, key_, S, sub) /\ Fits(t, S, bh, NULL, "left", NULL)
  BY DEF Sound, Well
<1>2. t \in Tree /\ S \subseteq Node /\ key_ \in [Node -> Nat] /\ key_[elm] \in Nat /\ Node # {} /\ elm # NULL
  BY <1>1, RBAssumption DEF Shape
<1>3. PICK d : d = Descend(t, key_, key_[elm])
  OBVIOUS
<1>4. ~d.hit /\ \/ d.parent = NULL /\ S = {}
                \/ /\ d.parent # NULL /\ t.kid[d.side][d.parent] = NULL
                   /\ Spot(key_, S, sub, key_[elm], d.parent, d.side)
  BY <1>1, <1>2, <1>3, DescendFinds
<1>5. d.parent \in Link /\ d.parent # elm /\ (d.parent # NULL => d.side \in Side)
  BY <1>2, <1>4 DEF Spot, Link
<1>6. PICK u : Grown(t, u, elm, d.parent, d.side) /\ RB_INSERT(t, key_, elm) = RB_INSERT_COLOR(u, elm)
  BY <1>2, <1>3, <1>5, LeafLinked
<1>7. Rising(u, S \cup {elm}, [bh EXCEPT ![elm] = 0], elm)
  BY <1>1, <1>4, <1>6, LeafRises
<1>8. \E sub2 : Shape(u, key_, S \cup {elm}, sub2)
  <2>1. CASE d.parent = NULL
    <3>1. S \cup {elm} = {elm} /\ Grown(t, u, elm, NULL, d.side)
      BY <2>1, <1>4, <1>6
    <3>2. Shape(u, key_, {elm}, [m \in Node |-> {elm}])
      BY <3>1, <1>2, ShapeStarts
    <3>3. \E sub2 : Shape(u, key_, {elm}, sub2)
      BY <3>2
    <3> QED BY <3>1, <3>3
  <2>2. CASE d.parent # NULL
    BY <2>2, <1>1, <1>4, <1>6, ShapeGrows
  <2> QED BY <2>1, <2>2
<1>9. RootOk(u, elm)
  <2>1. CASE d.parent = NULL
    BY <2>1, <1>6 DEF RootOk, Grown
  <2>2. CASE d.parent # NULL
    <3>1. t.root \in S /\ u.root = t.root
      BY <2>2, <1>1, <1>4, <1>6 DEF Grown, Shape, Spot, Sub
    <3>2. t.root \in Node /\ t.root # NULL /\ t.root # elm
      BY <3>1, <1>2, RBAssumption
    <3> QED BY <3>1, <3>2, <1>6 DEF RootOk, Grown, Sound, IsBlack
  <2> QED BY <2>1, <2>2
<1> QED BY <1>6, <1>7, <1>8, <1>9, InsertColorSound

-----------------------------------------------------------------------------
(* RB_MIN *)

\* All keys of the subtree at x come before the others of T.
Foremost(key_, sub, T, x) == \A y \in sub[x], m \in T \ sub[x] : key_[y] < key_[m]

LEMMA ForemostBelow ==
  ASSUME NEW t, NEW key_, NEW S, NEW sub, Shape(t, key_, S, sub), NEW T \in SUBSET S,
         NEW x \in S, NEW c, c = t.kid["left"][x], c # NULL, Foremost(key_, sub, T, x)
  PROVE  Foremost(key_, sub, T, c)
<1>1. c \in S /\ sub[c] \subseteq sub[x] /\ sub[x] \subseteq S /\ S \subseteq Node /\ key_ \in [Node -> Nat]
  BY Sides, KidFacts, KidsSmaller, SubsNested DEF Shape
<1>2. ASSUME NEW y \in sub[c], NEW m \in T \ sub[c] PROVE key_[y] < key_[m]
  <2>0. key_[x] \in Nat /\ key_[y] \in Nat /\ key_[m] \in Nat /\ m \in Node /\ y \in Node
    BY <1>1
  <2>1. CASE m \notin sub[x]
    BY <2>1, <1>1 DEF Foremost
  <2>2. CASE m \in sub[x]
    <3>1. Less("left", key_[y], key_[x])
      BY <2>0, Sides DEF Shape, Sorted, Sub
    <3>2. m = x \/ \E s \in Side : m \in Sub(sub, t.kid[s][x])
      BY <2>0, <2>2 DEF Shape, Subtrees
    <3>3. m = x \/ m \in Sub(sub, t.kid["right"][x])
      BY <3>2 DEF Side, Sub
    <3>4. m = x \/ Less("right", key_[m], key_[x])
      BY <2>0, <3>3, Sides DEF Shape, Sorted
    <3> QED BY <2>0, <3>1, <3>4 DEF Less
  <2> QED BY <2>1, <2>2
<1> QED BY <1>2 DEF Foremost

\* The leftmost node has the earliest key of its subtree.
LEMMA LeftmostFacts ==
  ASSUME NEW t, NEW key_, NEW S, NEW sub, Shape(t, key_, S, sub), NEW n \in S, NEW r, r = Leftmost(t, n)
  PROVE  /\ r \in S /\ r \in sub[n] /\ t.kid["left"][r] = NULL
         /\ \A m \in sub[n] : m # r => key_[r] < key_[m]
<1> DEFINE N == Cardinality(Node)
           step(x) == IF t.kid.left[x] = NULL THEN x ELSE t.kid.left[x]
           it == CHOOSE it : it = [i \in 0..N |-> IF i = 0 THEN n ELSE step(it[i - 1])]
           X == {x \in S : x \in sub[n] /\ Foremost(key_, sub, sub[n], x)}
           g == [x \in X |-> step(x)]
           D == {x \in X : t.kid["left"][x] = NULL}
           m == [x \in X |-> N + 1 - Cardinality(sub[x])]
<1>1. N \in Nat
  BY Sizes
<1>2. r = it[N]
  BY DEF Leftmost, Loop
<1>3. sub[n] \subseteq S /\ n \in sub[n] /\ S \subseteq Node
  BY SubsNested, KidFacts, Sides DEF Shape
<1>4. n \in X
  BY <1>3 DEF Foremost
<1>5. ASSUME NEW x \in X
      PROVE  /\ step(x) \in X
             /\ x \in D => step(x) = x
             /\ x \notin D => Cardinality(sub[step(x)]) < Cardinality(sub[x])
  <2>1. CASE t.kid["left"][x] = NULL
    BY <2>1
  <2>2. CASE t.kid["left"][x] # NULL
    <3>1. PICK c : c = t.kid["left"][x]
      OBVIOUS
    <3>2. step(x) = c
      BY <3>1, <2>2
    <3>3. c \in S /\ c \in sub[c] /\ sub[c] \subseteq sub[x] /\ Cardinality(sub[c]) < Cardinality(sub[x])
      BY <3>1, <2>2, Sides, KidFacts, KidsSmaller
    <3>4. sub[x] \subseteq sub[n]
      BY <1>3, SubsNested
    <3>5. Foremost(key_, sub, sub[n], c)
      BY <1>3, <2>2, <3>1, ForemostBelow
    <3> QED BY <2>2, <3>2, <3>3, <3>4, <3>5
  <2> QED BY <2>1, <2>2
<1>6. \A x \in X : Cardinality(sub[x]) \in Nat /\ Cardinality(sub[x]) <= N /\ Cardinality(sub[x]) > 0
  <2> SUFFICES ASSUME NEW x \in X
               PROVE  Cardinality(sub[x]) \in Nat /\ Cardinality(sub[x]) <= N /\ Cardinality(sub[x]) > 0
    OBVIOUS
  <2>1. x \in S /\ x \in sub[x] /\ sub[x] \in SUBSET Node
    BY <1>3, Sides, KidFacts DEF Shape
  <2> QED BY <2>1, Sizes
<1> HIDE DEF step, N
<1>7. Progress(X, D, N, g, m)
  <2>1. \A x \in X : g[x] = step(x) /\ m[x] = N + 1 - Cardinality(sub[x])
    OBVIOUS
  <2>2. g \in [X -> X]
    BY <1>5
  <2>3. \A x \in X : N + 1 - Cardinality(sub[x]) \in Nat /\ N + 1 - Cardinality(sub[x]) <= N
    <3> HIDE DEF X
    <3> QED BY <1>1, <1>6
  <2>4. m \in [X -> Nat]
    BY <2>3
  <2>5. ASSUME NEW x \in X, x \notin D PROVE m[step(x)] > m[x]
    <3>1. step(x) \in X /\ Cardinality(sub[step(x)]) < Cardinality(sub[x])
      BY <1>5, <2>5
    <3> HIDE DEF X, D, m
    <3> QED BY <3>1, <2>1, <1>1, <1>6
  <2> HIDE DEF X, D, g, m
  <2> QED BY <1>5, <1>6, <2>1, <2>2, <2>3, <2>4, <2>5 DEF Progress
<1>8. m[n] > 0
  <2>1. m[n] = N + 1 - Cardinality(sub[n])
    BY <1>4
  <2>2. Cardinality(sub[n]) \in Nat /\ Cardinality(sub[n]) <= N
    BY <1>4, <1>6
  <2> HIDE DEF m
  <2> QED BY <2>1, <2>2, <1>1
<1> HIDE DEF X, D, g, m
<1>10. PICK f : f \in [0..N -> X] /\ f[0] = n /\ Rounds(f, X, N, g)
  BY <1>1, <1>4, <1>7, Repeats DEF Progress
<1>11. f = [i \in 0..N |-> IF i = 0 THEN n ELSE step(f[i - 1])]
  <2>1. ASSUME NEW i \in 0..N, i # 0 PROVE f[i] = step(f[i - 1])
    <3>1. i \in 1..N /\ i - 1 \in 0..N
      BY <1>1, <2>1
    <3>2. f[i - 1] \in X /\ f[i] = g[f[i - 1]]
      BY <1>10, <3>1 DEF Rounds
    <3> QED BY <3>2 DEF g
  <2>2. \A i \in 0..N : f[i] = IF i = 0 THEN n ELSE step(f[i - 1])
    BY <1>10, <2>1
  <2> QED BY <1>10, <2>2
<1>12. it = [i \in 0..N |-> IF i = 0 THEN n ELSE step(it[i - 1])]
  BY <1>11
<1> HIDE DEF it
<1>13. it[0] = n /\ \A i \in 1..N : it[i] = step(it[i - 1])
  BY <1>1, <1>12
<1>14. Rounds(it, X, N, g)
  BY <1>13 DEF g, Rounds
<1>15. it[N] \in X /\ it[N] \in D
  BY <1>1, <1>4, <1>7, <1>8, <1>13, <1>14, Settles
<1>16. r \in S /\ r \in sub[n] /\ Foremost(key_, sub, sub[n], r) /\ t.kid["left"][r] = NULL
  BY <1>2, <1>15 DEF X, D
<1>17. ASSUME NEW k \in sub[n], k # r PROVE key_[r] < key_[k]
  <2>0. r \in sub[r] /\ k \in Node /\ key_[r] \in Nat /\ key_[k] \in Nat /\ r \in Node
    BY <1>3, <1>16, Sides, KidFacts DEF Shape
  <2>1. CASE k \notin sub[r]
    BY <2>0, <2>1, <1>16 DEF Foremost
  <2>2. CASE k \in sub[r]
    <3>2. \E s \in Side : k \in Sub(sub, t.kid[s][r])
      BY <2>0, <2>2, <1>16, <1>17 DEF Shape, Subtrees
    <3>3. k \in Sub(sub, t.kid["right"][r])
      BY <3>2, <1>16 DEF Side, Sub
    <3>4. Less("right", key_[k], key_[r])
      BY <2>0, <1>16, <3>3, Sides DEF Shape, Sorted
    <3> QED BY <2>0, <3>4 DEF Less
  <2> QED BY <2>1, <2>2
<1> QED BY <1>16, <1>17

-----------------------------------------------------------------------------
(* Taking a node out *)

\* u is t after the pointers between p and its child on side sp have been turned
\* to c.
Cut(t, u, c, p, sp) ==
  /\ u \in Tree /\ u.color = t.color
  /\ p = NULL => u.root = c /\ u.kid = t.kid
  /\ p # NULL => /\ u.root = t.root /\ u.kid[sp][p] = c
                 /\ \A x \in Side, m \in Node : ~(x = sp /\ m = p) => u.kid[x][m] = t.kid[x][m]
  /\ c # NULL => u.parent[c] = p
  /\ \A m \in Node : m # c => u.parent[m] = t.parent[m]

LEMMA CutFacts ==
  ASSUME NEW t \in Tree, NEW elm \in Node, NEW c \in Link, NEW p \in Link
  PROVE  Cut(t, Relink(SetParent(t, c, p), p, elm, c), c, p, SideOf(t, p, elm))
<1>0. PICK u : u = Relink(SetParent(t, c, p), p, elm, c)
  OBVIOUS
<1>1. PICK v : v = SetParent(t, c, p)
  OBVIOUS
<1>2. ParentSet(t, v, c, p) /\ v \in Tree
  BY <1>1, SetParentFacts DEF ParentSet
<1>3. Relinked(v, u, p, SideOf(v, p, elm), c)
  BY <1>0, <1>1, <1>2, RelinkFacts
<1>4. SideOf(v, p, elm) = SideOf(t, p, elm)
  BY <1>2 DEF SideOf, ParentSet
<1>5. PICK sp : sp = SideOf(t, p, elm)
  OBVIOUS
<1>6. Relinked(v, u, p, sp, c)
  BY <1>3, <1>4, <1>5
<1>7. Cut(t, u, c, p, sp)
  BY <1>2, <1>6 DEF ParentSet, Relinked, KidSet, Cut
<1> QED BY <1>0, <1>5, <1>7

\* elm, with no child but c, below p on side sp.
Outer(t, S, elm, c, p, sp) ==
  /\ elm \in S /\ p = t.parent[elm] /\ sp = SideOf(t, p, elm)
  /\ \E s \in Side : c = t.kid[s][elm] /\ t.kid[Opposite(s)][elm] = NULL

\* Who is who around it.
LEMMA OuterFacts ==
  ASSUME NEW t, NEW key_, NEW S, NEW sub, Shape(t, key_, S, sub), NEW elm, NEW c, NEW p, NEW sp,
         Outer(t, S, elm, c, p, sp)
  PROVE  /\ S \subseteq Node /\ t \in Tree /\ elm \in S /\ elm \in Node /\ elm # NULL /\ c \in Link /\ p \in Link
         /\ c # NULL => c \in S /\ c # elm /\ c \in Node /\ t.parent[c] = elm /\ c # t.root
         /\ p = NULL <=> elm = t.root
         /\ p # NULL => p \in S /\ p # elm /\ p \in Node /\ sp \in Side /\ t.kid[sp][p] = elm /\ p # c
         /\ elm \notin Sub(sub, c) /\ \A m \in Node : m \in sub[elm] <=> m = elm \/ m \in Sub(sub, c)
         /\ \A x \in Side : t.kid[x][elm] = c \/ t.kid[x][elm] = NULL
         /\ \A n \in S, x \in Side : t.kid[x][n] = elm => p # NULL /\ n = p /\ x = sp
<1>1. elm \in S /\ p = t.parent[elm] /\ sp = SideOf(t, p, elm) /\ S \subseteq Node /\ t \in Tree
  BY DEF Outer, Shape
<1>2. PICK s \in Side : c = t.kid[s][elm] /\ t.kid[Opposite(s)][elm] = NULL
  BY DEF Outer
<1>3. elm \in Node /\ elm # NULL /\ c \in Link
      /\ (c # NULL => c \in S /\ c # elm /\ c \in Node /\ t.parent[c] = elm /\ c # t.root)
      /\ elm \notin Sub(sub, c)
  BY <1>1, <1>2, KidFacts
<1>4. p \in Link /\ (p = NULL <=> elm = t.root)
  BY <1>1, UpFacts
<1>5. p # NULL => p \in S /\ p # elm /\ p \in Node /\ sp \in Side /\ t.kid[sp][p] = elm
  BY <1>1, <1>4, UpFacts
<1>6. p # NULL => p # c
  <2>1. c # NULL => Cardinality(sub[c]) < Cardinality(sub[elm]) /\ sub[c] \in SUBSET Node
    BY <1>1, <1>2, KidsSmaller
  <2>2. p # NULL => Cardinality(sub[elm]) < Cardinality(sub[p])
    BY <1>1, <1>4, UpFacts
  <2>3. sub[elm] \in SUBSET Node
    BY <1>3 DEF Shape
  <2>4. Cardinality(sub[elm]) \in Nat /\ (c # NULL => Cardinality(sub[c]) \in Nat)
    BY <2>1, <2>3, Sizes
  <2> QED BY <2>1, <2>2, <2>4
<1>7. \A m \in Node : m \in sub[elm] <=> m = elm \/ m \in Sub(sub, c)
  BY <1>1, <1>2, Sides DEF Shape, Subtrees, Sub
<1>8. \A x \in Side : t.kid[x][elm] = c \/ t.kid[x][elm] = NULL
  BY <1>2, Sides
<1>9. ASSUME NEW n \in S, NEW x \in Side, t.kid[x][n] = elm PROVE p # NULL /\ n = p /\ x = sp
  <2>1. n = p /\ n # NULL /\ elm # t.root
    BY <1>1, <1>3, <1>9, KidFacts
  <2> QED BY <2>1, <1>1, <1>9, UpFacts
<1> QED BY <1>1, <1>3, <1>4, <1>5, <1>6, <1>7, <1>8, <1>9

\* What is left is a search tree.
LEMMA ShapeCut ==
  ASSUME NEW t, NEW key_, NEW S, NEW sub, Shape(t, key_, S, sub), NEW elm, NEW c, NEW p, NEW sp,
         Outer(t, S, elm, c, p, sp), NEW u, Cut(t, u, c, p, sp)
  PROVE  Shape(u, key_, S \ {elm}, [m \in Node |-> sub[m] \ {elm}])
<1>1. /\ S \subseteq Node /\ t \in Tree /\ elm \in S /\ elm \in Node /\ elm # NULL /\ c \in Link /\ p \in Link
      /\ c # NULL => c \in S /\ c # elm /\ c \in Node /\ t.parent[c] = elm /\ c # t.root
      /\ p = NULL <=> elm = t.root
      /\ p # NULL => p \in S /\ p # elm /\ p \in Node /\ sp \in Side /\ t.kid[sp][p] = elm /\ p # c
      /\ elm \notin Sub(sub, c) /\ \A m \in Node : m \in sub[elm] <=> m = elm \/ m \in Sub(sub, c)
      /\ \A x \in Side : t.kid[x][elm] = c \/ t.kid[x][elm] = NULL
      /\ \A n \in S, x \in Side : t.kid[x][n] = elm => p # NULL /\ n = p /\ x = sp
  BY OuterFacts
<1> PICK S1 : S1 = S \ {elm}
  OBVIOUS
<1> PICK sub1 : sub1 = [m \in Node |-> sub[m] \ {elm}]
  OBVIOUS
<1>2. /\ sub \in [Node -> SUBSET Node] /\ key_ \in [Node -> Nat] /\ Joints(t, S) /\ Subtrees(t, S, sub)
      /\ Sorted(t, key_, S, sub) /\ t.root \in S \cup {NULL} /\ Sub(sub, t.root) = S
      /\ t.root # NULL => t.parent[t.root] = NULL
  BY DEF Shape
<1>3. /\ sub1 \in [Node -> SUBSET Node]
      /\ \A n \in Node : sub1[n] = sub[n] \ {elm}
  BY <1>2
<1>4. /\ u \in Tree
      /\ p = NULL => u.root = c
      /\ p # NULL => u.root = t.root /\ u.kid[sp][p] = c
      /\ c # NULL => u.parent[c] = p
      /\ \A m \in Node : m # c => u.parent[m] = t.parent[m]
  BY DEF Cut
<1>5. \A n \in S, x \in Side : t.kid[x][n] # elm => u.kid[x][n] = t.kid[x][n]
  BY <1>1 DEF Cut
<1>6. \A n \in S, x \in Side : t.kid[x][n] = elm => u.kid[x][n] = c
  BY <1>1, <1>4
<1>7. \A n \in S, x \in Side : t.kid[x][n] \in Link /\ (t.kid[x][n] # NULL => t.kid[x][n] \in Node)
  BY KidFacts
<1>8. ASSUME NEW n \in S, NEW x \in Side, NEW m \in Node
      PROVE  m \in Sub(sub1, u.kid[x][n]) <=> m # elm /\ m \in Sub(sub, t.kid[x][n])
  <2>1. CASE t.kid[x][n] = elm
    <3>1. m \in Sub(sub1, c) <=> m # elm /\ m \in Sub(sub, c)
      BY <1>1, <1>3 DEF Sub
    <3> QED BY <2>1, <3>1, <1>1, <1>6 DEF Sub
  <2>2. CASE t.kid[x][n] # elm
    BY <2>2, <1>3, <1>5, <1>7 DEF Sub
  <2> QED BY <2>1, <2>2
<1>9. Subtrees(u, S1, sub1)
  <2>1. ASSUME NEW n \in S1, NEW m \in Node
        PROVE  m \in sub1[n] <=> m = n \/ \E x \in Side : m \in Sub(sub1, u.kid[x][n])
    <3>1. n \in S /\ n \in Node /\ n # elm
      BY <1>1
    <3>2. m \in sub[n] <=> m = n \/ \E x \in Side : m \in Sub(sub, t.kid[x][n])
      BY <3>1, <1>2 DEF Subtrees
    <3> QED BY <3>1, <3>2, <1>3, <1>8
  <2> QED BY <2>1 DEF Subtrees
<1>10. Sorted(u, key_, S1, sub1)
  BY <1>2, <1>8 DEF Sorted
<1>11. /\ u.root \in S1 \cup {NULL} /\ Sub(sub1, u.root) = S1
       /\ u.root # NULL => u.parent[u.root] = NULL
  <2>1. CASE p = NULL
    <3>1. u.root = c /\ t.root = elm /\ sub[elm] = S
      BY <2>1, <1>1, <1>2, <1>4 DEF Sub
    <3>2. c # NULL => sub1[c] = S1
      BY <3>1, <1>1, <1>2, <1>3 DEF Sub
    <3>3. c = NULL => S1 = {}
      BY <3>1, <1>1, <1>2 DEF Sub
    <3> QED BY <2>1, <3>1, <3>2, <3>3, <1>1, <1>4 DEF Sub
  <2>2. CASE p # NULL
    <3>1. u.root = t.root /\ t.root # elm /\ t.root \in S /\ t.root # NULL /\ sub[t.root] = S /\ t.root \in Node
      BY <2>2, <1>1, <1>2, <1>4 DEF Sub
    <3>2. sub1[t.root] = S1
      BY <3>1, <1>3
    <3>3. t.root # c
      BY <3>1, <1>1
    <3> QED BY <3>1, <3>2, <3>3, <1>2, <1>4 DEF Sub
  <2> QED BY <2>1, <2>2
<1>12. Joints(u, S1)
  <2>1. ASSUME NEW n \in S1, NEW x \in Side, u.kid[x][n] # NULL
        PROVE  u.kid[x][n] \in S1 /\ u.parent[u.kid[x][n]] = n
    <3>1. CASE t.kid[x][n] = elm
      <4>1. n = p /\ u.kid[x][n] = c /\ c # NULL
        BY <3>1, <2>1, <1>1, <1>6
      <4> QED BY <4>1, <1>1, <1>4
    <3>2. CASE t.kid[x][n] # elm
      <4>1. PICK k : k = t.kid[x][n]
        OBVIOUS
      <4>2. u.kid[x][n] = k /\ k # NULL /\ k \in S /\ k # elm /\ t.parent[k] = n /\ k \in Node
        BY <4>1, <3>2, <2>1, <1>5, <1>1, <1>2 DEF Joints
      <4>3. k # c
        BY <4>2, <1>1
      <4> QED BY <4>2, <4>3, <1>4
    <3> QED BY <3>1, <3>2
  <2>2. ASSUME NEW n \in S1, n # u.root
        PROVE  u.parent[n] \in S1 /\ \E x \in Side : u.kid[x][u.parent[n]] = n
    <3>1. CASE n = c
      <4>1. p # NULL /\ c # NULL
        BY <3>1, <2>2, <1>1, <1>4, RBAssumption
      <4> QED BY <3>1, <4>1, <1>1, <1>4
    <3>2. CASE n # c
      <4>1. n # t.root /\ n \in S /\ n \in Node /\ n # elm
        BY <2>2, <1>1, <1>4
      <4>2. PICK q : q = t.parent[n]
        OBVIOUS
      <4>3. PICK x \in Side : q \in S /\ t.kid[x][q] = n
        BY <4>1, <4>2, <1>2 DEF Joints
      <4>4. q # elm
        BY <4>1, <4>3, <3>2, <1>1, RBAssumption
      <4>5. u.parent[n] = q /\ u.kid[x][q] = n
        BY <4>1, <4>2, <4>3, <3>2, <1>4, <1>5
      <4> QED BY <4>3, <4>4, <4>5
    <3> QED BY <3>1, <3>2
  <2> QED BY <2>1, <2>2 DEF Joints
<1>13. Shape(u, key_, S1, sub1)
  BY <1>1, <1>2, <1>3, <1>4, <1>9, <1>10, <1>11, <1>12 DEF Shape
<1> QED BY <1>13

\* Without a black node, its place is one black node short, and its child may be
\* red below a red node.
LEMMA FitsCut ==
  ASSUME NEW t, NEW key_, NEW S, NEW sub, Shape(t, key_, S, sub), NEW elm, NEW c, NEW p, NEW sp,
         Outer(t, S, elm, c, p, sp), NEW u, Cut(t, u, c, p, sp), NEW bh, Fits(t, S, bh, NULL, "left", NULL)
  PROVE  /\ t.color[elm] = "RED" => Fits(u, S \ {elm}, bh, NULL, "left", NULL)
         /\ t.color[elm] = "BLACK" => Fits(u, S \ {elm}, bh, p, sp, c)
<1>1. /\ S \subseteq Node /\ t \in Tree /\ elm \in S /\ elm \in Node /\ elm # NULL /\ c \in Link /\ p \in Link
      /\ p # NULL => p \in S /\ p # elm /\ p \in Node /\ sp \in Side /\ t.kid[sp][p] = elm /\ p # c
      /\ \A n \in S, x \in Side : t.kid[x][n] = elm => p # NULL /\ n = p /\ x = sp
  BY OuterFacts
<1>2. /\ bh \in [Node -> Nat] /\ u.color = t.color
      /\ \A n \in S, x \in Side : Fit(t.color, bh, n, x, t.kid[x][n], NULL, "left", NULL)
  BY DEF Fits, Cut
<1>3. /\ \A n \in S, x \in Side : t.kid[x][n] # elm => u.kid[x][n] = t.kid[x][n]
      /\ \A n \in S, x \in Side : t.kid[x][n] = elm => u.kid[x][n] = c
  BY <1>1 DEF Cut
<1>4. bh[elm] = Height(t.color, bh, c) /\ (t.color[elm] = "RED" => Dark(t.color, c))
  <2>1. PICK x \in Side : c = t.kid[x][elm]
    BY DEF Outer
  <2>2. Fit(t.color, bh, elm, x, c, NULL, "left", NULL)
    BY <2>1, <1>1, <1>2
  <2>3. Height(t.color, bh, c) \in Nat
    BY <1>1, <1>2 DEF Height, Link
  <2> QED BY <2>2, <2>3, <1>1 DEF Fit, Dark
<1>5. ASSUME NEW n \in S \ {elm}, NEW x \in Side
      PROVE  /\ t.color[elm] = "RED" => Fit(t.color, bh, n, x, u.kid[x][n], NULL, "left", NULL)
             /\ t.color[elm] = "BLACK" => Fit(t.color, bh, n, x, u.kid[x][n], p, sp, c)
  <2>0. n \in Node /\ n # NULL /\ n # elm
    BY <1>1, RBAssumption
  <2>1. Fit(t.color, bh, n, x, t.kid[x][n], NULL, "left", NULL)
    BY <1>2
  <2>2. CASE t.kid[x][n] = elm
    <3>1. u.kid[x][n] = c /\ n = p /\ x = sp /\ p # NULL
      BY <2>2, <1>1, <1>3
    <3>2. bh[n] = Height(t.color, bh, elm) /\ (t.color[n] = "RED" => Dark(t.color, elm))
      <4>1. Height(t.color, bh, elm) \in Nat
        BY <1>1, <1>2 DEF Height
      <4> QED BY <2>0, <2>1, <2>2, <4>1, <1>1 DEF Fit
    <3>3. Height(t.color, bh, c) \in Nat
      BY <1>1, <1>2 DEF Height, Link
    <3>4. ASSUME t.color[elm] = "RED" PROVE Fit(t.color, bh, n, x, u.kid[x][n], NULL, "left", NULL)
      <4>1. Height(t.color, bh, elm) = bh[elm]
        BY <3>4, <1>1 DEF Height
      <4> QED BY <4>1, <3>1, <3>2, <3>3, <3>4, <1>4, <2>0 DEF Fit, Dark
    <3>5. ASSUME t.color[elm] = "BLACK" PROVE Fit(t.color, bh, n, x, u.kid[x][n], p, sp, c)
      <4>1. Height(t.color, bh, elm) = bh[elm] + 1
        BY <3>5, <1>1 DEF Height
      <4> QED BY <4>1, <3>1, <3>2, <3>3, <1>4 DEF Fit
    <3> QED BY <3>4, <3>5
  <2>3. CASE t.kid[x][n] # elm
    <3>1. u.kid[x][n] = t.kid[x][n]
      BY <2>3, <1>3
    <3>2. ~(n = p /\ x = sp)
      BY <2>0, <2>3, <1>1
    <3> QED BY <2>0, <2>1, <3>1, <3>2 DEF Fit, Dark
  <2> QED BY <2>2, <2>3
<1> QED BY <1>2, <1>5 DEF Fits

-----------------------------------------------------------------------------
(* Putting a node in the place of another *)

\* u is t after elm has taken over the links and the colour of old.
Placed(t, u, old, elm) ==
  /\ u \in Tree
  /\ \A s \in Side : u.kid[s][elm] = t.kid[s][old]
  /\ u.parent[elm] = t.parent[old] /\ u.color[elm] = t.color[old]
  /\ \A m \in Node : m # elm => u.color[m] = t.color[m]
  /\ t.parent[old] = NULL => u.root = elm
  /\ t.parent[old] # NULL => u.root = t.root /\ u.kid[SideOf(t, t.parent[old], old)][t.parent[old]] = elm
  /\ \A s \in Side, m \in Node :
       m # elm /\ ~(m = t.parent[old] /\ s = SideOf(t, t.parent[old], old)) => u.kid[s][m] = t.kid[s][m]
  /\ \A s \in Side : t.kid[s][old] # NULL => u.parent[t.kid[s][old]] = elm
  /\ \A m \in Node : m # elm /\ (\A s \in Side : m # t.kid[s][old]) => u.parent[m] = t.parent[m]

\* The assignments of RB_REMOVE.
Place(t, old, elm) ==
  LET t2 == [t EXCEPT !.kid.left[elm] = t.kid.left[old],
                      !.kid.right[elm] = t.kid.right[old],
                      !.parent[elm] = t.parent[old],
                      !.color[elm] = t.color[old]]
      t3 == Relink(t2, t2.parent[old], old, elm)
  IN  SetParent(SetParent(t3, t3.kid.left[old], elm), t3.kid.right[old], elm)

LEMMA PlaceFacts ==
  ASSUME NEW t, NEW key_, NEW S, NEW sub, Shape(t, key_, S, sub), NEW old \in S, NEW elm \in Node \ S
  PROVE  Placed(t, Place(t, old, elm), old, elm)
<1>1. PICK l, r, p, sp, col : /\ l = t.kid["left"][old] /\ r = t.kid["right"][old] /\ p = t.parent[old]
                              /\ sp = SideOf(t, p, old) /\ col = t.color[old]
  OBVIOUS
<1>2. /\ t \in Tree /\ old \in Node /\ elm \in Node /\ elm \in Link /\ l \in Link /\ r \in Link /\ p \in Link /\ col \in Color
      /\ elm # old /\ elm # p /\ elm # l /\ elm # r /\ elm # NULL /\ p # old
      /\ l # NULL => l # r
      /\ p # NULL => p \in Node /\ sp \in Side
  <2>1. t \in Tree /\ old \in Node /\ elm \in Node /\ elm # old /\ elm # NULL /\ elm \notin S
    BY RBAssumption DEF Shape
  <2>2. l \in S \cup {NULL} /\ r \in S \cup {NULL} /\ l \in Link /\ r \in Link
    BY <1>1, Sides, KidFacts
  <2>3. l # NULL => l # r
    <3>1. Opposite("left") = "right"
      BY DEF Opposite
    <3> QED BY <3>1, <1>1, Sides, KidFacts
  <2>4. p \in S \cup {NULL} /\ p \in Link /\ p # old /\ (p # NULL => sp \in Side)
    BY <1>1, <2>1, UpFacts, RBAssumption
  <2>5. col \in Color
    BY <1>1, <2>1 DEF Tree
  <2> QED BY <2>1, <2>2, <2>3, <2>4, <2>5 DEF Link
<1>3. PICK v : v = [t EXCEPT !.parent[elm] = p, !.color[elm] = col]
  OBVIOUS
<1>4. /\ v \in Tree /\ v.root = t.root /\ v.kid = t.kid
      /\ v.parent[elm] = p /\ v.color[elm] = col
      /\ \A m \in Node : m # elm => v.parent[m] = t.parent[m] /\ v.color[m] = t.color[m]
  BY <1>2, <1>3 DEF Tree, Link, Color
<1>5. PICK w : w = SetKid(v, "left", elm, l)
  OBVIOUS
<1>6. KidSet(v, w, "left", elm, l) /\ w \in Tree
  <2>1. KidSet(v, w, "left", elm, l)
    BY <1>2, <1>4, <1>5, SetKidFacts, Sides
  <2> QED BY <2>1 DEF KidSet
<1>7. PICK t2 : t2 = SetKid(w, "right", elm, r)
  OBVIOUS
<1>8. KidSet(w, t2, "right", elm, r) /\ t2 \in Tree
  <2>1. KidSet(w, t2, "right", elm, r)
    BY <1>2, <1>6, <1>7, SetKidFacts, Sides
  <2> QED BY <2>1 DEF KidSet
<1>9. t2 = [t EXCEPT !.kid.left[elm] = l, !.kid.right[elm] = r, !.parent[elm] = p, !.color[elm] = col]
  BY <1>3, <1>5, <1>7, <1>2 DEF SetKid, Tree, Side
<1>10. /\ t2.root = t.root /\ t2.parent[elm] = p /\ t2.color[elm] = col
       /\ t2.kid["left"][elm] = l /\ t2.kid["right"][elm] = r
       /\ \A m \in Node : m # elm => t2.parent[m] = t.parent[m] /\ t2.color[m] = t.color[m]
       /\ \A s \in Side, m \in Node : m # elm => t2.kid[s][m] = t.kid[s][m]
  BY <1>2, <1>4, <1>6, <1>8, Sides DEF KidSet
<1>11. PICK t3 : t3 = Relink(t2, p, old, elm)
  OBVIOUS
<1>12. p # NULL => SideOf(t2, p, old) = sp
  BY <1>1, <1>2, <1>10, Sides DEF SideOf
<1>13. Relinked(t2, t3, p, SideOf(t2, p, old), elm) /\ t3 \in Tree
  <2>1. Relinked(t2, t3, p, SideOf(t2, p, old), elm)
    BY <1>2, <1>8, <1>11, RelinkFacts
  <2> QED BY <2>1 DEF Relinked
<1>14. /\ t3.parent = t2.parent /\ t3.color = t2.color
       /\ p = NULL => t3.root = elm /\ t3.kid = t2.kid
       /\ p # NULL => /\ t3.root = t.root /\ t3.kid[sp][p] = elm
                      /\ \A s \in Side, m \in Node : ~(m = p /\ s = sp) => t3.kid[s][m] = t2.kid[s][m]
  BY <1>10, <1>12, <1>13 DEF Relinked, KidSet
<1>15. t3.kid["left"][old] = l /\ t3.kid["right"][old] = r
  BY <1>1, <1>2, <1>10, <1>14, Sides
<1>16. PICK t4 : t4 = SetParent(t3, l, elm)
  OBVIOUS
<1>17. ParentSet(t3, t4, l, elm) /\ t4 \in Tree
  <2>1. ParentSet(t3, t4, l, elm)
    BY <1>2, <1>13, <1>16, SetParentFacts
  <2> QED BY <2>1 DEF ParentSet
<1>18. PICK u : u = SetParent(t4, r, elm)
  OBVIOUS
<1>19. ParentSet(t4, u, r, elm)
  BY <1>2, <1>17, <1>18, SetParentFacts, SMTT(20)
<1>20. Place(t, old, elm) = u
  <2>1. t2.parent[old] = p
    BY <1>1, <1>2, <1>10
  <2>2. t2 = [t EXCEPT !.kid.left[elm] = t.kid.left[old], !.kid.right[elm] = t.kid.right[old],
                       !.parent[elm] = t.parent[old], !.color[elm] = t.color[old]]
    BY <1>1, <1>9
  <2>3. t3 = Relink(t2, t2.parent[old], old, elm)
    BY <2>1, <1>11
  <2>4. u = SetParent(SetParent(t3, t3.kid.left[old], elm), t3.kid.right[old], elm)
    BY <1>15, <1>16, <1>18
  <2> QED BY <2>2, <2>3, <2>4 DEF Place
<1>21. /\ u \in Tree
       /\ u.kid["left"][elm] = l /\ u.kid["right"][elm] = r
       /\ u.parent[elm] = p /\ u.color[elm] = col
       /\ \A m \in Node : m # elm => u.color[m] = t.color[m]
       /\ p = NULL => u.root = elm
       /\ p # NULL => u.root = t.root /\ u.kid[sp][p] = elm
       /\ \A s \in Side, m \in Node : m # elm /\ ~(m = p /\ s = sp) => u.kid[s][m] = t.kid[s][m]
       /\ l # NULL => u.parent[l] = elm
       /\ r # NULL => u.parent[r] = elm
       /\ \A m \in Node : m # elm /\ m # l /\ m # r => u.parent[m] = t.parent[m]
  BY <1>2, <1>10, <1>14, <1>17, <1>19, Sides DEF ParentSet, Link
<1>22. Placed(t, u, old, elm)
  <2>1. \A s \in Side : t.kid[s][old] \in {l, r} /\ u.kid[s][elm] = t.kid[s][old]
    BY <1>1, <1>21 DEF Side
  <2>2. \A m \in Node : (\A s \in Side : m # t.kid[s][old]) => m # l /\ m # r
    BY <1>1, Sides
  <2> QED BY <2>1, <2>2, <1>1, <1>21 DEF Placed
<1> QED BY <1>20, <1>22

\* The subtrees after that.
PlacedSubs(sub, old, elm) ==
  [m \in Node |-> LET A == sub[IF m = elm THEN old ELSE m]
                  IN  IF old \in A THEN (A \ {old}) \cup {elm} ELSE A]

\* B is A with elm in the place of old.
Traded(A, B, old, elm) ==
  /\ \A m \in Node : m # old /\ m # elm => (m \in B <=> m \in A)
  /\ elm \in B <=> old \in A
  /\ old \notin B

\* n is where k was.
Stands(n, k, old, elm) == (n = elm /\ k = old) \/ (n = k /\ n # old /\ n # elm)

\* Who is who after that.
LEMMA PlacedLinks ==
  ASSUME NEW t, NEW key_, NEW S, NEW sub, Shape(t, key_, S, sub), NEW old \in S, NEW elm \in Node \ S,
         NEW u, Placed(t, u, old, elm), NEW n, NEW k \in S, Stands(n, k, old, elm), NEW x \in Side
  PROVE  /\ t.kid[x][k] = old => u.kid[x][n] = elm /\ n = k /\ t.parent[old] = k
         /\ t.kid[x][k] # old => u.kid[x][n] = t.kid[x][k]
         /\ t.kid[x][k] # NULL => t.kid[x][k] \in S /\ t.kid[x][k] # elm /\ t.kid[x][k] \in Node /\ t.parent[t.kid[x][k]] = k
<1>1. /\ k \in Node /\ k # NULL /\ k # elm /\ t.kid[x][k] # k
      /\ t.kid[x][k] # NULL => t.kid[x][k] \in S /\ t.kid[x][k] # elm /\ t.kid[x][k] \in Node /\ t.parent[t.kid[x][k]] = k
  BY KidFacts
<1>2. old \in Node /\ old # NULL
  BY RBAssumption DEF Shape
<1>3. CASE n = elm /\ k = old
  BY <1>1, <1>3 DEF Placed
<1>4. CASE n = k /\ k # old
  <2>1. CASE t.kid[x][k] = old
    <3>1. t.parent[old] = k /\ old # t.root
      BY <2>1, <1>1, <1>2, KidFacts
    <3>2. x = SideOf(t, t.parent[old], old)
      BY <3>1, <2>1, UpFacts
    <3>3. u.kid[x][k] = elm
      BY <3>1, <3>2, <1>1 DEF Placed
    <3> QED BY <3>1, <3>3, <2>1, <1>1, <1>4
  <2>2. CASE t.kid[x][k] # old
    <3>1. ~(k = t.parent[old] /\ x = SideOf(t, t.parent[old], old))
      BY <2>2, <1>1, UpFacts
    <3>2. u.kid[x][k] = t.kid[x][k]
      BY <3>1, <1>1 DEF Placed
    <3> QED BY <3>2, <2>2, <1>1, <1>4
  <2> QED BY <2>1, <2>2
<1> QED BY <1>3, <1>4 DEF Stands

LEMMA PlacedTrades ==
  ASSUME NEW t, NEW key_, NEW S, NEW sub, Shape(t, key_, S, sub), NEW old \in S, NEW elm \in Node \ S,
         NEW n, NEW k \in S, Stands(n, k, old, elm)
  PROVE  Traded(sub[k], PlacedSubs(sub, old, elm)[n], old, elm)
<1>1. sub[k] \subseteq S /\ k \in Node /\ old \in Node /\ elm \in Node /\ S \subseteq Node /\ n \in Node /\ k # elm /\ elm # old
  BY SubsNested DEF Shape, Stands
<1>2. PICK A : A = sub[k]
  OBVIOUS
<1>3. PlacedSubs(sub, old, elm)[n] = IF old \in A THEN (A \ {old}) \cup {elm} ELSE A
  <2>1. CASE n = elm /\ k = old
    BY <2>1, <1>1, <1>2 DEF PlacedSubs
  <2>2. CASE n = k /\ n # elm
    BY <2>2, <1>1, <1>2 DEF PlacedSubs
  <2> QED BY <2>1, <2>2 DEF Stands
<1>4. elm \notin A
  BY <1>1, <1>2
<1> QED BY <1>1, <1>2, <1>3, <1>4 DEF Traded

\* The search tree stays one when the two keys compare alike with all others.
LEMMA ShapePlaced ==
  ASSUME NEW t, NEW key_, NEW S, NEW sub, Shape(t, key_, S, sub), NEW old \in S, NEW elm \in Node \ S,
         NEW u, Placed(t, u, old, elm),
         \A m \in S : m # old => key_[m] # key_[elm] /\ (key_[m] < key_[old] <=> key_[m] < key_[elm])
  PROVE  Shape(u, key_, (S \ {old}) \cup {elm}, PlacedSubs(sub, old, elm))
<1> PICK S2 : S2 = (S \ {old}) \cup {elm}
  OBVIOUS
<1> PICK sub2 : sub2 = PlacedSubs(sub, old, elm)
  OBVIOUS
<1>1. /\ old \in Node /\ elm \in Node /\ S \subseteq Node /\ elm # old /\ S2 \subseteq Node /\ elm # NULL /\ old # NULL /\ elm \notin S
      /\ sub \in [Node -> SUBSET Node] /\ key_ \in [Node -> Nat] /\ u \in Tree
      /\ Subtrees(t, S, sub) /\ Sorted(t, key_, S, sub) /\ Joints(t, S)
      /\ t.root \in S \cup {NULL} /\ Sub(sub, t.root) = S
      /\ t.root # NULL => t.parent[t.root] = NULL
  BY RBAssumption DEF Shape, Placed
<1>2. sub2 \in [Node -> SUBSET Node]
  BY <1>1 DEF PlacedSubs
<1>3. \A n \in S2 : \E k \in S : Stands(n, k, old, elm)
  BY <1>1 DEF Stands
<1>4. \A n, k : k \in S /\ Stands(n, k, old, elm) => Traded(sub[k], sub2[n], old, elm)
  BY PlacedTrades
<1>5. ASSUME NEW n, NEW k \in S, Stands(n, k, old, elm), NEW x \in Side
      PROVE  Traded(Sub(sub, t.kid[x][k]), Sub(sub2, u.kid[x][n]), old, elm)
  <2>1. /\ t.kid[x][k] = old => u.kid[x][n] = elm
        /\ t.kid[x][k] # old => u.kid[x][n] = t.kid[x][k]
        /\ t.kid[x][k] # NULL => t.kid[x][k] \in S /\ t.kid[x][k] # elm
    BY <1>5, PlacedLinks
  <2>2. CASE t.kid[x][k] = NULL
    <3>1. Traded({}, {}, old, elm)
      BY DEF Traded
    <3>2. Sub(sub, t.kid[x][k]) = {} /\ Sub(sub2, u.kid[x][n]) = {}
      BY <2>1, <2>2, <1>1 DEF Sub
    <3> QED BY <3>1, <3>2
  <2>3. CASE t.kid[x][k] = old
    <3>1. Sub(sub, t.kid[x][k]) = sub[old] /\ Sub(sub2, u.kid[x][n]) = sub2[elm]
      BY <2>1, <2>3, <1>1 DEF Sub
    <3>2. Stands(elm, old, old, elm)
      BY DEF Stands
    <3> QED BY <3>1, <3>2, <1>4
  <2>4. CASE t.kid[x][k] # NULL /\ t.kid[x][k] # old
    <3>1. PICK c : c = t.kid[x][k]
      OBVIOUS
    <3>2. Sub(sub, c) = sub[c] /\ Sub(sub2, u.kid[x][n]) = sub2[c] /\ c \in S
      BY <2>1, <2>4, <3>1 DEF Sub
    <3>3. Stands(c, c, old, elm)
      BY <3>1, <2>1, <2>4 DEF Stands
    <3>4. Traded(sub[c], sub2[c], old, elm)
      BY <3>2, <3>3, <1>4
    <3> QED BY <3>1, <3>2, <3>4
  <2> QED BY <2>2, <2>3, <2>4
<1>6. Subtrees(u, S2, sub2)
  <2>1. ASSUME NEW n \in S2, NEW m \in Node
        PROVE  m \in sub2[n] <=> m = n \/ \E x \in Side : m \in Sub(sub2, u.kid[x][n])
    <3>1. PICK k \in S : Stands(n, k, old, elm)
      BY <1>3
    <3>2. \A j \in Node : j \in sub[k] <=> j = k \/ \E x \in Side : j \in Sub(sub, t.kid[x][k])
      BY <1>1 DEF Subtrees
    <3>3. Traded(sub[k], sub2[n], old, elm) /\ \A x \in Side : Traded(Sub(sub, t.kid[x][k]), Sub(sub2, u.kid[x][n]), old, elm)
      BY <3>1, <1>4, <1>5
    <3>4. CASE m = old
      <4>1. n # old
        BY <1>1
      <4> QED BY <3>3, <3>4, <4>1 DEF Traded
    <3>5. CASE m = elm
      <4>1. n = elm <=> k = old
        BY <3>1, <1>1 DEF Stands
      <4>2. elm \in sub2[n] <=> old \in sub[k]
        BY <3>3 DEF Traded
      <4>3. \A x \in Side : elm \in Sub(sub2, u.kid[x][n]) <=> old \in Sub(sub, t.kid[x][k])
        BY <3>3 DEF Traded
      <4> QED BY <3>2, <3>5, <4>1, <4>2, <4>3, <1>1
    <3>6. CASE m # old /\ m # elm
      <4>1. m = n <=> m = k
        BY <3>1, <3>6 DEF Stands
      <4>2. m \in sub2[n] <=> m \in sub[k]
        BY <3>3, <3>6 DEF Traded
      <4>3. \A x \in Side : m \in Sub(sub2, u.kid[x][n]) <=> m \in Sub(sub, t.kid[x][k])
        BY <3>3, <3>6 DEF Traded
      <4> QED BY <3>2, <4>1, <4>2, <4>3
    <3> QED BY <3>4, <3>5, <3>6
  <2> QED BY <2>1 DEF Subtrees
<1>7. \A m \in S, x \in Side : m # old =>
        /\ Less(x, key_[m], key_[old]) => Less(x, key_[m], key_[elm])
        /\ Less(x, key_[old], key_[m]) => Less(x, key_[elm], key_[m])
  <2> SUFFICES ASSUME NEW m \in S, NEW x \in Side, m # old
               PROVE  /\ Less(x, key_[m], key_[old]) => Less(x, key_[m], key_[elm])
                      /\ Less(x, key_[old], key_[m]) => Less(x, key_[elm], key_[m])
    OBVIOUS
  <2>1. key_[m] \in Nat /\ key_[old] \in Nat /\ key_[elm] \in Nat
    BY <1>1
  <2>2. key_[m] # key_[elm] /\ (key_[m] < key_[old] <=> key_[m] < key_[elm])
    OBVIOUS
  <2> QED BY <2>1, <2>2 DEF Less
<1>8. Sorted(u, key_, S2, sub2)
  <2>1. ASSUME NEW n \in S2, NEW x \in Side, NEW m \in Node, m \in Sub(sub2, u.kid[x][n])
        PROVE  Less(x, key_[m], key_[n])
    <3>1. PICK k \in S : Stands(n, k, old, elm)
      BY <1>3
    <3>2. Traded(Sub(sub, t.kid[x][k]), Sub(sub2, u.kid[x][n]), old, elm)
      BY <3>1, <1>5
    <3>3. \A j \in Node : j \in Sub(sub, t.kid[x][k]) => Less(x, key_[j], key_[k]) /\ j # k /\ j \in S
      <4>1. Sub(sub, t.kid[x][k]) \subseteq sub[k] /\ k \notin Sub(sub, t.kid[x][k]) /\ sub[k] \subseteq S
        BY KidFacts, SubsNested
      <4> QED BY <4>1, <1>1 DEF Sorted
    <3>4. CASE m = elm
      <4>1. old \in Sub(sub, t.kid[x][k])
        BY <2>1, <3>2, <3>4 DEF Traded
      <4>2. Less(x, key_[old], key_[k]) /\ k # old
        BY <4>1, <3>3, <1>1
      <4>3. n = k
        BY <4>2, <3>1 DEF Stands
      <4> QED BY <4>2, <4>3, <3>4, <1>7
    <3>5. CASE m # elm
      <4>1. m # old /\ m \in Sub(sub, t.kid[x][k])
        BY <2>1, <3>2, <3>5 DEF Traded
      <4>2. Less(x, key_[m], key_[k]) /\ m \in S
        BY <4>1, <3>3
      <4> QED BY <4>1, <4>2, <3>1, <1>7 DEF Stands
    <3> QED BY <3>4, <3>5
  <2> QED BY <2>1 DEF Sorted
<1>9. \A B \in SUBSET Node : Traded(S, B, old, elm) => B = S2
  BY <1>1 DEF Traded
<1>10. /\ u.root \in S2 \cup {NULL} /\ Sub(sub2, u.root) = S2
       /\ u.root # NULL => u.parent[u.root] = NULL
  <2>0. t.root \in S /\ t.root # NULL /\ sub[t.root] = S
    BY <1>1 DEF Sub
  <2>1. CASE t.parent[old] = NULL
    <3>1. u.root = elm /\ t.root = old /\ u.parent[elm] = NULL
      BY <2>1, UpFacts DEF Placed
    <3>2. Traded(S, sub2[elm], old, elm)
      BY <3>1, <2>0, <1>4 DEF Stands
    <3> QED BY <3>1, <3>2, <1>1, <1>2, <1>9 DEF Sub
  <2>2. CASE t.parent[old] # NULL
    <3>1. u.root = t.root /\ t.root # old /\ t.root # elm
      BY <2>0, <2>2, <1>1 DEF Placed
    <3>2. Traded(S, sub2[t.root], old, elm)
      BY <3>1, <2>0, <1>4 DEF Stands
    <3>3. \A s \in Side : t.root # t.kid[s][old]
      BY <2>0, KidFacts
    <3>4. u.parent[t.root] = NULL
      BY <3>1, <3>3, <2>0, <1>1 DEF Placed
    <3> QED BY <3>1, <3>2, <3>4, <2>0, <1>1, <1>2, <1>9 DEF Sub
  <2> QED BY <2>1, <2>2
<1>11. Joints(u, S2)
  <2>1. ASSUME NEW n \in S2, NEW x \in Side, u.kid[x][n] # NULL
        PROVE  u.kid[x][n] \in S2 /\ u.parent[u.kid[x][n]] = n
    <3>1. PICK k \in S : Stands(n, k, old, elm)
      BY <1>3
    <3>2. PICK j : j = t.kid[x][k]
      OBVIOUS
    <3>3. /\ j = old => u.kid[x][n] = elm /\ n = k /\ t.parent[old] = k
          /\ j # old => u.kid[x][n] = j
          /\ j # NULL => j \in S /\ j # elm /\ j \in Node /\ t.parent[j] = k
      BY <3>1, <3>2, PlacedLinks
    <3>4. CASE j = old
      BY <3>3, <3>4 DEF Placed
    <3>5. CASE j # old /\ k = old
      <4>1. n = elm /\ u.kid[x][n] = j /\ j \in S
        BY <3>1, <3>3, <3>5, <2>1 DEF Stands
      <4>2. u.parent[j] = elm
        BY <3>2, <3>5, <4>1, <2>1 DEF Placed
      <4> QED BY <4>1, <4>2, <3>5
    <3>6. CASE j # old /\ k # old
      <4>1. n = k /\ u.kid[x][n] = j /\ j \in S /\ j # elm /\ j \in Node /\ t.parent[j] = k
        BY <3>1, <3>3, <3>6, <2>1 DEF Stands
      <4>2. \A s \in Side : j # t.kid[s][old]
        BY <4>1, <3>6, <1>1, RBAssumption DEF Joints
      <4>3. u.parent[j] = t.parent[j]
        BY <4>1, <4>2 DEF Placed
      <4> QED BY <4>1, <4>3, <3>6
    <3> QED BY <3>4, <3>5, <3>6
  <2>2. ASSUME NEW n \in S2, n # u.root
        PROVE  u.parent[n] \in S2 /\ \E x \in Side : u.kid[x][u.parent[n]] = n
    <3>1. CASE n = elm
      <4>1. PICK p : p = t.parent[old]
        OBVIOUS
      <4>2. p # NULL /\ p \in S /\ p # old /\ SideOf(t, p, old) \in Side
        BY <4>1, <3>1, <2>2, UpFacts DEF Placed
      <4>3. u.parent[elm] = p /\ u.kid[SideOf(t, p, old)][p] = elm
        BY <4>1, <4>2 DEF Placed
      <4> QED BY <3>1, <4>2, <4>3
    <3>2. CASE n # elm
      <4>1. n \in S /\ n # old /\ n \in Node /\ n # t.root
        BY <3>2, <2>2, <1>1, UpFacts DEF Placed
      <4>2. PICK q : q = t.parent[n]
        OBVIOUS
      <4>3. PICK x \in Side : q \in S /\ t.kid[x][q] = n
        BY <4>1, <4>2, <1>1 DEF Joints
      <4>4. CASE q = old
        <5>1. u.parent[n] = elm
          BY <4>1, <4>3, <4>4, <1>1, RBAssumption DEF Placed
        <5>2. u.kid[x][elm] = n
          BY <4>3, <4>4 DEF Placed
        <5> QED BY <5>1, <5>2
      <4>5. CASE q # old
        <5>1. \A s \in Side : n # t.kid[s][old]
          BY <4>1, <4>2, <4>5, <1>1, RBAssumption DEF Joints
        <5>2. u.parent[n] = q
          BY <5>1, <4>1, <4>2, <3>2 DEF Placed
        <5>3. Stands(q, q, old, elm)
          BY <4>3, <4>5, <1>1 DEF Stands
        <5>4. u.kid[x][q] = n
          BY <5>3, <4>1, <4>3, PlacedLinks
        <5> QED BY <5>2, <5>4, <4>3, <4>5
      <4> QED BY <4>4, <4>5
    <3> QED BY <3>1, <3>2
  <2> QED BY <2>1, <2>2 DEF Joints
<1>12. Shape(u, key_, S2, sub2)
  BY <1>1, <1>2, <1>6, <1>8, <1>10, <1>11 DEF Shape
<1> QED BY <1>12

\* The heights and the colours stay what they were.
LEMMA FitsPlaced ==
  ASSUME NEW t, NEW key_, NEW S, NEW sub, Shape(t, key_, S, sub), NEW old \in S, NEW elm \in Node \ S,
         NEW u, Placed(t, u, old, elm), NEW bh, NEW hp, NEW hs, NEW e, Fits(t, S, bh, hp, hs, e),
         hp # elm, e # old, e # elm, NEW hp2, hp = old => hp2 = elm, hp # old => hp2 = hp
  PROVE  Fits(u, (S \ {old}) \cup {elm}, [bh EXCEPT ![elm] = bh[old]], hp2, hs, e)
<1> PICK S2 : S2 = (S \ {old}) \cup {elm}
  OBVIOUS
<1> PICK bh2 : bh2 = [bh EXCEPT ![elm] = bh[old]]
  OBVIOUS
<1>1. /\ old \in Node /\ elm \in Node /\ S \subseteq Node /\ elm # old /\ elm # NULL /\ old # NULL /\ elm \notin S
      /\ bh \in [Node -> Nat]
      /\ \A n \in S, x \in Side : Fit(t.color, bh, n, x, t.kid[x][n], hp, hs, e)
  BY RBAssumption DEF Shape, Fits
<1>2. bh2 \in [Node -> Nat] /\ bh2[elm] = bh[old] /\ \A m \in Node : m # elm => bh2[m] = bh[m]
  BY <1>1
<1>3. u.color[elm] = t.color[old] /\ \A m \in Node : m # elm => u.color[m] = t.color[m]
  BY DEF Placed
<1>4. ASSUME NEW n \in S2, NEW x \in Side PROVE Fit(u.color, bh2, n, x, u.kid[x][n], hp2, hs, e)
  <2>1. PICK k \in S : Stands(n, k, old, elm)
    BY <1>1 DEF Stands
  <2>2. PICK j, i : j = t.kid[x][k] /\ i = u.kid[x][n]
    OBVIOUS
  <2>3. /\ j = old => i = elm
        /\ j # old => i = j
        /\ j # NULL => j \in S /\ j # elm /\ j \in Node
    BY <2>1, <2>2, PlacedLinks
  <2>4. Height(u.color, bh2, i) = Height(t.color, bh, j) /\ (Dark(u.color, i) <=> Dark(t.color, j)) /\ (i = e <=> j = e)
    <3>1. CASE j = old
      BY <3>1, <2>3, <1>1, <1>2, <1>3 DEF Height, Dark
    <3>2. CASE j # old
      BY <3>2, <2>3, <1>1, <1>2, <1>3 DEF Height, Dark
    <3> QED BY <3>1, <3>2
  <2>5. bh2[n] = bh[k] /\ u.color[n] = t.color[k] /\ (n = e <=> k = e) /\ (n = hp2 <=> k = hp)
    BY <2>1, <1>1, <1>2, <1>3 DEF Stands
  <2>6. Fit(t.color, bh, k, x, j, hp, hs, e)
    BY <2>2, <1>1
  <2>7. Fit(u.color, bh2, n, x, i, hp2, hs, e)
    BY <2>4, <2>5, <2>6 DEF Fit
  <2> QED BY <2>2, <2>7
<1>5. Fits(u, S2, bh2, hp2, hs, e)
  BY <1>2, <1>4 DEF Fits
<1> QED BY <1>5

-----------------------------------------------------------------------------
(* RB_REMOVE_COLOR *)

\* The side h of p is one black node short, down from c.
Lacks(t, S, bh, p, h, c) ==
  /\ p \in S /\ h \in Side /\ t.kid[h][p] = c
  /\ Fits(t, S, bh, p, h, c)

\* ... or nothing is missing, but the root c may be red.
Short(t, S, bh, p, c) ==
  /\ RootOk(t, c)
  /\ \/ \E h \in Side : Lacks(t, S, bh, p, h, c)
     \/ p = NULL /\ c = t.root /\ Fits(t, S, bh, NULL, "left", c)

\* The loop is over.
Filled(t, c) == ~Dark(t.color, c) \/ c = t.root

\* A black node in place of c is what was missing.
LEMMA FilledSound ==
  ASSUME NEW t, NEW key_, NEW S, NEW sub, Shape(t, key_, S, sub), NEW bh, NEW p, NEW c,
         Short(t, S, bh, p, c), Filled(t, c)
  PROVE  Sound(IF c = NULL THEN t ELSE Paint(t, c, "BLACK"), key_, S)
<1>0. t \in Tree /\ S \subseteq Node
  BY DEF Shape
<1>1. CASE c = NULL
  <2>1. S = {} /\ t.root = NULL
    BY <1>1 DEF Filled, Dark, Shape, Sub
  <2>2. bh \in [Node -> Nat]
    BY DEF Short, Lacks, Fits
  <2>3. Fits(t, S, bh, NULL, "left", NULL)
    BY <2>1, <2>2 DEF Fits
  <2> QED BY <1>1, <2>1, <2>3 DEF Sound, Well, IsBlack
<1>2. CASE c # NULL
  <2>1. c \in S
    <3>1. CASE \E h \in Side : Lacks(t, S, bh, p, h, c)
      BY <3>1, <1>2, KidFacts DEF Lacks
    <3>2. CASE c = t.root
      BY <3>2, <1>2 DEF Shape
    <3> QED BY <3>1, <3>2 DEF Short
  <2>2. PICK u : u = Paint(t, c, "BLACK")
    OBVIOUS
  <2>3. /\ SameLinks(t, u) /\ u.color[c] = "BLACK" /\ \A m \in Node : m # c => u.color[m] = t.color[m]
    <3>1. "BLACK" \in Color /\ c \in Node
      BY <2>1, <1>0 DEF Color
    <3>2. Painted(t, u, c, "BLACK")
      BY <3>1, <2>2, <1>0, PaintFacts
    <3> QED BY <3>2 DEF Painted, SameLinks
  <2>4. Shape(u, key_, S, sub)
    BY <2>3, ShapeRecolored
  <2>5. PICK hp, hs : /\ Fits(t, S, bh, hp, hs, c)
                      /\ hp # NULL => t.color[c] # "BLACK" /\ hp \in S /\ hs \in Side /\ t.kid[hs][hp] = c
                      /\ hp = NULL => c = t.root
    <3>1. CASE p = NULL /\ c = t.root /\ Fits(t, S, bh, NULL, "left", c)
      BY <3>1
    <3>2. CASE \E h \in Side : Lacks(t, S, bh, p, h, c)
      <4>1. PICK h \in Side : Lacks(t, S, bh, p, h, c)
        BY <3>2
      <4>2. c # t.root
        BY <4>1, <1>2, KidFacts DEF Lacks
      <4>3. p # NULL
        BY <4>1, <1>0, RBAssumption DEF Lacks
      <4> QED BY <4>1, <4>2, <4>3 DEF Lacks, Filled, Dark
    <3> QED BY <3>1, <3>2 DEF Short
  <2>6. bh \in [Node -> Nat] /\ \A n \in S, x \in Side : Fit(t.color, bh, n, x, t.kid[x][n], hp, hs, c)
    BY <2>5 DEF Fits
  <2>11. \A j \in S, y \in Side : t.kid[y][j] = c => t.parent[c] = j /\ c # t.root
    <3> SUFFICES ASSUME NEW j \in S, NEW y \in Side PROVE t.kid[y][j] = c => t.parent[c] = j /\ c # t.root
      OBVIOUS
    <3>1. t.kid[y][j] # NULL => t.parent[t.kid[y][j]] = j /\ t.kid[y][j] # t.root
      BY KidFacts
    <3> QED BY <3>1, <1>2
  <2>7. ASSUME NEW n \in S, NEW x \in Side PROVE Fit(u.color, bh, n, x, u.kid[x][n], NULL, "left", NULL)
    <3>1. PICK k : k = t.kid[x][n]
      OBVIOUS
    <3>2. /\ u.kid[x][n] = k /\ n \in Node /\ n # NULL /\ k \in Link
          /\ Fit(t.color, bh, n, x, k, hp, hs, c)
      BY <3>1, <2>3, <2>6, KidFacts DEF SameLinks
    <3>3. CASE k = c
      <4>1. hp # NULL
        BY <2>5, <3>1, <3>3, <2>11
      <4>2. n = hp /\ x = hs /\ t.color[c] = "RED"
        <5>1. t.color[c] \in Color
          BY <2>1, <1>0 DEF Tree
        <5>2. t.parent[c] = n /\ t.parent[c] = hp /\ c # t.root
          BY <2>5, <3>1, <3>3, <4>1, <2>11
        <5>3. x = hs
          BY <5>2, <2>1, <2>5, <3>1, <3>3, <4>1, UpFacts
        <5> QED BY <5>1, <5>2, <5>3, <2>5, <4>1 DEF Color
      <4>3. Height(u.color, bh, c) = bh[c] + 1 /\ Height(t.color, bh, c) = bh[c] /\ Dark(u.color, c) /\ bh[c] \in Nat
        BY <4>2, <1>0, <1>2, <2>1, <2>3, <2>6 DEF Height, Dark
      <4> QED BY <3>2, <3>3, <4>2, <4>3 DEF Fit
    <3>4. CASE k # c
      <4>1. ~(n = hp /\ x = hs)
        BY <2>5, <3>1, <3>2, <3>4
      <4>2. Height(u.color, bh, k) = Height(t.color, bh, k) /\ (Dark(u.color, k) <=> Dark(t.color, k))
        BY <3>2, <3>4, <2>3 DEF Height, Dark, Link
      <4>3. u.color[n] = "RED" => t.color[n] = "RED" /\ n # c
        BY <3>2, <2>3
      <4> QED BY <3>2, <3>4, <4>1, <4>2, <4>3 DEF Fit
    <3> QED BY <3>3, <3>4
  <2>8. Fits(u, S, bh, NULL, "left", NULL)
    BY <2>6, <2>7 DEF Fits
  <2>9. IsBlack(u, u.root)
    <3>1. t.root = c \/ t.color[t.root] = "BLACK"
      BY DEF Short, RootOk
    <3>2. t.root \in Node \/ t.root = NULL
      BY <1>0 DEF Shape
    <3> QED BY <3>1, <3>2, <2>3 DEF IsBlack, SameLinks
  <2>10. Sound(u, key_, S)
    BY <2>4, <2>8, <2>9 DEF Sound, Well
  <2> QED BY <1>2, <2>2, <2>10
<1> QED BY <1>1, <1>2

\* While the loop goes on c is black, and there is nothing wrong but the heights.
Gap(t, S, bh, p, h, c) ==
  /\ p \in S /\ h \in Side /\ t.kid[h][p] = c
  /\ Dark(t.color, c) /\ t.color[t.root] = "BLACK"
  /\ Fits(t, S, bh, p, h, NULL)

LEMMA ShortGap ==
  ASSUME NEW t, NEW key_, NEW S, NEW sub, Shape(t, key_, S, sub), NEW bh, NEW p, NEW c,
         Short(t, S, bh, p, c), ~Filled(t, c)
  PROVE  \E h \in Side : Gap(t, S, bh, p, h, c)
<1>1. Dark(t.color, c) /\ c # t.root /\ t.color[t.root] = "BLACK"
  BY DEF Filled, Short, RootOk
<1>2. PICK h \in Side : Lacks(t, S, bh, p, h, c)
  BY <1>1 DEF Short
<1>3. ASSUME NEW n \in S, NEW x \in Side PROVE Fit(t.color, bh, n, x, t.kid[x][n], p, h, NULL)
  <2>1. Fit(t.color, bh, n, x, t.kid[x][n], p, h, c)
    BY <1>2 DEF Lacks, Fits
  <2>2. n \in Node /\ n # NULL
    BY RBAssumption DEF Shape
  <2> QED BY <2>1, <2>2, <1>1 DEF Fit, Dark
<1> QED BY <1>1, <1>2, <1>3 DEF Gap, Lacks, Fits

\* Its sibling w.
LEMMA GapFacts ==
  ASSUME NEW t, NEW key_, NEW S, NEW sub, Shape(t, key_, S, sub), NEW bh, NEW p, NEW h, NEW c,
         Gap(t, S, bh, p, h, c), NEW w, w = t.kid[Opposite(h)][p]
  PROVE  /\ p \in S /\ p \in Node /\ p # NULL /\ h \in Side /\ t.kid[h][p] = c /\ S \subseteq Node /\ t \in Tree
         /\ c \in Link /\ c # p /\ c # t.root /\ (c # NULL => c \in S /\ t.parent[c] = p)
         /\ w \in S /\ w \in Node /\ w # NULL /\ w # c /\ w # p /\ w # t.root /\ t.parent[w] = p
         /\ SideOf(t, p, c) = h
         /\ bh \in [Node -> Nat] /\ bh[p] \in Nat /\ Height(t.color, bh, c) \in Nat
         /\ bh[p] = Height(t.color, bh, c) + 1 /\ bh[p] = Height(t.color, bh, w)
<1>1. p \in S /\ h \in Side /\ t.kid[h][p] = c /\ S \subseteq Node /\ t \in Tree /\ bh \in [Node -> Nat] /\ Opposite(h) \in Side /\ Opposite(h) # h
  BY Sides DEF Gap, Shape, Fits
<1>2. /\ p \in Node /\ p # NULL /\ c \in Link /\ c # p
      /\ c # NULL => c \in S /\ t.parent[c] = p /\ c # t.root /\ w # c
  BY <1>1, KidFacts
<1>3. t.root # NULL
  BY <1>1 DEF Shape, Sub
<1>4. w \in Link /\ w # p /\ (w # NULL => w \in S /\ w \in Node /\ t.parent[w] = p /\ w # t.root)
  BY <1>1, KidFacts
<1>5. Fit(t.color, bh, p, h, c, p, h, NULL) /\ Fit(t.color, bh, p, Opposite(h), w, p, h, NULL)
  BY <1>1 DEF Gap, Fits
<1>6. Height(t.color, bh, c) \in Nat /\ Height(t.color, bh, w) \in Nat /\ bh[p] \in Nat
  BY <1>1, <1>2, <1>4 DEF Height, Link
<1>7. bh[p] = Height(t.color, bh, c) + 1 /\ bh[p] = Height(t.color, bh, w)
  BY <1>1, <1>5, <1>6 DEF Fit
<1>8. w # NULL
  BY <1>6, <1>7 DEF Height
<1>9. w # c
  BY <1>2, <1>8
<1>10. SideOf(t, p, c) = h
  <2>1. CASE h = "left"
    BY <2>1, <1>1 DEF SideOf
  <2>2. CASE h = "right"
    <3>1. t.kid["left"][p] = w
      BY <2>2 DEF Opposite
    <3> QED BY <2>2, <3>1, <1>9 DEF SideOf
  <2> QED BY <2>1, <2>2, <1>1 DEF Side
<1> QED BY <1>1, <1>2, <1>3, <1>4, <1>6, <1>7, <1>8, <1>9, <1>10

\* tmp is a child of elm and far one of tmp.
Arm(t, S, elm, tmp, far) ==
  /\ elm \in S /\ tmp \in S
  /\ \E s \in Side : t.kid[s][elm] = tmp
  /\ \E s \in Side : t.kid[s][tmp] = far

\* v is t with other colours and heights around a rotation.
Repainted(t, v, bh, bh2, elm, tmp, far) ==
  /\ SameLinks(t, v) /\ bh2 \in [Node -> Nat]
  /\ \A m \in Node : m # elm /\ m # tmp => bh2[m] = bh[m]
  /\ \A m \in Node : m # elm /\ m # tmp /\ m # far => v.color[m] = t.color[m]
  /\ far # NULL => v.color[far] = t.color[far] \/ v.color[far] = "BLACK"

\* The other nodes do not see that.
LEMMA OthersFit ==
  ASSUME NEW t, NEW key_, NEW S, NEW sub, Shape(t, key_, S, sub), NEW elm, NEW tmp, NEW far,
         Arm(t, S, elm, tmp, far), NEW bh, NEW hp, NEW hs, Fits(t, S, bh, hp, hs, NULL),
         NEW v, NEW bh2, Repainted(t, v, bh, bh2, elm, tmp, far)
  PROVE  \A n \in S, x \in Side : n # elm /\ n # tmp /\ v.kid[x][n] # elm =>
           Fit(v.color, bh2, n, x, v.kid[x][n], hp, hs, NULL)
<1>1. tmp # NULL /\ t.parent[tmp] = elm /\ elm # tmp /\ tmp \in Node /\ elm \in Node
  <2>1. elm \in S /\ tmp \in S /\ elm \in Node /\ tmp \in Node /\ tmp # NULL
    BY RBAssumption DEF Arm, Shape
  <2>2. PICK s \in Side : t.kid[s][elm] = tmp
    BY DEF Arm
  <2> QED BY <2>1, <2>2, KidFacts
<1>2. far # NULL => t.parent[far] = tmp /\ far # tmp
  <2>1. PICK s \in Side : t.kid[s][tmp] = far
    BY DEF Arm
  <2>2. tmp \in S
    BY DEF Arm
  <2> QED BY <2>1, <2>2, KidFacts
<1>3. ASSUME NEW n \in S, NEW x \in Side, n # elm, n # tmp, v.kid[x][n] # elm
      PROVE  Fit(v.color, bh2, n, x, v.kid[x][n], hp, hs, NULL)
  <2>1. PICK k : k = t.kid[x][n]
    OBVIOUS
  <2>2. v.kid[x][n] = k /\ n \in Node /\ n # NULL /\ k \in Link /\ (k # NULL => t.parent[k] = n /\ k \in Node)
    BY <2>1, KidFacts DEF Repainted, SameLinks
  <2>3. k # tmp /\ k # elm /\ (k # NULL => k # far)
    BY <2>2, <1>1, <1>2, <1>3
  <2>4. /\ Height(v.color, bh2, k) = Height(t.color, bh, k) /\ (Dark(v.color, k) <=> Dark(t.color, k))
    BY <2>2, <2>3 DEF Height, Dark, Repainted
  <2>5. bh2[n] = bh[n] /\ (v.color[n] = "RED" => t.color[n] = "RED")
    <3>1. CASE n = far
      BY <2>2, <3>1, <1>3 DEF Repainted
    <3>2. CASE n # far
      BY <2>2, <3>2, <1>3 DEF Repainted
    <3> QED BY <3>1, <3>2
  <2>6. Fit(t.color, bh, n, x, k, hp, hs, NULL)
    BY <2>1 DEF Fits
  <2> QED BY <2>2, <2>4, <2>5, <2>6 DEF Fit
<1> QED BY <1>3

\* A red sibling is rotated up: the new one is black, and p is red.
LEMMA RedSiblingRotates ==
  ASSUME NEW t, NEW key_, NEW S, NEW sub, Shape(t, key_, S, sub), NEW bh, NEW p, NEW h, NEW c,
         Gap(t, S, bh, p, h, c), NEW w, w = t.kid[Opposite(h)][p], t.color[w] = "RED",
         NEW u, u = Rotate(SetBlackRed(t, w, p), h, p)
  PROVE  /\ \E sub2 : Shape(u, key_, S, sub2)
         /\ Gap(u, S, bh, p, h, c)
         /\ u.color[p] = "RED" /\ u.color[u.kid[Opposite(h)][p]] = "BLACK"
<1>1. PICK o : o = Opposite(h)
  OBVIOUS
<1>2. /\ p \in S /\ p \in Node /\ p # NULL /\ h \in Side /\ t.kid[h][p] = c /\ S \subseteq Node /\ t \in Tree
      /\ c \in Link /\ c # p
      /\ w \in S /\ w \in Node /\ w # NULL /\ w # c /\ w # p /\ w # t.root /\ t.parent[w] = p
      /\ bh \in [Node -> Nat] /\ bh[p] \in Nat /\ Height(t.color, bh, c) \in Nat
      /\ bh[p] = Height(t.color, bh, c) + 1 /\ bh[p] = Height(t.color, bh, w)
  BY GapFacts
<1>3. o \in Side /\ o # h /\ Opposite(o) = h /\ w = t.kid[o][p] /\ \A x \in Side : x = h \/ x = o
  BY <1>1, <1>2, Sides
<1>4. PICK near, far, g, sg : near = t.kid[h][w] /\ far = t.kid[o][w] /\ g = t.parent[p] /\ sg = SideOf(t, g, p)
  OBVIOUS
<1>5. PICK v : v = SetBlackRed(t, w, p)
  OBVIOUS
<1>6. /\ SameLinks(t, v) /\ v.color[w] = "BLACK" /\ v.color[p] = "RED"
      /\ \A m \in Node : m # w /\ m # p => v.color[m] = t.color[m]
  BY <1>2, <1>5, SetBlackRedFacts
<1>7. Shape(v, key_, S, sub)
  BY <1>6, ShapeRecolored
<1>8. Pivot(v, h, p, w, near, g, sg)
  <2>1. w = v.kid[Opposite(h)][p] /\ near = v.kid[h][w] /\ g = v.parent[p] /\ sg = SideOf(v, g, p)
    BY <1>4, <1>6 DEF SameLinks, SideOf
  <2>2. Pivot(v, h, p, w, v.kid[h][w], v.parent[p], SideOf(v, v.parent[p], p))
    BY <1>2, <1>7, <2>1, PivotHolds
  <2> QED BY <2>1, <2>2
<1>9. Rotated(v, u, h, p, w, near, g, sg)
  BY <1>5, <1>6, <1>8, RotateFacts DEF SameLinks
<1>10. \E sub2 : Shape(u, key_, S, sub2)
  BY <1>2, <1>7, <1>8, <1>9, ShapeRotates
<1>11. \A n \in S, x \in Side : Fit(t.color, bh, n, x, t.kid[x][n], p, h, NULL)
  BY DEF Gap, Fits
<1>12. /\ near \in Link /\ far \in Link /\ near # w /\ near # p /\ far # w /\ far # p /\ g \in Link /\ g # p
       /\ g # NULL => g \in S /\ sg \in Side /\ t.kid[sg][g] = p
  <2>1. near \in Link /\ far \in Link /\ near # w /\ far # w
    BY <1>2, <1>3, <1>4, KidFacts
  <2>2. g \in Link /\ g # p /\ (g # NULL => g \in S /\ sg \in Side /\ t.kid[sg][g] = p)
    BY <1>2, <1>4, UpFacts, RBAssumption
  <2>3. near # p /\ far # p
    <3>1. near # p
      BY <1>8 DEF Pivot
    <3>2. far # NULL => t.parent[far] = w
      BY <1>2, <1>3, <1>4, KidFacts
    <3>3. g # w
      BY <1>8 DEF Pivot
    <3> QED BY <3>1, <3>2, <3>3, <1>2, <1>4
  <2> QED BY <2>1, <2>2, <2>3
<1>13. /\ Fit(t.color, bh, p, o, w, p, h, NULL) /\ Fit(t.color, bh, w, h, near, p, h, NULL)
       /\ Fit(t.color, bh, w, o, far, p, h, NULL) /\ (g # NULL => Fit(t.color, bh, g, sg, p, p, h, NULL))
  BY <1>2, <1>3, <1>4, <1>11, <1>12
<1>14. t.color[p] = "BLACK" /\ bh[w] = bh[p] /\ Dark(t.color, near)
  <2>1. t.color[p] \in Color
    BY <1>2 DEF Tree
  <2>2. bh[w] = bh[p]
    BY <1>2 DEF Height
  <2>3. Dark(t.color, near)
    BY <1>2, <1>13 DEF Fit, Dark
  <2>4. t.color[p] = "RED" => Dark(t.color, w)
    BY <1>2, <1>13 DEF Fit
  <2> QED BY <2>1, <2>2, <2>3, <2>4, <1>2 DEF Dark, Color
<1>15. /\ Height(t.color, bh, near) = bh[p] /\ Height(t.color, bh, far) = bh[p]
  <2>1. Height(t.color, bh, near) \in Nat /\ Height(t.color, bh, far) \in Nat
    BY <1>2, <1>12 DEF Height, Link
  <2> QED BY <2>1, <1>2, <1>13, <1>14 DEF Fit
<1>16. \A k \in Link : k # w /\ k # p => /\ Height(v.color, bh, k) = Height(t.color, bh, k)
                                         /\ Dark(v.color, k) <=> Dark(t.color, k)
  BY <1>6 DEF Height, Dark, Link
<1>17. /\ Height(v.color, bh, w) = bh[p] + 1 /\ Height(v.color, bh, p) = bh[p]
       /\ Height(v.color, bh, c) = Height(t.color, bh, c) /\ Dark(v.color, c)
       /\ Height(v.color, bh, near) = bh[p] /\ Height(v.color, bh, far) = bh[p] /\ Dark(v.color, near)
  <2>1. Dark(t.color, c)
    BY DEF Gap
  <2>2. Height(v.color, bh, w) = bh[p] + 1 /\ Height(v.color, bh, p) = bh[p]
    BY <1>2, <1>6, <1>14 DEF Height
  <2> QED BY <2>1, <2>2, <1>2, <1>12, <1>14, <1>15, <1>16
<1>18. \A n \in S, x \in Side : n # p /\ n # w /\ v.kid[x][n] # p => Fit(v.color, bh, n, x, v.kid[x][n], p, h, NULL)
  <2>1. Repainted(t, v, bh, bh, p, w, far)
    BY <1>2, <1>6, <1>12 DEF Repainted, Link
  <2>2. Fits(t, S, bh, p, h, NULL)
    BY DEF Gap
  <2>3. Arm(t, S, p, w, far)
    BY <1>2, <1>3, <1>4 DEF Arm
  <2> QED BY <2>1, <2>2, <2>3, OthersFit
<1>19. g # NULL => Fit(v.color, bh, g, sg, w, p, h, NULL)
  <2>1. Height(t.color, bh, p) = bh[p] + 1
    BY <1>2, <1>14 DEF Height
  <2> QED BY <2>1, <1>2, <1>6, <1>12, <1>13, <1>17 DEF Fit, Dark
<1>20. /\ Fit(v.color, bh, p, h, c, p, h, NULL) /\ Fit(v.color, bh, p, o, near, p, h, NULL)
       /\ Fit(v.color, bh, w, h, p, p, h, NULL) /\ Fit(v.color, bh, w, o, far, p, h, NULL)
  <2>1. Fit(v.color, bh, p, h, c, p, h, NULL)
    BY <1>2, <1>17 DEF Fit
  <2>2. Fit(v.color, bh, p, o, near, p, h, NULL)
    <3>1. o # h /\ bh[p] \in Nat /\ Height(v.color, bh, near) = bh[p] /\ Dark(v.color, near)
      BY <1>2, <1>3, <1>17
    <3> QED BY <3>1 DEF Fit
  <2>3. v.color[w] # "RED"
    BY <1>6
  <2>4. Fit(v.color, bh, w, h, p, p, h, NULL) /\ Fit(v.color, bh, w, o, far, p, h, NULL)
    BY <1>2, <1>14, <1>17, <2>3 DEF Fit
  <2> QED BY <2>1, <2>2, <2>4
<1>21. Fits(u, S, bh, p, h, NULL)
  <2>1. c = v.kid[h][p] /\ far = v.kid[o][w]
    BY <1>2, <1>4, <1>6 DEF SameLinks
  <2> QED BY <1>1, <1>2, <1>7, <1>8, <1>9, <1>18, <1>19, <1>20, <2>1, FitsRotate
<1>22. u.kid[h][p] = c /\ u.kid[o][p] = near /\ u.color = v.color
  <2>1. u.kid[o][p] = near /\ u.color = v.color
    BY <1>1, <1>9 DEF Rotated
  <2>2. u.kid[h][p] = v.kid[h][p]
    BY <1>1, <1>2, <1>3, <1>9, <1>12 DEF Rotated
  <2> QED BY <2>1, <2>2, <1>2, <1>6 DEF SameLinks
<1>23. u.color[u.root] = "BLACK"
  <2>1. CASE g = NULL
    BY <2>1, <1>6, <1>9, <1>22 DEF Rotated
  <2>2. CASE g # NULL
    <3>1. u.root = t.root /\ t.root # p /\ t.root # w /\ t.root \in Node /\ t.color[t.root] = "BLACK"
      <4>1. u.root = t.root
        BY <2>2, <1>6, <1>9 DEF Rotated, SameLinks
      <4>2. t.root # p
        BY <2>2, <1>2, <1>4, UpFacts
      <4>3. t.root \in Node
        BY <1>2 DEF Shape, Sub
      <4> QED BY <4>1, <4>2, <4>3, <1>2 DEF Gap
    <3> QED BY <3>1, <1>6, <1>22
  <2> QED BY <2>1, <2>2
<1>24. Gap(u, S, bh, p, h, c)
  BY <1>2, <1>17, <1>21, <1>22, <1>23 DEF Gap
<1>25. u.color[near] = "BLACK"
  <2>1. near # NULL
    BY <1>2, <1>15 DEF Height
  <2> QED BY <2>1, <1>17, <1>22 DEF Dark
<1> QED BY <1>1, <1>6, <1>10, <1>22, <1>24, <1>25

\* w is the child of p away from h, and these are its children.
Nephews(t, h, p, w, near, far) ==
  w = t.kid[Opposite(h)][p] /\ near = t.kid[h][w] /\ far = t.kid[Opposite(h)][w]

\* The near child r of a black sibling w is red, the far one black: r is rotated
\* up, and w becomes its red far child.
LEMMA NearChildRotates ==
  ASSUME NEW t, NEW key_, NEW S, NEW sub, Shape(t, key_, S, sub), NEW bh, NEW p, NEW h, NEW c,
         Gap(t, S, bh, p, h, c), NEW w, NEW r, NEW far, Nephews(t, h, p, w, r, far),
         t.color[w] = "BLACK", ~Dark(t.color, r), Dark(t.color, far),
         NEW u, u = Rotate(SetBlackRed(t, r, w), Opposite(h), w)
  PROVE  /\ \E sub2 : Shape(u, key_, S, sub2)
         /\ Gap(u, S, bh, p, h, c)
         /\ u.kid[Opposite(h)][p] = r /\ u.color[r] = "BLACK"
         /\ u.kid[Opposite(h)][r] = w /\ u.color[w] = "RED"
<1>1. PICK o : o = Opposite(h)
  OBVIOUS
<1>2. /\ p \in S /\ p \in Node /\ p # NULL /\ h \in Side /\ t.kid[h][p] = c /\ S \subseteq Node /\ t \in Tree
      /\ c \in Link /\ c # p /\ (c # NULL => c \in S /\ t.parent[c] = p)
      /\ w \in S /\ w \in Node /\ w # NULL /\ w # c /\ w # p /\ w # t.root /\ t.parent[w] = p
      /\ bh \in [Node -> Nat] /\ bh[p] \in Nat
      /\ bh[p] = Height(t.color, bh, w)
  BY GapFacts DEF Nephews
<1>3. o \in Side /\ o # h /\ Opposite(o) = h
  BY <1>1, <1>2, Sides
<1>30. t.kid[o][p] = w /\ t.kid[h][w] = r /\ t.kid[o][w] = far
  BY <1>1 DEF Nephews
<1>4. PICK inner, low : inner = t.kid[o][r] /\ low = t.kid[h][r]
  OBVIOUS
<1>5. PICK v : v = SetBlackRed(t, r, w)
  OBVIOUS
<1>6. /\ r \in S /\ r \in Node /\ r # NULL /\ r # w /\ t.color[r] = "RED" /\ t.parent[r] = w /\ r # t.root
      /\ r # p /\ r # c
  <2>1. r # NULL
    BY DEF Dark
  <2>2. r \in S /\ r \in Node /\ r # w /\ t.parent[r] = w /\ r # t.root
    BY <2>1, <1>2, <1>30, KidFacts
  <2>3. t.color[r] = "RED"
    BY <2>1, <2>2, <1>2 DEF Dark, Tree, Color
  <2>4. r # c
    BY <2>1, <2>2, <1>2
  <2>5. r # p
    <3>1. Cardinality(sub[r]) < Cardinality(sub[w])
      BY <2>1, <1>2, <1>30, KidsSmaller
    <3>2. Cardinality(sub[w]) < Cardinality(sub[p])
      BY <1>2, UpFacts
    <3>3. Cardinality(sub[r]) \in Nat /\ Cardinality(sub[w]) \in Nat
      BY <1>2, <2>2, Sizes DEF Shape
    <3> QED BY <3>1, <3>2, <3>3
  <2> QED BY <2>1, <2>2, <2>3, <2>4, <2>5
<1>7. /\ SameLinks(t, v) /\ v.color[r] = "BLACK" /\ v.color[w] = "RED"
      /\ \A m \in Node : m # r /\ m # w => v.color[m] = t.color[m]
  BY <1>2, <1>5, <1>6, SetBlackRedFacts
<1>8. Shape(v, key_, S, sub)
  BY <1>7, ShapeRecolored
<1>9. Pivot(v, o, w, r, inner, p, o)
  <2>1. r = v.kid[Opposite(o)][w] /\ inner = v.kid[o][r] /\ p = v.parent[w]
    BY <1>2, <1>3, <1>30, <1>4, <1>7 DEF SameLinks
  <2>2. Pivot(v, o, w, r, v.kid[o][r], v.parent[w], SideOf(v, v.parent[w], w))
    BY <1>2, <1>3, <1>6, <1>8, <2>1, PivotHolds
  <2>3. v.kid[o][v.parent[w]] = w /\ v.root # w
    BY <1>2, <1>30, <1>7 DEF SameLinks
  <2>4. SideOf(v, v.parent[w], w) = o
    BY <2>3, <1>2, <1>3, <1>8, UpFacts
  <2> QED BY <2>1, <2>2, <2>4
<1>10. Rotated(v, u, o, w, r, inner, p, o)
  BY <1>1, <1>5, <1>7, <1>9, RotateFacts DEF SameLinks
<1>11. \E sub2 : Shape(u, key_, S, sub2)
  BY <1>2, <1>3, <1>8, <1>9, <1>10, ShapeRotates
<1>12. \A n \in S, x \in Side : Fit(t.color, bh, n, x, t.kid[x][n], p, h, NULL)
  BY DEF Gap, Fits
<1>13. inner \in Link /\ far \in Link /\ low \in Link /\ inner # w /\ inner # r /\ far # w /\ far # r /\ low # r /\ low # w
  <2>1. inner \in Link /\ far \in Link /\ low \in Link /\ inner # r /\ far # w /\ low # r
    BY <1>2, <1>3, <1>30, <1>4, <1>6, KidFacts
  <2>2. inner # w
    BY <1>9 DEF Pivot
  <2>3. far # r
    BY <1>1, <1>2, <1>30, <1>6, KidFacts
  <2>4. low # NULL => t.parent[low] = r
    BY <1>2, <1>4, <1>6, KidFacts
  <2> QED BY <2>1, <2>2, <2>3, <2>4, <1>2, <1>6
<1>14. /\ Fit(t.color, bh, w, h, r, p, h, NULL) /\ Fit(t.color, bh, w, o, far, p, h, NULL)
       /\ Fit(t.color, bh, r, h, low, p, h, NULL) /\ Fit(t.color, bh, r, o, inner, p, h, NULL)
  BY <1>2, <1>3, <1>30, <1>4, <1>6, <1>12
<1>15. /\ bh[p] = bh[w] + 1 /\ bh[w] \in Nat /\ bh[r] = bh[w] /\ Height(t.color, bh, far) = bh[w]
       /\ Height(t.color, bh, low) = bh[w] /\ Height(t.color, bh, inner) = bh[w] /\ Dark(t.color, inner)
  <2>1. bh[p] = bh[w] + 1 /\ bh[w] \in Nat /\ Height(t.color, bh, r) = bh[r] /\ bh[r] \in Nat
    BY <1>2, <1>6 DEF Height
  <2>2. Height(t.color, bh, far) \in Nat /\ Height(t.color, bh, low) \in Nat /\ Height(t.color, bh, inner) \in Nat
    BY <1>2, <1>13 DEF Height, Link
  <2>3. bh[r] = bh[w]
    BY <2>1, <1>2, <1>14 DEF Fit
  <2>4. Height(t.color, bh, far) = bh[w]
    BY <2>1, <2>2, <1>2, <1>14 DEF Fit
  <2>5. Height(t.color, bh, low) = bh[w] /\ Height(t.color, bh, inner) = bh[w]
    BY <2>1, <2>2, <2>3, <1>6, <1>14 DEF Fit
  <2>6. Dark(t.color, inner)
    BY <1>6, <1>14 DEF Fit, Dark
  <2> QED BY <2>1, <2>3, <2>4, <2>5, <2>6
<1>16. \A k \in Link : k # w /\ k # r => /\ Height(v.color, bh, k) = Height(t.color, bh, k)
                                         /\ Dark(v.color, k) <=> Dark(t.color, k)
  BY <1>7 DEF Height, Dark, Link
<1>17. /\ Height(v.color, bh, r) = bh[p] /\ Height(v.color, bh, w) = bh[w] /\ Dark(v.color, r)
       /\ Height(v.color, bh, far) = bh[w] /\ Height(v.color, bh, low) = bh[w] /\ Height(v.color, bh, inner) = bh[w]
       /\ Dark(v.color, far) /\ Dark(v.color, inner) /\ Dark(v.color, c)
  <2>1. Dark(t.color, c)
    BY DEF Gap
  <2>2. Height(v.color, bh, r) = bh[p] /\ Height(v.color, bh, w) = bh[w] /\ Dark(v.color, r)
    BY <1>2, <1>6, <1>7, <1>15 DEF Height, Dark
  <2> QED BY <2>1, <2>2, <1>2, <1>6, <1>13, <1>15, <1>16
<1>18. \A n \in S, x \in Side : n # w /\ n # r /\ v.kid[x][n] # w => Fit(v.color, bh, n, x, v.kid[x][n], p, h, NULL)
  <2>1. Repainted(t, v, bh, bh, w, r, low)
    BY <1>2, <1>7, <1>13 DEF Repainted, Link
  <2>2. Fits(t, S, bh, p, h, NULL)
    BY DEF Gap
  <2>3. Arm(t, S, w, r, low)
    BY <1>2, <1>30, <1>4, <1>6 DEF Arm
  <2> QED BY <2>1, <2>2, <2>3, OthersFit
<1>19. Fit(v.color, bh, p, o, r, p, h, NULL)
  <2>1. o # h /\ Height(v.color, bh, r) = bh[p] /\ Dark(v.color, r) /\ bh[p] \in Nat
    BY <1>2, <1>3, <1>17
  <2> QED BY <2>1 DEF Fit
<1>20. /\ Fit(v.color, bh, w, o, far, p, h, NULL) /\ Fit(v.color, bh, w, h, inner, p, h, NULL)
       /\ Fit(v.color, bh, r, o, w, p, h, NULL) /\ Fit(v.color, bh, r, h, low, p, h, NULL)
  <2>1. Fit(v.color, bh, w, o, far, p, h, NULL) /\ Fit(v.color, bh, w, h, inner, p, h, NULL)
    BY <1>2, <1>15, <1>17 DEF Fit
  <2>2. v.color[r] # "RED"
    BY <1>7
  <2>3. Fit(v.color, bh, r, o, w, p, h, NULL) /\ Fit(v.color, bh, r, h, low, p, h, NULL)
    BY <2>2, <1>6, <1>15, <1>17 DEF Fit
  <2> QED BY <2>1, <2>3
<1>21. Fits(u, S, bh, p, h, NULL)
  <2>1. far = v.kid[o][w] /\ low = v.kid[Opposite(o)][r] /\ Opposite(o) = h
    BY <1>3, <1>30, <1>4, <1>7 DEF SameLinks
  <2> QED BY <1>2, <1>3, <1>8, <1>9, <1>10, <1>18, <1>19, <1>20, <2>1, FitsRotate
<1>22. u.kid[h][p] = c /\ u.kid[o][p] = r /\ u.color = v.color /\ u.kid[o][r] = w /\ u.root = t.root
  <2>1. u.kid[o][p] = r /\ u.color = v.color /\ u.kid[o][r] = w /\ u.root = v.root
    BY <1>2, <1>10 DEF Rotated
  <2>2. u.kid[h][p] = v.kid[h][p]
    BY <1>2, <1>3, <1>6, <1>10 DEF Rotated
  <2> QED BY <2>1, <2>2, <1>2, <1>7 DEF SameLinks
<1>23. u.color[u.root] = "BLACK"
  <2>1. t.root \in Node
    BY <1>2 DEF Shape, Sub
  <2>2. t.color[t.root] = "BLACK"
    BY DEF Gap
  <2> QED BY <2>1, <2>2, <1>2, <1>6, <1>7, <1>22
<1>24. Gap(u, S, bh, p, h, c)
  BY <1>2, <1>17, <1>21, <1>22, <1>23 DEF Gap
<1> QED BY <1>1, <1>7, <1>11, <1>22, <1>24

LEMMA RepaintFacts ==
  ASSUME NEW t \in Tree, NEW w \in Node, NEW p \in Node, NEW f \in Node, w # p, f # w, f # p,
         NEW v, v = Paint(Paint(Paint(t, w, t.color[p]), p, "BLACK"), f, "BLACK")
  PROVE  /\ SameLinks(t, v) /\ v.color[w] = t.color[p] /\ v.color[p] = "BLACK" /\ v.color[f] = "BLACK"
         /\ \A m \in Node : m # w /\ m # p /\ m # f => v.color[m] = t.color[m]
<1>1. "BLACK" \in Color /\ t.color[p] \in Color
  BY DEF Color, Tree
<1>2. PICK a : a = Paint(t, w, t.color[p])
  OBVIOUS
<1>3. Painted(t, a, w, t.color[p])
  BY <1>1, <1>2, PaintFacts
<1>4. a \in Tree
  BY <1>3 DEF Painted
<1>5. PICK b : b = Paint(a, p, "BLACK")
  OBVIOUS
<1>6. Painted(a, b, p, "BLACK")
  BY <1>1, <1>4, <1>5, PaintFacts
<1>7. b \in Tree
  BY <1>6 DEF Painted
<1>8. Painted(b, v, f, "BLACK")
  BY <1>1, <1>2, <1>5, <1>7, PaintFacts
<1> QED BY <1>3, <1>6, <1>8 DEF Painted, SameLinks

\* The far child of a black sibling w is red: w is rotated up and gives its black
\* to p, its colour comes from p, and far becomes black.
LEMMA FarChildRotates ==
  ASSUME NEW t, NEW key_, NEW S, NEW sub, Shape(t, key_, S, sub), NEW bh, NEW p, NEW h, NEW c,
         Gap(t, S, bh, p, h, c), NEW w, NEW near, NEW far, Nephews(t, h, p, w, near, far),
         t.color[w] = "BLACK", ~Dark(t.color, far), NEW u, u = FarChild(t, h, p)
  PROVE  Well(u, key_, S) /\ u \in Tree
<1>1. PICK o : o = Opposite(h)
  OBVIOUS
<1>2. /\ p \in S /\ p \in Node /\ p # NULL /\ h \in Side /\ t.kid[h][p] = c /\ S \subseteq Node /\ t \in Tree
      /\ c \in Link /\ c # p /\ (c # NULL => c \in S /\ t.parent[c] = p)
      /\ w \in S /\ w \in Node /\ w # NULL /\ w # c /\ w # p /\ w # t.root /\ t.parent[w] = p
      /\ bh \in [Node -> Nat] /\ bh[p] \in Nat /\ Height(t.color, bh, c) \in Nat
      /\ bh[p] = Height(t.color, bh, c) + 1 /\ bh[p] = Height(t.color, bh, w)
  BY GapFacts DEF Nephews
<1>3. o \in Side /\ o # h /\ Opposite(o) = h
  BY <1>1, <1>2, Sides
<1>30. t.kid[o][p] = w /\ t.kid[h][w] = near /\ t.kid[o][w] = far
  BY <1>1 DEF Nephews
<1>4. PICK g, sg : g = t.parent[p] /\ sg = SideOf(t, g, p)
  OBVIOUS
<1>5. /\ far \in S /\ far \in Node /\ far # NULL /\ far # w /\ t.color[far] = "RED" /\ t.parent[far] = w /\ far # t.root
      /\ far # p /\ far # c
  <2>1. far # NULL
    BY DEF Dark
  <2>2. far \in S /\ far \in Node /\ far # w /\ t.parent[far] = w /\ far # t.root
    BY <2>1, <1>2, <1>3, <1>30, KidFacts
  <2>3. t.color[far] = "RED"
    BY <2>1, <2>2, <1>2 DEF Dark, Tree, Color
  <2>4. far # c
    BY <2>1, <2>2, <1>2
  <2>5. far # p
    <3>1. Cardinality(sub[far]) < Cardinality(sub[w])
      BY <2>1, <1>2, <1>3, <1>30, KidsSmaller
    <3>2. Cardinality(sub[w]) < Cardinality(sub[p])
      BY <1>2, UpFacts
    <3>3. Cardinality(sub[far]) \in Nat /\ Cardinality(sub[w]) \in Nat
      BY <1>2, <2>2, Sizes DEF Shape
    <3> QED BY <3>1, <3>2, <3>3
  <2> QED BY <2>1, <2>2, <2>3, <2>4, <2>5
<1>6. PICK v : v = Paint(Paint(Paint(t, w, t.color[p]), p, "BLACK"), far, "BLACK")
  OBVIOUS
<1>7. u = Rotate(v, h, p)
  BY <1>5, <1>6 DEF FarChild, Nephews
<1>8. /\ SameLinks(t, v) /\ v.color[w] = t.color[p] /\ v.color[p] = "BLACK" /\ v.color[far] = "BLACK"
      /\ \A m \in Node : m # w /\ m # p /\ m # far => v.color[m] = t.color[m]
  BY <1>2, <1>5, <1>6, RepaintFacts
<1>9. Shape(v, key_, S, sub)
  BY <1>8, ShapeRecolored
<1>10. Pivot(v, h, p, w, near, g, sg)
  <2>1. w = v.kid[Opposite(h)][p] /\ near = v.kid[h][w] /\ g = v.parent[p] /\ sg = SideOf(v, g, p)
    BY <1>1, <1>30, <1>4, <1>8 DEF SameLinks, SideOf
  <2>2. Pivot(v, h, p, w, v.kid[h][w], v.parent[p], SideOf(v, v.parent[p], p))
    BY <1>2, <1>9, <2>1, PivotHolds
  <2> QED BY <2>1, <2>2
<1>11. Rotated(v, u, h, p, w, near, g, sg)
  BY <1>7, <1>8, <1>10, RotateFacts DEF SameLinks
<1>12. \E sub2 : Shape(u, key_, S, sub2)
  BY <1>2, <1>9, <1>10, <1>11, ShapeRotates
<1>13. \A n \in S, x \in Side : Fit(t.color, bh, n, x, t.kid[x][n], p, h, NULL)
  BY DEF Gap, Fits
<1>14. /\ near \in Link /\ near # w /\ near # p /\ near # far /\ g \in Link /\ g # p /\ g # w
       /\ g # NULL => g \in S /\ g \in Node /\ sg \in Side /\ t.kid[sg][g] = p
  <2>1. near \in Link /\ near # w
    BY <1>2, <1>30, KidFacts
  <2>2. near # far
    BY <1>1, <1>2, <1>3, <1>30, <1>5, KidFacts
  <2>3. g \in Link /\ (g # NULL => g \in S /\ g \in Node /\ sg \in Side /\ t.kid[sg][g] = p)
    BY <1>2, <1>4, UpFacts
  <2>4. near # p /\ g # p /\ g # w
    BY <1>10 DEF Pivot
  <2> QED BY <2>1, <2>2, <2>3, <2>4
<1>15. /\ Fit(t.color, bh, w, h, near, p, h, NULL) /\ Fit(t.color, bh, w, o, far, p, h, NULL)
       /\ g # NULL => Fit(t.color, bh, g, sg, p, p, h, NULL)
  BY <1>2, <1>3, <1>30, <1>13, <1>14
<1>16. PICK bh2 : bh2 = [bh EXCEPT ![p] = Height(t.color, bh, c), ![w] = bh[p]]
  OBVIOUS
<1>17. /\ bh2 \in [Node -> Nat] /\ bh2[p] = Height(t.color, bh, c) /\ bh2[w] = bh[p]
       /\ \A m \in Node : m # p /\ m # w => bh2[m] = bh[m]
  BY <1>2, <1>16
<1>18. /\ bh[w] \in Nat /\ bh[p] = bh[w] + 1 /\ Height(t.color, bh, near) = bh[w] /\ bh[far] = bh[w]
       /\ Height(t.color, bh, c) = bh[w]
  <2>1. bh[p] = bh[w] + 1 /\ bh[w] \in Nat /\ Height(t.color, bh, far) = bh[far] /\ bh[far] \in Nat
    BY <1>2, <1>5 DEF Height
  <2>2. Height(t.color, bh, near) \in Nat
    BY <1>2, <1>14 DEF Height, Link
  <2>3. Height(t.color, bh, near) = bh[w] /\ bh[far] = bh[w]
    BY <2>1, <2>2, <1>2, <1>15 DEF Fit
  <2> QED BY <2>1, <2>3, <1>2
<1>19. \A k \in Link : k # w /\ k # p /\ k # far => Height(v.color, bh2, k) = Height(t.color, bh, k)
  BY <1>8, <1>17 DEF Height, Link
<1>20. /\ Height(v.color, bh2, c) = bh[w] /\ Height(v.color, bh2, near) = bh[w]
       /\ Height(v.color, bh2, p) = bh[p] /\ Height(v.color, bh2, far) = bh[p]
       /\ Height(v.color, bh2, w) = Height(t.color, bh, p) /\ (Dark(v.color, w) <=> Dark(t.color, p))
       /\ Dark(v.color, p) /\ Dark(v.color, far)
  <2>1. Height(v.color, bh2, c) = bh[w] /\ Height(v.color, bh2, near) = bh[w]
    BY <1>2, <1>5, <1>14, <1>18, <1>19
  <2>2. Height(v.color, bh2, p) = bh[p] /\ Height(v.color, bh2, far) = bh[p]
    BY <1>2, <1>5, <1>8, <1>17, <1>18 DEF Height
  <2>3. Height(v.color, bh2, w) = Height(t.color, bh, p)
    BY <1>2, <1>8, <1>17 DEF Height
  <2>4. (Dark(v.color, w) <=> Dark(t.color, p)) /\ Dark(v.color, p) /\ Dark(v.color, far)
    BY <1>2, <1>8 DEF Dark
  <2> QED BY <2>1, <2>2, <2>3, <2>4
<1>21. ASSUME NEW n \in S, NEW x \in Side, n # p, n # w, v.kid[x][n] # p
       PROVE  Fit(v.color, bh2, n, x, v.kid[x][n], NULL, "left", NULL)
  <2>1. Repainted(t, v, bh, bh2, p, w, far)
    BY <1>5, <1>8, <1>17 DEF Repainted
  <2>2. Fits(t, S, bh, p, h, NULL)
    BY DEF Gap
  <2>3. Arm(t, S, p, w, far)
    BY <1>2, <1>3, <1>30 DEF Arm
  <2>4. Fit(v.color, bh2, n, x, v.kid[x][n], p, h, NULL)
    BY <2>1, <2>2, <2>3, <1>21, OthersFit
  <2>5. n # NULL
    BY <1>2, RBAssumption
  <2> QED BY <2>4, <2>5, <1>21 DEF Fit
<1>22. g # NULL => Fit(v.color, bh2, g, sg, w, NULL, "left", NULL)
  <2>1. g # NULL => bh2[g] = bh[g] /\ (v.color[g] = t.color[g] \/ v.color[g] = "BLACK")
    BY <1>8, <1>14, <1>17
  <2> QED BY <2>1, <1>2, <1>14, <1>15, <1>20 DEF Fit
<1>23. /\ Fit(v.color, bh2, p, h, c, NULL, "left", NULL) /\ Fit(v.color, bh2, p, o, near, NULL, "left", NULL)
       /\ Fit(v.color, bh2, w, h, p, NULL, "left", NULL) /\ Fit(v.color, bh2, w, o, far, NULL, "left", NULL)
  <2>1. v.color[p] # "RED" /\ bh2[p] = bh[w] /\ bh[w] \in Nat /\ p # NULL
    BY <1>2, <1>8, <1>17, <1>18
  <2>2. Fit(v.color, bh2, p, h, c, NULL, "left", NULL) /\ Fit(v.color, bh2, p, o, near, NULL, "left", NULL)
    BY <2>1, <1>20 DEF Fit
  <2>3. Fit(v.color, bh2, w, h, p, NULL, "left", NULL) /\ Fit(v.color, bh2, w, o, far, NULL, "left", NULL)
    BY <1>2, <1>17, <1>20 DEF Fit
  <2> QED BY <2>2, <2>3
<1>24. Fits(u, S, bh2, NULL, "left", NULL)
  <2>1. c = v.kid[h][p] /\ far = v.kid[Opposite(h)][w] /\ o = Opposite(h)
    BY <1>1, <1>2, <1>30, <1>8 DEF SameLinks
  <2> QED BY <1>2, <1>9, <1>10, <1>11, <1>17, <1>21, <1>22, <1>23, <2>1, FitsRotate
<1> QED BY <1>11, <1>12, <1>24 DEF Well, Rotated

\* A black sibling with black children becomes red: p is now short.
LEMMA SiblingReddens ==
  ASSUME NEW t, NEW key_, NEW S, NEW sub, Shape(t, key_, S, sub), NEW bh, NEW p, NEW h, NEW c,
         Gap(t, S, bh, p, h, c), NEW w, NEW near, NEW far, Nephews(t, h, p, w, near, far),
         t.color[w] = "BLACK", Dark(t.color, near), Dark(t.color, far), NEW v, v = Paint(t, w, "RED")
  PROVE  /\ SameLinks(t, v) /\ v.color[p] = t.color[p]
         /\ \E bh2 : Short(v, S, bh2, t.parent[p], p)
<1>1. PICK o : o = Opposite(h)
  OBVIOUS
<1>2. /\ p \in S /\ p \in Node /\ p # NULL /\ h \in Side /\ t.kid[h][p] = c /\ S \subseteq Node /\ t \in Tree
      /\ c \in Link /\ c # p /\ (c # NULL => c \in S /\ t.parent[c] = p)
      /\ w \in S /\ w \in Node /\ w # NULL /\ w # c /\ w # p /\ w # t.root /\ t.parent[w] = p
      /\ bh \in [Node -> Nat] /\ bh[p] \in Nat /\ Height(t.color, bh, c) \in Nat
      /\ bh[p] = Height(t.color, bh, c) + 1 /\ bh[p] = Height(t.color, bh, w)
  BY GapFacts DEF Nephews
<1>3. o \in Side /\ o # h /\ Opposite(o) = h /\ \A x \in Side : x = h \/ x = o
  BY <1>1, <1>2, Sides
<1>30. t.kid[o][p] = w /\ t.kid[h][w] = near /\ t.kid[o][w] = far
  BY <1>1 DEF Nephews
<1>4. PICK g, sg : g = t.parent[p] /\ sg = SideOf(t, g, p)
  OBVIOUS
<1>5. /\ g \in Link /\ g # p /\ g # w
      /\ g = NULL <=> p = t.root
      /\ g # NULL => g \in S /\ sg \in Side /\ t.kid[sg][g] = p
      /\ \A n \in S, x \in Side : t.kid[x][n] = p => g # NULL /\ n = g /\ x = sg
  <2>1. g \in Link /\ (g = NULL <=> p = t.root) /\ (g # NULL => g \in S /\ g # p /\ sg \in Side /\ t.kid[sg][g] = p)
    BY <1>2, <1>4, UpFacts
  <2>2. g # w
    <3>1. g # NULL => Cardinality(sub[p]) < Cardinality(sub[g])
      BY <1>2, <1>4, UpFacts
    <3>2. Cardinality(sub[w]) < Cardinality(sub[p])
      BY <1>2, UpFacts
    <3>3. Cardinality(sub[p]) \in Nat /\ Cardinality(sub[w]) \in Nat
      BY <1>2, Sizes DEF Shape
    <3> QED BY <3>1, <3>2, <3>3, <1>2
  <2>3. ASSUME NEW n \in S, NEW x \in Side, t.kid[x][n] = p PROVE g # NULL /\ n = g /\ x = sg
    <3>1. n = g /\ n # NULL /\ p # t.root
      BY <1>2, <1>4, <2>3, KidFacts
    <3> QED BY <3>1, <1>2, <1>4, <2>3, UpFacts
  <2> QED BY <1>2, <2>1, <2>2, <2>3
<1>6. /\ SameLinks(t, v) /\ v.color[w] = "RED" /\ \A m \in Node : m # w => v.color[m] = t.color[m]
  <2>1. "RED" \in Color
    BY DEF Color
  <2>2. Painted(t, v, w, "RED")
    BY <2>1, <1>2, PaintFacts
  <2> QED BY <2>2 DEF Painted, SameLinks
<1>7. PICK bh2 : bh2 = [bh EXCEPT ![p] = Height(t.color, bh, c)]
  OBVIOUS
<1>8. bh2 \in [Node -> Nat] /\ bh2[p] = Height(t.color, bh, c) /\ \A m \in Node : m # p => bh2[m] = bh[m]
  BY <1>2, <1>7
<1>9. bh[w] \in Nat /\ bh[p] = bh[w] + 1 /\ Height(t.color, bh, c) = bh[w]
  BY <1>2 DEF Height
<1>10. \A k \in Link : k # w /\ k # p => /\ Height(v.color, bh2, k) = Height(t.color, bh, k)
                                         /\ Dark(v.color, k) <=> Dark(t.color, k)
  BY <1>6, <1>8 DEF Height, Dark, Link
<1>11. /\ Height(v.color, bh2, w) = bh[w] /\ Height(t.color, bh, p) = Height(v.color, bh2, p) + 1
       /\ Height(v.color, bh2, p) \in Nat
  <2>1. Height(v.color, bh2, w) = bh[w]
    BY <1>2, <1>6, <1>8 DEF Height
  <2>2. v.color[p] = t.color[p] /\ bh2[p] = bh[w]
    BY <1>2, <1>6, <1>8, <1>9
  <2>3. Height(t.color, bh, p) = Height(v.color, bh2, p) + 1 /\ Height(v.color, bh2, p) \in Nat
    BY <1>2, <1>9, <2>2 DEF Height
  <2> QED BY <2>1, <2>3
<1>12. ASSUME NEW hp, NEW hs, hp = g, hp # NULL => hs = sg PROVE Fits(v, S, bh2, hp, hs, p)
  <2>1. ASSUME NEW n \in S, NEW x \in Side PROVE Fit(v.color, bh2, n, x, v.kid[x][n], hp, hs, p)
    <3>1. PICK k : k = t.kid[x][n]
      OBVIOUS
    <3>2. v.kid[x][n] = k /\ n \in Node /\ n # NULL /\ k \in Link /\ (k # NULL => t.parent[k] = n)
      BY <3>1, <1>6, KidFacts DEF SameLinks
    <3>3. Fit(t.color, bh, n, x, k, p, h, NULL)
      BY <3>1 DEF Gap, Fits
    <3>4. Height(t.color, bh, k) \in Nat
      BY <3>2, <1>2 DEF Height, Link
    <3>5. CASE n = p
      <4>1. ~(n = hp /\ x = hs)
        BY <3>5, <1>5, <1>12
      <4>2. bh2[n] = bh[w]
        BY <3>5, <1>8, <1>9
      <4>3. Height(v.color, bh2, k) = bh[w]
        <5>1. CASE x = h
          BY <5>1, <3>1, <3>5, <1>2, <1>9, <1>10
        <5>2. CASE x = o
          BY <5>2, <3>1, <3>5, <1>30, <1>11
        <5> QED BY <5>1, <5>2, <1>3
      <4> QED BY <3>2, <3>5, <4>1, <4>2, <4>3, <1>9 DEF Fit
    <3>6. CASE n = w
      <4>1. ~(n = hp /\ x = hs) /\ ~(n = p /\ x = h)
        BY <3>6, <1>2, <1>5, <1>12
      <4>2. k # w /\ k # p
        <5>1. k # w
          BY <3>1, <3>6, <1>2, KidFacts
        <5>2. k # p
          BY <3>1, <3>6, <1>5
        <5> QED BY <5>1, <5>2
      <4>3. Dark(t.color, k)
        BY <3>1, <3>6, <1>3, <1>30
      <4>4. bh2[n] = bh[n]
        BY <3>6, <1>2, <1>8
      <4> QED BY <3>2, <3>3, <3>4, <4>1, <4>2, <4>3, <4>4, <1>10 DEF Fit
    <3>7. CASE n # p /\ n # w /\ k = p
      <4>1. n = hp /\ x = hs /\ bh2[n] = bh[n]
        BY <3>1, <3>2, <3>7, <1>5, <1>8, <1>12
      <4>2. bh[n] = Height(t.color, bh, p)
        BY <3>3, <3>4, <3>7 DEF Fit
      <4> QED BY <3>2, <3>7, <4>1, <4>2, <1>11 DEF Fit
    <3>8. CASE n # p /\ n # w /\ k # p
      <4>1. k # w
        BY <3>2, <3>8, <1>2
      <4>2. ~(n = hp /\ x = hs)
        BY <3>1, <3>2, <3>8, <1>5, <1>12
      <4>3. bh2[n] = bh[n] /\ v.color[n] = t.color[n]
        BY <3>2, <3>8, <1>6, <1>8
      <4>4. Height(v.color, bh2, k) = Height(t.color, bh, k) /\ (Dark(v.color, k) <=> Dark(t.color, k))
        BY <3>2, <3>8, <4>1, <1>10
      <4>5. t.color[n] = "RED" => Dark(t.color, k)
        BY <3>2, <3>3 DEF Fit, Dark
      <4>6. bh[n] = Height(t.color, bh, k)
        BY <3>3, <3>4, <3>8 DEF Fit
      <4> QED BY <3>2, <3>4, <4>2, <4>3, <4>4, <4>5, <4>6 DEF Fit
    <3> QED BY <3>5, <3>6, <3>7, <3>8
  <2> QED BY <2>1, <1>8 DEF Fits
<1>13. RootOk(v, p)
  <2>1. t.root \in Node /\ t.color[t.root] = "BLACK"
    BY <1>2 DEF Shape, Sub, Gap
  <2> QED BY <2>1, <1>2, <1>6 DEF RootOk, SameLinks
<1>14. Short(v, S, bh2, g, p)
  <2>1. CASE g = NULL
    <3>1. Fits(v, S, bh2, NULL, "left", p)
      BY <2>1, <1>12
    <3> QED BY <2>1, <3>1, <1>5, <1>6, <1>13 DEF Short, SameLinks
  <2>2. CASE g # NULL
    <3>1. Fits(v, S, bh2, g, sg, p)
      BY <1>12
    <3>2. Lacks(v, S, bh2, g, sg, p)
      BY <2>2, <3>1, <1>5, <1>6 DEF Lacks, SameLinks
    <3> QED BY <2>2, <3>2, <1>5, <1>13 DEF Short
  <2> QED BY <2>1, <2>2
<1> QED BY <1>2, <1>4, <1>6, <1>14

\* After RedSibling the sibling is black.
LEMMA RedSiblingGap ==
  ASSUME NEW t, NEW key_, NEW S, NEW sub, Shape(t, key_, S, sub), NEW bh, NEW p, NEW h, NEW c,
         Gap(t, S, bh, p, h, c), NEW u, u = RedSibling(t, h, p)
  PROVE  /\ \E sub2 : Shape(u, key_, S, sub2)
         /\ Gap(u, S, bh, p, h, c)
         /\ u.color[u.kid[Opposite(h)][p]] = "BLACK"
         /\ u = t \/ u.color[p] = "RED"
<1>1. PICK w : w = t.kid[Opposite(h)][p]
  OBVIOUS
<1>2. CASE t.color[w] = "RED"
  <2>1. u = Rotate(SetBlackRed(t, w, p), h, p)
    BY <1>1, <1>2 DEF RedSibling
  <2> QED BY <2>1, <1>1, <1>2, RedSiblingRotates
<1>3. CASE t.color[w] # "RED"
  <2>1. u = t
    BY <1>1, <1>3 DEF RedSibling
  <2>2. w \in Node /\ t \in Tree
    BY <1>1, GapFacts
  <2>3. t.color[w] = "BLACK"
    BY <2>2, <1>3 DEF Tree, Color
  <2> QED BY <2>1, <2>3, <1>1
<1> QED BY <1>2, <1>3

\* Once the missing black node is found, the loop ends at the root.
LEMMA WellShort ==
  ASSUME NEW u \in Tree, NEW key_, NEW S, Well(u, key_, S)
  PROVE  \E sub, bh : Shape(u, key_, S, sub) /\ Short(u, S, bh, NULL, u.root)
<1>1. PICK sub, bh : Shape(u, key_, S, sub) /\ Fits(u, S, bh, NULL, "left", NULL)
  BY DEF Well
<1>2. Fits(u, S, bh, NULL, "left", u.root)
  <2>1. ASSUME NEW n \in S, NEW x \in Side PROVE Fit(u.color, bh, n, x, u.kid[x][n], NULL, "left", u.root)
    <3>1. Fit(u.color, bh, n, x, u.kid[x][n], NULL, "left", NULL)
      BY <1>1 DEF Fits
    <3>2. n # NULL
      BY <1>1, RBAssumption DEF Shape
    <3> QED BY <3>1, <3>2 DEF Fit, Dark
  <2> QED BY <2>1, <1>1 DEF Fits
<1>3. Short(u, S, bh, NULL, u.root)
  BY <1>2 DEF Short, RootOk
<1> QED BY <1>1, <1>3

\* The missing black node is taken from the sibling's side.
LEMMA NephewRotates ==
  ASSUME NEW t, NEW key_, NEW S, NEW sub, Shape(t, key_, S, sub), NEW bh, NEW p, NEW h, NEW c,
         Gap(t, S, bh, p, h, c), NEW w, NEW near, NEW far, Nephews(t, h, p, w, near, far),
         t.color[w] = "BLACK", ~(Dark(t.color, near) /\ Dark(t.color, far)),
         NEW u, u = FarChild(NearChild(t, h, w), h, p)
  PROVE  Well(u, key_, S) /\ u \in Tree
<1>1. CASE ~Dark(t.color, far)
  <2>1. NearChild(t, h, w) = t
    BY <1>1 DEF NearChild, Nephews, IsBlack, Dark
  <2>2. u = FarChild(t, h, p)
    BY <2>1
  <2> QED BY <2>2, <1>1, FarChildRotates
<1>2. CASE Dark(t.color, far)
  <2>1. ~Dark(t.color, near)
    BY <1>2
  <2>2. PICK v : v = Rotate(SetBlackRed(t, near, w), Opposite(h), w)
    OBVIOUS
  <2>3. NearChild(t, h, w) = v
    BY <1>2, <2>2, ZenonT(30) DEF NearChild, Nephews, IsBlack, Dark
  <2>4. u = FarChild(v, h, p)
    BY <2>3
  <2>5. /\ \E sub2 : Shape(v, key_, S, sub2)
        /\ Gap(v, S, bh, p, h, c)
        /\ v.kid[Opposite(h)][p] = near /\ v.color[near] = "BLACK"
        /\ v.kid[Opposite(h)][near] = w /\ v.color[w] = "RED"
    BY <1>2, <2>1, <2>2, NearChildRotates
  <2>6. PICK sub2 : Shape(v, key_, S, sub2)
    BY <2>5
  <2>7. Nephews(v, h, p, near, v.kid[h][near], w)
    BY <2>5 DEF Nephews
  <2>8. w # NULL
    <3>1. w = t.kid[Opposite(h)][p]
      BY DEF Nephews
    <3> QED BY <3>1, GapFacts
  <2>9. ~Dark(v.color, w)
    BY <2>5, <2>8 DEF Dark
  <2> QED BY <2>4, <2>5, <2>6, <2>7, <2>9, FarChildRotates
<1> QED BY <1>1, <1>2

\* What every state of the loop is like.
OnTheWay(key_, S, y) ==
  /\ y \in [t : Tree, parent : Link, elm : Link]
  /\ \E sub, bh : Shape(y.t, key_, S, sub) /\ Short(y.t, S, bh, y.parent, y.elm)

\* Below a black sibling.
LEMMA BlackSiblingRound ==
  ASSUME NEW t, NEW key_, NEW S, NEW sub, Shape(t, key_, S, sub), NEW bh, NEW p, NEW h, NEW c,
         Gap(t, S, bh, p, h, c), t.color[t.kid[Opposite(h)][p]] = "BLACK", NEW y, y = BlackSibling(t, h, p)
  PROVE  /\ OnTheWay(key_, S, y)
         /\ \/ Filled(y.t, y.elm)
            \/ SameLinks(t, y.t) /\ y.elm = p /\ y.parent = t.parent[p] /\ y.t.color[p] = t.color[p]
<1>1. PICK w, near, far : Nephews(t, h, p, w, near, far)
  BY DEF Nephews
<1>2. t.color[w] = "BLACK"
  BY <1>1 DEF Nephews
<1>3. /\ w = t.kid[Opposite(h)][p] /\ h \in Side /\ p \in S /\ p \in Node /\ t \in Tree
      /\ (\A side \in Side : IsBlack(t, t.kid[side][w])) <=> Dark(t.color, near) /\ Dark(t.color, far)
  <2>1. w = t.kid[Opposite(h)][p] /\ near = t.kid[h][w] /\ far = t.kid[Opposite(h)][w]
    BY <1>1 DEF Nephews
  <2>2. h \in Side /\ p \in S /\ p \in Node /\ t \in Tree
    BY GapFacts
  <2>3. \A side \in Side : IsBlack(t, t.kid[side][w]) <=> Dark(t.color, t.kid[side][w])
    BY DEF IsBlack, Dark
  <2>4. Opposite(h) \in Side /\ \A side \in Side : side = h \/ side = Opposite(h)
    BY <2>2, Sides
  <2> QED BY <2>1, <2>2, <2>3, <2>4
<1>4. CASE Dark(t.color, near) /\ Dark(t.color, far)
  <2>1. PICK v : v = Paint(t, w, "RED")
    OBVIOUS
  <2>2. y = [t |-> v, parent |-> t.parent[p], elm |-> p]
    BY <1>3, <1>4, <2>1 DEF BlackSibling
  <2>3. SameLinks(t, v) /\ v.color[p] = t.color[p] /\ \E bh2 : Short(v, S, bh2, t.parent[p], p)
    BY <1>1, <1>2, <1>4, <2>1, SiblingReddens
  <2>4. Shape(v, key_, S, sub)
    BY <2>3, ShapeRecolored
  <2>5. t.parent[p] \in Link /\ p \in Link /\ v \in Tree
    BY <1>3, <2>3, UpFacts DEF Link, SameLinks
  <2>6. y.t = v /\ y.parent = t.parent[p] /\ y.elm = p /\ y \in [t : Tree, parent : Link, elm : Link]
    BY <2>2, <2>5
  <2> QED BY <2>3, <2>4, <2>6 DEF OnTheWay
<1>5. CASE ~(Dark(t.color, near) /\ Dark(t.color, far))
  <2>1. PICK u : u = FarChild(NearChild(t, h, w), h, p)
    OBVIOUS
  <2>2. y = [t |-> u, parent |-> NULL, elm |-> u.root]
    BY <1>3, <1>5, <2>1 DEF BlackSibling, AtRoot
  <2>3. Well(u, key_, S) /\ u \in Tree
    BY <1>1, <1>2, <1>5, <2>1, NephewRotates
  <2>4. \E sub2, bh2 : Shape(u, key_, S, sub2) /\ Short(u, S, bh2, NULL, u.root)
    BY <2>3, WellShort
  <2>5. u.root \in Link
    BY <2>3 DEF Tree, Link
  <2>6. y.t = u /\ y.parent = NULL /\ y.elm = u.root /\ y \in [t : Tree, parent : Link, elm : Link]
    BY <2>2, <2>3, <2>5 DEF Link
  <2> QED BY <2>4, <2>6 DEF Filled, OnTheWay
<1> QED BY <1>4, <1>5

\* One round of RB_REMOVE_COLOR ends the loop or leads one level up.
LEMMA RemoveColorRound ==
  ASSUME NEW t, NEW key_, NEW S, NEW sub, Shape(t, key_, S, sub), NEW bh, NEW p, NEW c,
         Short(t, S, bh, p, c), ~Filled(t, c),
         NEW y, y = RemoveColorStep([t |-> t, parent |-> p, elm |-> c])
  PROVE  /\ OnTheWay(key_, S, y)
         /\ p \in S
         /\ \/ Filled(y.t, y.elm)
            \/ SameLinks(t, y.t) /\ y.parent \in S /\ Cardinality(sub[y.parent]) > Cardinality(sub[p])
<1>1. PICK h \in Side : Gap(t, S, bh, p, h, c)
  BY ShortGap
<1>2. p \in S /\ p \in Node /\ p # NULL /\ SideOf(t, p, c) = h
  BY <1>1, GapFacts
<1>3. PICK u : u = RedSibling(t, h, p)
  OBVIOUS
<1>4. y = BlackSibling(u, h, p)
  <2>1. IsBlack(t, c) /\ c # t.root
    BY DEF Filled, Dark, IsBlack
  <2> QED BY <2>1, <1>2, <1>3 DEF RemoveColorStep
<1>5. /\ \E sub2 : Shape(u, key_, S, sub2)
      /\ Gap(u, S, bh, p, h, c)
      /\ u.color[u.kid[Opposite(h)][p]] = "BLACK"
      /\ u = t \/ u.color[p] = "RED"
  BY <1>1, <1>3, RedSiblingGap
<1>6. PICK sub2 : Shape(u, key_, S, sub2)
  BY <1>5
<1>7. /\ OnTheWay(key_, S, y)
      /\ \/ Filled(y.t, y.elm)
         \/ SameLinks(u, y.t) /\ y.elm = p /\ y.parent = u.parent[p] /\ y.t.color[p] = u.color[p]
  BY <1>4, <1>5, <1>6, BlackSiblingRound
<1>8. ASSUME ~Filled(y.t, y.elm)
      PROVE  SameLinks(t, y.t) /\ y.parent \in S /\ Cardinality(sub[y.parent]) > Cardinality(sub[p])
  <2>1. SameLinks(u, y.t) /\ y.elm = p /\ y.parent = u.parent[p] /\ y.t.color[p] = u.color[p]
    BY <1>7, <1>8
  <2>2. u.color[p] # "RED"
    BY <2>1, <1>2, <1>8 DEF Filled, Dark
  <2>3. u = t
    BY <2>2, <1>5
  <2>4. p # t.root
    BY <2>1, <2>3, <1>8 DEF Filled, SameLinks
  <2>5. t.parent[p] \in S /\ Cardinality(sub[p]) < Cardinality(sub[t.parent[p]])
    BY <2>4, <1>2, UpFacts
  <2> QED BY <2>1, <2>3, <2>5
<1> QED BY <1>2, <1>7, <1>8

LEMMA RemoveColorRests ==
  ASSUME NEW t, NEW p, NEW c, Filled(t, c)
  PROVE  RemoveColorStep([t |-> t, parent |-> p, elm |-> c]) = [t |-> t, parent |-> p, elm |-> c]
<1>1. ~IsBlack(t, c) \/ c = t.root
  BY DEF Filled, Dark, IsBlack
<1> QED BY <1>1 DEF RemoveColorStep

\* RB_REMOVE_COLOR repairs the tree.
LEMMA RemoveColorSound ==
  ASSUME NEW t, NEW key_, NEW S, NEW sub, Shape(t, key_, S, sub), NEW bh, NEW p \in Link, NEW c \in Link,
         Short(t, S, bh, p, c), Node # {}
  PROVE  Sound(RB_REMOVE_COLOR(t, p, c), key_, S)
<1> DEFINE N == Cardinality(Node)
           step(x) == RemoveColorStep(x)
           a == [t |-> t, parent |-> p, elm |-> c]
           it == CHOOSE it : it = [i \in 0..N |-> IF i = 0 THEN a ELSE step(it[i - 1])]
           Fin(x) == Filled(x.t, x.elm)
           Mid(x) == SameLinks(t, x.t) /\ x.parent \in S
           X == {x \in [t : Tree, parent : Link, elm : Link] : OnTheWay(key_, S, x) /\ (Fin(x) \/ Mid(x))}
           g == [x \in X |-> step(x)]
           D == {x \in X : Fin(x)}
           size(x) == Cardinality(sub[x.parent])
           m == [x \in X |-> IF Fin(x) THEN N ELSE size(x)]
<1>1. N \in Nat /\ N > 0
  BY Sizes
<1>2. RB_REMOVE_COLOR(t, p, c) = IF it[N].elm = NULL THEN it[N].t ELSE Paint(it[N].t, it[N].elm, "BLACK")
  BY DEF RB_REMOVE_COLOR, Loop
<1>3. S \subseteq Node /\ t \in Tree /\ sub \in [Node -> SUBSET Node]
  BY DEF Shape
<1>4. a \in X
  <2>1. SameLinks(t, t)
    BY <1>3 DEF SameLinks
  <2>2. OnTheWay(key_, S, a)
    BY <1>3 DEF OnTheWay
  <2>3. ~Filled(t, c) => p \in S
    BY ShortGap DEF Gap
  <2> QED BY <2>1, <2>2, <2>3, <1>3
<1>5. ASSUME NEW x \in X
      PROVE  /\ step(x) \in X
             /\ Fin(x) => step(x) = x
             /\ ~Fin(x) => Fin(step(x)) \/ size(step(x)) > size(x)
  <2>1. x = [t |-> x.t, parent |-> x.parent, elm |-> x.elm] /\ x.t \in Tree
    OBVIOUS
  <2>2. CASE Fin(x)
    <3>1. step(x) = x
      BY <2>1, <2>2, RemoveColorRests
    <3> QED BY <3>1, <2>2
  <2>3. CASE ~Fin(x)
    <3>1. SameLinks(t, x.t) /\ x.parent \in S
      BY <2>3
    <3>2. PICK bh2 : Short(x.t, S, bh2, x.parent, x.elm)
      BY DEF OnTheWay
    <3>3. Shape(x.t, key_, S, sub)
      BY <3>1, ShapeRecolored
    <3>4. PICK y : y = step(x)
      OBVIOUS
    <3>5. /\ OnTheWay(key_, S, y)
          /\ \/ Filled(y.t, y.elm)
             \/ SameLinks(x.t, y.t) /\ y.parent \in S /\ Cardinality(sub[y.parent]) > Cardinality(sub[x.parent])
      BY <2>1, <2>3, <3>2, <3>3, <3>4, RemoveColorRound
    <3>6. SameLinks(x.t, y.t) => SameLinks(t, y.t)
      BY <3>1 DEF SameLinks
    <3>7. y \in [t : Tree, parent : Link, elm : Link]
      BY <3>5 DEF OnTheWay
    <3> QED BY <2>3, <3>4, <3>5, <3>6, <3>7
  <2> QED BY <2>2, <2>3
<1>6. \A x \in X : ~Fin(x) => size(x) \in Nat /\ size(x) <= N /\ size(x) > 0
  <2> SUFFICES ASSUME NEW x \in X, ~Fin(x) PROVE size(x) \in Nat /\ size(x) <= N /\ size(x) > 0
    OBVIOUS
  <2>1. x.parent \in S
    OBVIOUS
  <2>2. sub[x.parent] \in SUBSET Node /\ x.parent \in sub[x.parent]
    BY <2>1, <1>3, Sides, KidFacts
  <2> QED BY <2>2, Sizes
<1> HIDE DEF step, N, size, Fin, Mid
<1>7. Progress(X, D, N, g, m)
  <2>1. \A x \in X : g[x] = step(x) /\ m[x] = IF Fin(x) THEN N ELSE size(x)
    OBVIOUS
  <2>2. \A x \in X : x \in D <=> Fin(x)
    OBVIOUS
  <2>3. g \in [X -> X]
    BY <1>5
  <2>4. m \in [X -> Nat]
    BY <1>1, <1>6
  <2> HIDE DEF X, D, g, m
  <2>5. \A x \in X : m[x] <= N
    BY <1>1, <1>6, <2>1
  <2>6. ASSUME NEW x \in X, x \notin D PROVE g[x] \in D \/ m[g[x]] > m[x]
    <3>1. ~Fin(x) /\ g[x] = step(x) /\ step(x) \in X
      BY <2>6, <2>1, <2>2, <1>5
    <3>2. CASE Fin(step(x))
      BY <3>1, <3>2, <2>2
    <3>3. CASE ~Fin(step(x))
      BY <3>1, <3>3, <2>1, <1>5
    <3> QED BY <3>2, <3>3
  <2>7. \A x \in X : x \in D => g[x] \in D
    BY <2>1, <2>2, <1>5
  <2> QED BY <2>3, <2>4, <2>5, <2>6, <2>7 DEF Progress
<1>8. m[a] > 0
  <2>1. m[a] = IF Fin(a) THEN N ELSE size(a)
    BY <1>4
  <2> HIDE DEF m, X, a
  <2> QED BY <2>1, <1>1, <1>4, <1>6
<1> HIDE DEF a, X, D, g, m
<1>10. PICK f : f \in [0..N -> X] /\ f[0] = a /\ Rounds(f, X, N, g)
  BY <1>1, <1>4, <1>7, Repeats DEF Progress
<1>11. f = [i \in 0..N |-> IF i = 0 THEN a ELSE step(f[i - 1])]
  <2>1. ASSUME NEW i \in 0..N, i # 0 PROVE f[i] = step(f[i - 1])
    <3>1. i \in 1..N /\ i - 1 \in 0..N
      BY <1>1, <2>1
    <3>2. f[i - 1] \in X /\ f[i] = g[f[i - 1]]
      BY <1>10, <3>1 DEF Rounds
    <3> QED BY <3>2 DEF g
  <2>2. \A i \in 0..N : f[i] = IF i = 0 THEN a ELSE step(f[i - 1])
    BY <1>10, <2>1
  <2> QED BY <1>10, <2>2
<1>12. it = [i \in 0..N |-> IF i = 0 THEN a ELSE step(it[i - 1])]
  BY <1>11
<1> HIDE DEF it
<1>13. it[0] = a /\ \A i \in 1..N : it[i] = step(it[i - 1])
  BY <1>1, <1>12
<1>14. Rounds(it, X, N, g)
  BY <1>13 DEF g, Rounds
<1>15. it[N] \in X /\ it[N] \in D
  BY <1>1, <1>4, <1>7, <1>8, <1>13, <1>14, Settles
<1>16. PICK z : z = it[N]
  OBVIOUS
<1>17. OnTheWay(key_, S, z) /\ Filled(z.t, z.elm)
  BY <1>15, <1>16 DEF X, D, Fin
<1>18. Sound(IF z.elm = NULL THEN z.t ELSE Paint(z.t, z.elm, "BLACK"), key_, S)
  BY <1>17, FilledSound DEF OnTheWay
<1> QED BY <1>2, <1>16, <1>18

-----------------------------------------------------------------------------
(* RB_REMOVE *)

\* A node with at most one child is gone: all is well if it was red.
LEMMA CutSound ==
  ASSUME NEW t, NEW key_, NEW S, NEW sub, Shape(t, key_, S, sub), NEW bh, Fits(t, S, bh, NULL, "left", NULL),
         IsBlack(t, t.root), NEW elm, NEW c, NEW p, NEW sp, Outer(t, S, elm, c, p, sp), NEW u, Cut(t, u, c, p, sp)
  PROVE  /\ t.color[elm] = "RED" => Sound(u, key_, S \ {elm})
         /\ t.color[elm] = "BLACK" => Short(u, S \ {elm}, bh, p, c)
<1>1. /\ S \subseteq Node /\ t \in Tree /\ elm \in S /\ elm \in Node /\ elm # NULL /\ c \in Link /\ p \in Link
      /\ p = NULL <=> elm = t.root
      /\ p # NULL => p \in S /\ p # elm /\ sp \in Side
  BY OuterFacts
<1>2. Shape(u, key_, S \ {elm}, [m \in Node |-> sub[m] \ {elm}])
  BY ShapeCut
<1>3. /\ t.color[elm] = "RED" => Fits(u, S \ {elm}, bh, NULL, "left", NULL)
      /\ t.color[elm] = "BLACK" => Fits(u, S \ {elm}, bh, p, sp, c)
  BY FitsCut
<1>4. t.root # NULL /\ t.color[t.root] = "BLACK"
  BY <1>1 DEF Shape, Sub, IsBlack
<1>5. /\ u.color = t.color /\ (p = NULL => u.root = c)
      /\ p # NULL => u.root = t.root /\ u.kid[sp][p] = c
  BY DEF Cut
<1>6. ASSUME t.color[elm] = "RED" PROVE Sound(u, key_, S \ {elm})
  <2>1. p # NULL
    BY <1>1, <1>4, <1>6
  <2>2. IsBlack(u, u.root)
    BY <2>1, <1>4, <1>5 DEF IsBlack
  <2> QED BY <2>2, <1>2, <1>3, <1>6 DEF Sound, Well
<1>7. ASSUME t.color[elm] = "BLACK" PROVE Short(u, S \ {elm}, bh, p, c)
  <2>1. RootOk(u, c)
    BY <1>4, <1>5 DEF RootOk
  <2>2. CASE p = NULL
    <3>1. Fits(u, S \ {elm}, bh, NULL, sp, c)
      BY <2>2, <1>3, <1>7
    <3>2. Fits(u, S \ {elm}, bh, NULL, "left", c)
      <4>1. \A n \in S : n # NULL
        BY <1>1, RBAssumption
      <4> QED BY <3>1, <4>1 DEF Fits, Fit
    <3> QED BY <2>1, <2>2, <3>2, <1>5 DEF Short
  <2>3. CASE p # NULL
    <3>1. Lacks(u, S \ {elm}, bh, p, sp, c)
      BY <2>3, <1>1, <1>3, <1>5, <1>7 DEF Lacks
    <3> QED BY <2>1, <2>3, <3>1, <1>1 DEF Short
  <2> QED BY <2>2, <2>3
<1> QED BY <1>6, <1>7

LEMMA RemoveOuterSound ==
  ASSUME NEW t, NEW key_, NEW S, Sound(t, key_, S), NEW elm \in S,
         t.kid.left[elm] = NULL \/ t.kid.right[elm] = NULL
  PROVE  Sound(RemoveOuter(t, elm), key_, S \ {elm})
<1>1. PICK sub, bh : Shape(t, key_, S, sub) /\ Fits(t, S, bh, NULL, "left", NULL)
  BY DEF Sound, Well
<1>2. IsBlack(t, t.root) /\ t \in Tree /\ elm \in Node /\ S \subseteq Node /\ Node # {}
  BY <1>1 DEF Sound, Shape
<1>3. PICK c : c = IF t.kid.left[elm] = NULL THEN t.kid.right[elm] ELSE t.kid.left[elm]
  OBVIOUS
<1>4. PICK p : p = t.parent[elm]
  OBVIOUS
<1>5. PICK sp : sp = SideOf(t, p, elm)
  OBVIOUS
<1>6. \E s \in Side : c = t.kid[s][elm] /\ t.kid[Opposite(s)][elm] = NULL
  <2>1. Opposite("left") = "right" /\ Opposite("right") = "left"
    BY DEF Opposite
  <2>2. CASE t.kid["left"][elm] = NULL
    BY <2>1, <2>2, <1>3, Sides
  <2>3. CASE t.kid["left"][elm] # NULL
    BY <2>1, <2>3, <1>3, Sides
  <2> QED BY <2>2, <2>3
<1>7. Outer(t, S, elm, c, p, sp)
  BY <1>4, <1>5, <1>6 DEF Outer
<1>8. c \in Link /\ p \in Link
  BY <1>1, <1>7, OuterFacts
<1>9. PICK u : u = Relink(SetParent(t, c, p), p, elm, c)
  OBVIOUS
<1>10. Cut(t, u, c, p, sp)
  BY <1>2, <1>5, <1>8, <1>9, CutFacts
<1>11. /\ t.color[elm] = "RED" => Sound(u, key_, S \ {elm})
       /\ t.color[elm] = "BLACK" => Short(u, S \ {elm}, bh, p, c)
  BY <1>1, <1>2, <1>7, <1>10, CutSound
<1>12. RemoveOuter(t, elm) = IF t.color[elm] = "BLACK" THEN RB_REMOVE_COLOR(u, p, c) ELSE u
  BY <1>3, <1>4, <1>9 DEF RemoveOuter
<1>13. t.color[elm] \in Color
  BY <1>2 DEF Tree
<1>14. CASE t.color[elm] = "RED"
  BY <1>11, <1>12, <1>14
<1>15. CASE t.color[elm] = "BLACK"
  <2>1. Shape(u, key_, S \ {elm}, [m \in Node |-> sub[m] \ {elm}])
    BY <1>1, <1>7, <1>10, ShapeCut
  <2>2. Sound(RB_REMOVE_COLOR(u, p, c), key_, S \ {elm})
    BY <2>1, <1>2, <1>8, <1>11, <1>15, RemoveColorSound
  <2> QED BY <2>2, <1>12, <1>15
<1> QED BY <1>13, <1>14, <1>15 DEF Color

\* The successor elm of a node old with two children: no left child, and a key
\* that compares like that of old with all others.
LEMMA SuccessorFacts ==
  ASSUME NEW t, NEW key_, NEW S, NEW sub, Shape(t, key_, S, sub), NEW old \in S,
         t.kid["right"][old] # NULL, NEW elm, elm = Successor(t, old)
  PROVE  /\ elm \in S /\ elm # old /\ elm # t.root /\ t.kid["left"][elm] = NULL /\ t.kid["right"][elm] # old
         /\ \A m \in S : m # old /\ m # elm => key_[m] # key_[elm] /\ (key_[m] < key_[old] <=> key_[m] < key_[elm])
<1>1. PICK R : R = t.kid["right"][old]
  OBVIOUS
<1>2. R \in S /\ old \notin sub[R] /\ sub[R] \subseteq sub[old]
  <2>1. old \notin Sub(sub, R) /\ R \in S /\ Sub(sub, R) \subseteq sub[old] /\ R # NULL
    BY <1>1, Sides, KidFacts
  <2> QED BY <2>1 DEF Sub
<1>3. PICK e : e = elm
  OBVIOUS
<1>4. e = Leftmost(t, R)
  BY <1>1, <1>3 DEF Successor
<1>5. /\ e \in S /\ e \in sub[R] /\ t.kid["left"][e] = NULL
      /\ \A m \in sub[R] : m # e => key_[e] < key_[m]
  BY <1>2, <1>4, LeftmostFacts
<1>6. sub[e] \subseteq sub[R] /\ old \in sub[old] /\ S \subseteq Node /\ key_ \in [Node -> Nat] /\ sub[old] \subseteq S
  BY <1>2, <1>5, SubsNested, Sides, KidFacts DEF Shape
<1>7. e # old /\ e # t.root
  <2>1. e = t.root => sub[e] = S
    <3>1. e # NULL
      BY <1>5, <1>6, RBAssumption
    <3> QED BY <3>1 DEF Shape, Sub
  <2> QED BY <2>1, <1>2, <1>5, <1>6
<1>8. t.kid["right"][e] # old
  <2>1. old # NULL
    BY <1>6, RBAssumption
  <2>2. PICK k : k = t.kid["right"][e]
    OBVIOUS
  <2>3. k # NULL => k \in sub[k] /\ sub[k] \subseteq sub[e]
    BY <2>2, <1>5, Sides, KidFacts, KidsSmaller
  <2> QED BY <2>1, <2>2, <2>3, <1>2, <1>6
<1>9. ASSUME NEW m \in S, m # old, m # e
      PROVE  key_[m] # key_[e] /\ (key_[m] < key_[old] <=> key_[m] < key_[e])
  <2>0. key_[m] \in Nat /\ key_[e] \in Nat /\ key_[old] \in Nat /\ m \in Node /\ e \in Node
    BY <1>5, <1>6
  <2>1. key_[old] < key_[e]
    <3>1. R # NULL /\ e \in Sub(sub, t.kid["right"][old])
      BY <1>1, <1>2, <1>5, <1>6, RBAssumption DEF Sub
    <3>2. Less("right", key_[e], key_[old])
      BY <3>1, <2>0, Sides DEF Shape, Sorted
    <3> QED BY <3>2, <2>0 DEF Less
  <2>2. key_[m] # key_[e]
    BY <1>5, <1>9, KeysDiffer
  <2>3. CASE m \in sub[R]
    <3>1. key_[e] < key_[m]
      BY <2>3, <1>5, <1>9
    <3> QED BY <3>1, <2>0, <2>1
  <2>4. CASE m \notin sub[old]
    <3>1. e \in sub[old]
      BY <1>2, <1>5
    <3>2. key_[old] # key_[m] /\ (key_[old] < key_[m] <=> key_[e] < key_[m])
      BY <3>1, <2>4, <1>6, Convex
    <3> QED BY <3>2, <2>0, <2>2
  <2>5. CASE m \in sub[old] /\ m \notin sub[R]
    <3>1. \E s \in Side : m \in Sub(sub, t.kid[s][old])
      BY <2>0, <2>5, <1>9 DEF Shape, Subtrees
    <3>2. m \in Sub(sub, t.kid["left"][old])
      BY <3>1, <2>5, <1>1 DEF Side, Sub
    <3>3. Less("left", key_[m], key_[old])
      BY <3>2, <2>0, Sides DEF Shape, Sorted
    <3> QED BY <3>3, <2>0, <2>1 DEF Less
  <2> QED BY <2>3, <2>4, <2>5
<1> QED BY <1>3, <1>5, <1>7, <1>8, <1>9

\* The successor elm, cut out below up, has taken the place of old.
LEMMA PlacedSound ==
  ASSUME NEW t, NEW key_, NEW S, NEW sub, Shape(t, key_, S, sub), NEW bh, Fits(t, S, bh, NULL, "left", NULL),
         IsBlack(t, t.root), NEW old \in S, NEW elm, elm # old, elm # t.root,
         NEW c, c # old, NEW up, NEW sp, Outer(t, S, elm, c, up, sp),
         \A m \in S : m # old /\ m # elm => key_[m] # key_[elm] /\ (key_[m] < key_[old] <=> key_[m] < key_[elm]),
         NEW t1, Cut(t, t1, c, up, sp), NEW u, Placed(t1, u, old, elm),
         NEW q, up = old => q = elm, up # old => q = up
  PROVE  /\ \E sub2 : Shape(u, key_, S \ {old}, sub2)
         /\ t.color[elm] = "RED" => Sound(u, key_, S \ {old})
         /\ t.color[elm] = "BLACK" => \E bh2 : Short(u, S \ {old}, bh2, q, c)
<1>1. /\ S \subseteq Node /\ t \in Tree /\ elm \in S /\ elm \in Node /\ elm # NULL /\ c \in Link /\ up \in Link
      /\ up # NULL /\ up \in S /\ up # elm /\ sp \in Side
      /\ c # NULL => c # elm
  BY OuterFacts
<1>2. PICK S1, sub1 : S1 = S \ {elm} /\ sub1 = [m \in Node |-> sub[m] \ {elm}]
  OBVIOUS
<1>3. Shape(t1, key_, S1, sub1)
  BY <1>2, ShapeCut
<1>4. /\ t.color[elm] = "RED" => Fits(t1, S1, bh, NULL, "left", NULL)
      /\ t.color[elm] = "BLACK" => Fits(t1, S1, bh, up, sp, c)
  BY <1>2, FitsCut
<1>5. old \in S1 /\ elm \in Node \ S1 /\ old # NULL
  BY <1>1, <1>2, RBAssumption
<1>6. PICK S2 : S2 = S \ {old}
  OBVIOUS
<1>7. (S1 \ {old}) \cup {elm} = S2
  BY <1>1, <1>2, <1>6
<1>8. \A m \in S1 : m # old => key_[m] # key_[elm] /\ (key_[m] < key_[old] <=> key_[m] < key_[elm])
  BY <1>2
<1>9. Shape(u, key_, (S1 \ {old}) \cup {elm}, PlacedSubs(sub1, old, elm))
  BY <1>3, <1>5, <1>8, ShapePlaced
<1>10. \E sub2 : Shape(u, key_, S2, sub2)
  BY <1>7, <1>9
<1>11. t.root # NULL /\ t.color[t.root] = "BLACK"
  BY <1>1 DEF Shape, Sub, IsBlack
<1>12. t1.color = t.color /\ t1.root = t.root /\ t1.kid[sp][up] = c
  BY <1>1 DEF Cut
<1>13. u.root # NULL /\ u.color[u.root] = "BLACK"
  <2>1. t.root \in Node
    BY <1>11, <1>1 DEF Shape
  <2>2. CASE t1.parent[old] = NULL
    <3>1. old = t1.root
      BY <2>2, <1>3, <1>5, UpFacts
    <3>2. u.root = elm /\ u.color[elm] = t1.color[old]
      BY <2>2 DEF Placed
    <3> QED BY <3>1, <3>2, <1>1, <1>11, <1>12
  <2>3. CASE t1.parent[old] # NULL
    <3>1. u.root = t1.root
      BY <2>3 DEF Placed
    <3>2. u.color[t.root] = t1.color[t.root]
      BY <2>1 DEF Placed
    <3> QED BY <3>1, <3>2, <1>11, <1>12
  <2> QED BY <2>2, <2>3
<1>14. ASSUME t.color[elm] = "RED" PROVE Sound(u, key_, S2)
  <2>1. Fits(t1, S1, bh, NULL, "left", NULL) /\ NULL # elm /\ NULL # old
    BY <1>1, <1>4, <1>5, <1>14
  <2>2. Fits(u, (S1 \ {old}) \cup {elm}, [bh EXCEPT ![elm] = bh[old]], NULL, "left", NULL)
    BY <2>1, <1>3, <1>5, FitsPlaced
  <2>3. IsBlack(u, u.root)
    BY <1>13 DEF IsBlack
  <2> QED BY <2>2, <2>3, <1>7, <1>10 DEF Sound, Well
<1>15. ASSUME t.color[elm] = "BLACK" PROVE \E bh2 : Short(u, S2, bh2, q, c)
  <2>1. Fits(t1, S1, bh, up, sp, c) /\ c # elm
    BY <1>1, <1>4, <1>15
  <2>2. PICK bh2 : bh2 = [bh EXCEPT ![elm] = bh[old]]
    OBVIOUS
  <2>3. Fits(u, (S1 \ {old}) \cup {elm}, bh2, q, sp, c)
    BY <2>1, <2>2, <1>1, <1>3, <1>5, FitsPlaced
  <2>4. Stands(q, up, old, elm) /\ up \in S1
    BY <1>1, <1>2 DEF Stands
  <2>5. u.kid[sp][q] = c
    BY <2>4, <1>1, <1>3, <1>5, <1>12, PlacedLinks
  <2>6. q \in S2
    BY <1>1, <1>5, <1>6
  <2>7. Lacks(u, S2, bh2, q, sp, c)
    BY <2>3, <2>5, <2>6, <1>1, <1>7 DEF Lacks
  <2>8. RootOk(u, c)
    BY <1>13 DEF RootOk
  <2> QED BY <2>7, <2>8, <1>1 DEF Short
<1> QED BY <1>6, <1>10, <1>14, <1>15

LEMMA RemoveInnerSound ==
  ASSUME NEW t, NEW key_, NEW S, Sound(t, key_, S), NEW old \in S, t.kid.right[old] # NULL
  PROVE  Sound(RemoveInner(t, old), key_, S \ {old})
<1>1. PICK sub, bh : Shape(t, key_, S, sub) /\ Fits(t, S, bh, NULL, "left", NULL)
  BY DEF Sound, Well
<1>2. IsBlack(t, t.root) /\ t \in Tree /\ old \in Node /\ S \subseteq Node /\ Node # {}
  BY <1>1 DEF Sound, Shape
<1>3. PICK elm : elm = Successor(t, old)
  OBVIOUS
<1>4. /\ elm \in S /\ elm # old /\ elm # t.root /\ t.kid["left"][elm] = NULL /\ t.kid["right"][elm] # old
      /\ \A m \in S : m # old /\ m # elm => key_[m] # key_[elm] /\ (key_[m] < key_[old] <=> key_[m] < key_[elm])
  BY <1>1, <1>3, SuccessorFacts
<1>5. PICK c : c = t.kid["right"][elm]
  OBVIOUS
<1>6. PICK up : up = t.parent[elm]
  OBVIOUS
<1>7. PICK sp : sp = SideOf(t, up, elm)
  OBVIOUS
<1>8. Outer(t, S, elm, c, up, sp)
  <2>1. Opposite("right") = "left"
    BY DEF Opposite
  <2> QED BY <2>1, <1>4, <1>5, <1>6, <1>7, Sides DEF Outer
<1>9. c \in Link /\ up \in Link /\ elm \in Node
  BY <1>1, <1>8, OuterFacts
<1>10. PICK t1 : t1 = Relink(SetParent(t, c, up), up, elm, c)
  OBVIOUS
<1>11. Cut(t, t1, c, up, sp)
  BY <1>2, <1>7, <1>9, <1>10, CutFacts
<1>12. PICK u : u = Place(t1, old, elm)
  OBVIOUS
<1>13. Placed(t1, u, old, elm)
  <2>1. Shape(t1, key_, S \ {elm}, [m \in Node |-> sub[m] \ {elm}])
    BY <1>1, <1>8, <1>11, ShapeCut
  <2>2. old \in S \ {elm} /\ elm \in Node \ (S \ {elm})
    BY <1>4, <1>9
  <2>3. Placed(t1, Place(t1, old, elm), old, elm)
    BY <2>1, <2>2, PlaceFacts
  <2> QED BY <2>3, <1>12
<1>14. PICK q : q = IF up = old THEN elm ELSE up
  OBVIOUS
<1>15. (up = old => q = elm) /\ (up # old => q = up) /\ c # old
  BY <1>4, <1>5, <1>14
<1>16. /\ \E sub2 : Shape(u, key_, S \ {old}, sub2)
       /\ t.color[elm] = "RED" => Sound(u, key_, S \ {old})
       /\ t.color[elm] = "BLACK" => \E bh2 : Short(u, S \ {old}, bh2, q, c)
  BY <1>1, <1>2, <1>4, <1>8, <1>11, <1>13, <1>15, PlacedSound
<1>17. RemoveInner(t, old) = IF t.color[elm] = "BLACK" THEN RB_REMOVE_COLOR(u, q, c) ELSE u
  <2>1. RemoveInner(t, old) =
          LET e == Successor(t, old)
              child == t.kid["right"][e]
              t1_ == Relink(SetParent(t, child, t.parent[e]), t.parent[e], e, child)
          IN  IF t.color[e] = "BLACK"
              THEN RB_REMOVE_COLOR(Place(t1_, old, e), IF t.parent[e] = old THEN e ELSE t.parent[e], child)
              ELSE Place(t1_, old, e)
    BY Zenon DEF RemoveInner, Place
  <2> QED BY <2>1, <1>3, <1>5, <1>6, <1>10, <1>12, <1>14
<1>18. t.color[elm] \in Color
  BY <1>2, <1>9 DEF Tree
<1>19. CASE t.color[elm] = "RED"
  BY <1>16, <1>17, <1>19
<1>20. CASE t.color[elm] = "BLACK"
  <2>1. PICK sub2, bh2 : Shape(u, key_, S \ {old}, sub2) /\ Short(u, S \ {old}, bh2, q, c)
    BY <1>16, <1>20
  <2>2. q \in Link
    BY <1>9, <1>14 DEF Link
  <2>3. Sound(RB_REMOVE_COLOR(u, q, c), key_, S \ {old})
    BY <2>1, <2>2, <1>2, <1>9, RemoveColorSound
  <2> QED BY <2>3, <1>17, <1>20
<1> QED BY <1>18, <1>19, <1>20 DEF Color

\* RB_REMOVE keeps a sound tree.
LEMMA RemoveSound ==
  ASSUME NEW t, NEW key_, NEW S, Sound(t, key_, S), NEW elm \in S
  PROVE  Sound(RB_REMOVE(t, elm), key_, S \ {elm})
<1>1. CASE t.kid.left[elm] = NULL \/ t.kid.right[elm] = NULL
  <2>1. Sound(RemoveOuter(t, elm), key_, S \ {elm})
    BY <1>1, RemoveOuterSound
  <2> QED BY <1>1, <2>1 DEF RB_REMOVE
<1>2. CASE ~(t.kid.left[elm] = NULL \/ t.kid.right[elm] = NULL)
  <2>1. Sound(RemoveInner(t, elm), key_, S \ {elm})
    BY <1>2, RemoveInnerSound
  <2> QED BY <1>2, <2>1 DEF RB_REMOVE
<1> QED BY <1>1, <1>2

-----------------------------------------------------------------------------
(* The steps of the scheduler *)

\* What Linked and Below compute.
LEMMA LinkedIsShape ==
  ASSUME NEW t, NEW key_, NEW S, NEW sub, Shape(t, key_, S, sub)
  PROVE  /\ Linked(t) = S
         /\ \A n \in S : Below(t, n) = sub[n]
         /\ \A n \in S, s \in Side : Below(t, t.kid[s][n]) = Sub(sub, t.kid[s][n])
<1>1. Linked(t) = S
  <2>1. t.root \in S \cup {NULL} /\ Sub(sub, t.root) = S
    BY DEF Shape
  <2>2. Below(t, t.root) = Sub(sub, t.root)
    BY <2>1, BelowIsSub
  <2> QED BY <2>1, <2>2 DEF Linked
<1>2. ASSUME NEW n \in S PROVE Below(t, n) = sub[n]
  <2>1. Below(t, n) = Sub(sub, n)
    BY BelowIsSub
  <2>2. n # NULL
    BY RBAssumption DEF Shape
  <2> QED BY <2>1, <2>2 DEF Sub
<1>3. ASSUME NEW n \in S, NEW s \in Side PROVE Below(t, t.kid[s][n]) = Sub(sub, t.kid[s][n])
  <2>1. t.kid[s][n] \in S \cup {NULL}
    BY KidFacts
  <2> QED BY <2>1, BelowIsSub
<1> QED BY <1>1, <1>2, <1>3

LEMMA SoundLinked ==
  ASSUME NEW t, NEW key_, NEW S, Sound(t, key_, S)
  PROVE  /\ Linked(t) = S /\ S \subseteq Node /\ t \in Tree /\ key_ \in [Node -> Nat]
         /\ t.root \in S \cup {NULL} /\ (t.root = NULL => S = {})
<1>1. PICK sub : Shape(t, key_, S, sub)
  BY DEF Sound, Well
<1>2. Linked(t) = S
  BY <1>1, LinkedIsShape
<1> QED BY <1>1, <1>2 DEF Shape, Sub

LEMMA InitSound == Sound(RB_INIT, [n \in Node |-> 0], {})
<1>1. PICK sub : sub = [n \in Node |-> {}]
  OBVIOUS
<1>2. PICK bh : bh = [n \in Node |-> 0]
  OBVIOUS
<1>3. PICK t : t = RB_INIT
  OBVIOUS
<1>4. t \in Tree /\ t.root = NULL
  BY <1>3 DEF RB_INIT, Tree, Color
<1>5. sub \in [Node -> SUBSET Node] /\ bh \in [Node -> Nat]
  BY <1>1, <1>2
<1>6. Joints(t, {}) /\ Subtrees(t, {}, sub) /\ Sorted(t, bh, {}, sub) /\ Fits(t, {}, bh, NULL, "left", NULL)
  BY <1>5 DEF Joints, Subtrees, Sorted, Fits
<1>7. Shape(t, bh, {}, sub)
  BY <1>4, <1>5, <1>6 DEF Shape, Sub
<1>8. Sound(t, bh, {})
  BY <1>4, <1>6, <1>7 DEF Sound, Well, IsBlack
<1> QED BY <1>2, <1>3, <1>8

\* The key of another node does not matter, nor do its links.
LEMMA SoundRekeyed ==
  ASSUME NEW t, NEW key_, NEW S, Sound(t, key_, S), NEW key2 \in [Node -> Nat], \A n \in S : key2[n] = key_[n]
  PROVE  Sound(t, key2, S)
<1>1. PICK sub, bh : Shape(t, key_, S, sub) /\ Fits(t, S, bh, NULL, "left", NULL)
  BY DEF Sound, Well
<1>2. Shape(t, key2, S, sub)
  BY <1>1, ShapeRekeyed
<1> QED BY <1>1, <1>2 DEF Sound, Well

LEMMA UnlinkedFacts ==
  ASSUME NEW t \in Tree, NEW n \in Node, NEW u, u = Unlinked(t, n)
  PROVE  /\ u \in Tree /\ u.root = t.root
         /\ \A m \in Node : m # n => u.parent[m] = t.parent[m] /\ u.color[m] = t.color[m]
         /\ \A s \in Side, m \in Node : m # n => u.kid[s][m] = t.kid[s][m]
<1>1. NULL \in Link
  BY DEF Link
<1>2. PICK v : v = [t EXCEPT !.parent[n] = NULL, !.color[n] = "BLACK"]
  OBVIOUS
<1>3. /\ v \in Tree /\ v.root = t.root /\ v.kid = t.kid
      /\ \A m \in Node : m # n => v.parent[m] = t.parent[m] /\ v.color[m] = t.color[m]
  BY <1>2 DEF Tree, Color
<1>4. PICK w : w = SetKid(v, "left", n, NULL)
  OBVIOUS
<1>5. KidSet(v, w, "left", n, NULL) /\ w \in Tree
  <2>1. KidSet(v, w, "left", n, NULL)
    BY <1>1, <1>3, <1>4, SetKidFacts, Sides
  <2> QED BY <2>1 DEF KidSet
<1>6. PICK x : x = SetKid(w, "right", n, NULL)
  OBVIOUS
<1>7. KidSet(w, x, "right", n, NULL)
  BY <1>1, <1>5, <1>6, SetKidFacts, Sides
<1>8. u = x
  BY <1>2, <1>4, <1>6 DEF SetKid, Tree, Side, Unlinked
<1> QED BY <1>3, <1>5, <1>7, <1>8, Sides DEF KidSet

LEMMA SoundUnlinked ==
  ASSUME NEW t, NEW key_, NEW S, Sound(t, key_, S), NEW n \in Node, n \notin S
  PROVE  Sound(Unlinked(t, n), key_, S)
<1>1. PICK sub, bh : Shape(t, key_, S, sub) /\ Fits(t, S, bh, NULL, "left", NULL)
  BY DEF Sound, Well
<1>2. t \in Tree /\ S \subseteq Node
  BY <1>1 DEF Shape
<1>3. PICK u : u = Unlinked(t, n)
  OBVIOUS
<1>4. /\ u \in Tree /\ u.root = t.root
      /\ \A m \in S : m # NULL /\ u.parent[m] = t.parent[m] /\ u.color[m] = t.color[m]
      /\ \A m \in S, s \in Side : u.kid[s][m] = t.kid[s][m]
  <2>1. /\ u \in Tree /\ u.root = t.root
        /\ \A m \in Node : m # n => u.parent[m] = t.parent[m] /\ u.color[m] = t.color[m]
        /\ \A s \in Side, m \in Node : m # n => u.kid[s][m] = t.kid[s][m]
    BY <1>2, <1>3, UnlinkedFacts
  <2>2. \A m \in S : m \in Node /\ m # n /\ m # NULL
    BY <1>2, RBAssumption
  <2> QED BY <2>1, <2>2
<1>5. Joints(u, S)
  <2>1. Joints(t, S)
    BY <1>1 DEF Shape
  <2> QED BY <2>1, <1>4 DEF Joints
<1>6. Subtrees(u, S, sub) /\ Sorted(u, key_, S, sub)
  BY <1>1, <1>4 DEF Shape, Subtrees, Sorted
<1>7. Shape(u, key_, S, sub)
  BY <1>1, <1>4, <1>5, <1>6 DEF Shape
<1>8. ASSUME NEW m \in S, NEW x \in Side PROVE Fit(u.color, bh, m, x, u.kid[x][m], NULL, "left", NULL)
  <2>1. PICK c : c = t.kid[x][m]
    OBVIOUS
  <2>2. u.kid[x][m] = c /\ (c # NULL => u.color[c] = t.color[c]) /\ u.color[m] = t.color[m]
    BY <2>1, <1>1, <1>4, KidFacts
  <2>3. Fit(t.color, bh, m, x, c, NULL, "left", NULL)
    BY <2>1, <1>1 DEF Fits
  <2> QED BY <2>2, <2>3 DEF Fit, Height, Dark
<1>9. Fits(u, S, bh, NULL, "left", NULL)
  BY <1>1, <1>8 DEF Fits
<1>10. IsBlack(u, u.root)
  <2>1. IsBlack(t, t.root) /\ t.root \in S \cup {NULL}
    BY <1>1 DEF Sound, Shape
  <2> QED BY <2>1, <1>4 DEF IsBlack
<1> QED BY <1>3, <1>7, <1>9, <1>10 DEF Sound, Well

\* RB_INSERT reports a collision if and only if the key is in use.
LEMMA CollidesFacts ==
  ASSUME NEW t, NEW key_, NEW S, Sound(t, key_, S), NEW k \in Nat, Node # {}
  PROVE  RB_Collides(t, key_, k) <=> \E m \in S : key_[m] = k
<1>1. PICK sub : Shape(t, key_, S, sub)
  BY DEF Sound, Well
<1>2. PICK d : d = Descend(t, key_, k)
  OBVIOUS
<1>3. d.hit <=> \E m \in S : key_[m] = k
  BY <1>1, <1>2, DescendFinds
<1> QED BY <1>2, <1>3 DEF RB_Collides

\* RB_MIN finds the earliest timer.
LEMMA MinFacts ==
  ASSUME NEW t, NEW key_, NEW S, Sound(t, key_, S), t.root # NULL
  PROVE  RB_MIN(t) \in S /\ \A m \in S : key_[RB_MIN(t)] <= key_[m]
<1>1. PICK sub : Shape(t, key_, S, sub)
  BY DEF Sound, Well
<1>2. PICK r : r = Leftmost(t, t.root)
  OBVIOUS
<1>3. t.root \in S /\ sub[t.root] = S /\ key_ \in [Node -> Nat] /\ S \subseteq Node
  BY <1>1 DEF Shape, Sub
<1>4. r \in S /\ \A m \in sub[t.root] : m # r => key_[r] < key_[m]
  BY <1>1, <1>2, <1>3, LeftmostFacts
<1>5. RB_MIN(t) = r
  BY <1>2 DEF RB_MIN
<1>6. \A m \in S : key_[m] \in Nat
  BY <1>3
<1> QED BY <1>3, <1>4, <1>5, <1>6

-----------------------------------------------------------------------------
(* The invariant *)

\* The tree is a balanced search tree of the nodes that are linked.
TreeInv == Sound(tree, key, Linked(tree))

LEMMA TreeInvInit == TreeInit => TreeInv
<1> SUFFICES ASSUME TreeInit PROVE TreeInv
  OBVIOUS
<1>1. Sound(tree, key, {})
  BY InitSound DEF TreeInit
<1>2. Linked(tree) = {}
  BY <1>1, SoundLinked
<1> QED BY <1>1, <1>2 DEF TreeInv

\* scheduler_addsleep adds the node with a key that nobody has.
LEMMA AddStep ==
  ASSUME TreeInv, NEW n \in Node, NEW t \in Time[n], NEW k \in 0..MaxTries,
         n \notin Linked(tree), ~RB_Collides(tree, key, t + k),
         key' = [key EXCEPT ![n] = t + k], tree' = RB_INSERT(tree, key', n)
  PROVE  TreeInv' /\ Linked(tree') = Linked(tree) \cup {n}
<1>1. PICK S : S = Linked(tree)
  OBVIOUS
<1>2. t + k \in Nat /\ t \in Nat
  BY SleepTreeAssumption
<1>3. Sound(tree, key, S) /\ S \subseteq Node /\ key \in [Node -> Nat] /\ n \notin S
  BY <1>1, SoundLinked DEF TreeInv
<1>4. \A m \in S : key[m] # t + k
  BY <1>2, <1>3, CollidesFacts
<1>5. PICK key2 : key2 = [key EXCEPT ![n] = t + k]
  OBVIOUS
<1>6. key2 \in [Node -> Nat] /\ key2[n] = t + k /\ \A m \in S : key2[m] = key[m]
  BY <1>2, <1>3, <1>5
<1>7. Sound(tree, key2, S)
  BY <1>3, <1>6, SoundRekeyed
<1>8. PICK u : u = RB_INSERT(tree, key2, n)
  OBVIOUS
<1>9. Sound(RB_INSERT(tree, key2, n), key2, S \cup {n})
  <2>1. n \in Node \ S /\ \A m \in S : key2[m] # key2[n]
    BY <1>3, <1>4, <1>6
  <2> QED BY <2>1, <1>7, InsertSound
<1>10. Sound(u, key2, S \cup {n}) /\ Linked(u) = S \cup {n}
  BY <1>8, <1>9, SoundLinked
<1>11. tree' = u /\ key' = key2
  BY <1>5, <1>8
<1>12. Linked(tree') = S \cup {n} /\ Sound(tree', key', Linked(tree'))
  BY <1>10, <1>11
<1> QED BY <1>1, <1>12 DEF TreeInv

\* scheduler_remsleep takes out the node and no other.
LEMMA RemoveStep ==
  ASSUME TreeInv, NEW n \in Node, n \in Linked(tree), tree' = Unlinked(RB_REMOVE(tree, n), n),
         key' = [key EXCEPT ![n] = 0]
  PROVE  TreeInv' /\ Linked(tree') = Linked(tree) \ {n}
<1>1. PICK S : S = Linked(tree)
  OBVIOUS
<1>2. Sound(tree, key, S) /\ S \subseteq Node /\ key \in [Node -> Nat] /\ n \in S
  BY <1>1, SoundLinked DEF TreeInv
<1>3. Sound(RB_REMOVE(tree, n), key, S \ {n})
  BY <1>2, RemoveSound
<1>4. PICK u : u = Unlinked(RB_REMOVE(tree, n), n)
  OBVIOUS
<1>5. Sound(u, key, S \ {n})
  BY <1>2, <1>3, <1>4, SoundUnlinked
<1>6. PICK key2 : key2 = [key EXCEPT ![n] = 0]
  OBVIOUS
<1>7. key2 \in [Node -> Nat] /\ \A m \in S \ {n} : key2[m] = key[m]
  BY <1>2, <1>6
<1>8. Sound(u, key2, S \ {n})
  BY <1>5, <1>7, SoundRekeyed
<1>9. Linked(u) = S \ {n}
  BY <1>8, SoundLinked
<1>10. tree' = u /\ key' = key2
  BY <1>4, <1>6
<1>11. Linked(tree') = S \ {n} /\ Sound(tree', key', Linked(tree'))
  BY <1>8, <1>9, <1>10
<1> QED BY <1>1, <1>11 DEF TreeInv

LEMMA TreeInvStep == TreeInv /\ [TreeNext]_treeVars => TreeInv'
<1> SUFFICES ASSUME TreeInv, [TreeNext]_treeVars PROVE TreeInv'
  OBVIOUS
<1>1. ASSUME NEW n \in Node, NEW t \in Time[n], addsleep(n, t) PROVE TreeInv'
  <2>1. PICK k \in 0..MaxTries : /\ n \notin Linked(tree) /\ ~RB_Collides(tree, key, t + k)
                                 /\ key' = [key EXCEPT ![n] = t + k] /\ tree' = RB_INSERT(tree, key', n)
    BY <1>1 DEF addsleep
  <2> QED BY <2>1, AddStep
<1>2. ASSUME NEW n \in Node, remsleep(n) PROVE TreeInv'
  <2>1. n \in Linked(tree) /\ tree' = Unlinked(RB_REMOVE(tree, n), n) /\ key' = [key EXCEPT ![n] = 0]
    BY <1>2 DEF remsleep
  <2> QED BY <2>1, RemoveStep
<1>3. CASE findmin
  BY <1>3 DEF findmin, TreeInv
<1>4. CASE UNCHANGED treeVars
  BY <1>4 DEF treeVars, TreeInv
<1> QED BY <1>1, <1>2, <1>3, <1>4 DEF TreeNext

LEMMA TreeAlwaysSound == TreeSpec => []TreeInv
<1>1. TreeInit => TreeInv
  BY TreeInvInit
<1>2. TreeInv /\ [TreeNext]_treeVars => TreeInv'
  BY TreeInvStep
<1> QED BY <1>1, <1>2, PTL DEF TreeSpec

-----------------------------------------------------------------------------
(* Theorems *)

\* At all times, for any set of nodes and any keys, the parent pointer of every
\* child leads back to its parent and the root has none: the rotations of tree.h,
\* RB_INSERT and RB_REMOVE turn both directions of every link.
THEOREM TreeLinksAgree == TreeSpec => []LinksAgree
<1>1. TreeInv => LinksAgree
  <2> SUFFICES ASSUME TreeInv PROVE LinksAgree
    OBVIOUS
  <2>1. PICK S : S = Linked(tree)
    OBVIOUS
  <2>2. PICK sub : Shape(tree, key, S, sub)
    BY <2>1 DEF TreeInv, Sound, Well
  <2>3. tree \in Tree /\ (tree.root # NULL => tree.parent[tree.root] = NULL) /\ Joints(tree, S)
    BY <2>2 DEF Shape
  <2> QED BY <2>1, <2>3 DEF LinksAgree, Joints
<1> QED BY <1>1, TreeAlwaysSound, PTL

\* At all times each subtree lies on its side of the node above it, whatever
\* rotations and replacements by successors RB_INSERT and RB_REMOVE have made.
THEOREM TreeOrdered == TreeSpec => []Ordered
<1>1. TreeInv => Ordered
  <2> SUFFICES ASSUME TreeInv PROVE Ordered
    OBVIOUS
  <2>1. PICK S : S = Linked(tree)
    OBVIOUS
  <2>2. PICK sub : Shape(tree, key, S, sub)
    BY <2>1 DEF TreeInv, Sound, Well
  <2>3. ASSUME NEW n \in S, NEW s \in Side, NEW m \in Below(tree, tree.kid[s][n])
        PROVE  Less(s, key[m], key[n])
    <3>1. m \in Sub(sub, tree.kid[s][n])
      BY <2>2, LinkedIsShape
    <3>2. Sub(sub, tree.kid[s][n]) \subseteq sub[n] /\ sub[n] \subseteq S /\ S \subseteq Node
      BY <2>2, KidFacts, SubsNested DEF Shape
    <3> QED BY <3>1, <3>2, <2>2 DEF Shape, Sorted
  <2>4. \A n \in S : /\ \A m \in Below(tree, tree.kid["left"][n]) : Less("left", key[m], key[n])
                     /\ \A m \in Below(tree, tree.kid["right"][n]) : Less("right", key[m], key[n])
    BY <2>3, Sides
  <2>5. \A n \in S : /\ \A m \in Below(tree, tree.kid["left"][n]) : key[m] < key[n]
                     /\ \A m \in Below(tree, tree.kid["right"][n]) : key[n] < key[m]
    BY <2>4 DEF Less
  <2> QED BY <2>1, <2>5 DEF Ordered
<1> QED BY <1>1, TreeAlwaysSound, PTL

-----------------------------------------------------------------------------
(* The balance *)

\* Of two nodes only one is below the other.
LEMMA SubsAntisymmetric ==
  ASSUME NEW t, NEW key_, NEW S, NEW sub, Shape(t, key_, S, sub), NEW n \in S, NEW m \in sub[n], n \in sub[m]
  PROVE  m = n
<1> SUFFICES ASSUME m # n PROVE FALSE
  OBVIOUS
<1>1. sub[n] \subseteq S /\ S \subseteq Node
  BY SubsNested DEF Shape
<1>2. PICK s \in Side : m \in Sub(sub, t.kid[s][n])
  BY <1>1 DEF Shape, Subtrees
<1>3. n \notin Sub(sub, t.kid[s][n]) /\ (t.kid[s][n] # NULL => t.kid[s][n] \in S)
  BY KidFacts
<1>4. PICK c : c = t.kid[s][n]
  OBVIOUS
<1>5. m \in sub[c] /\ n \notin sub[c] /\ c \in S
  BY <1>2, <1>3, <1>4 DEF Sub
<1>6. sub[m] \subseteq sub[c]
  BY <1>5, SubsNested
<1> QED BY <1>5, <1>6

\* What is above a child is above its parent.
LEMMA AboveParent ==
  ASSUME NEW t, NEW key_, NEW S, NEW sub, Shape(t, key_, S, sub), NEW n \in S, NEW s \in Side,
         NEW c, c = t.kid[s][n], c # NULL
  PROVE  \A m \in S : c \in sub[m] <=> m = c \/ n \in sub[m]
<1>1. c \in S /\ t.parent[c] = n /\ c \in sub[c] /\ c \in sub[n] /\ c # t.root /\ n \in sub[n]
  BY KidFacts, KidsSmaller
<1>2. S \subseteq Node /\ \A m \in S : sub[m] \subseteq S /\ \A j \in sub[m] : sub[j] \subseteq sub[m]
  BY SubsNested DEF Shape
<1>3. PICK G : G = {m \in S : c \in sub[m] => m = c \/ n \in sub[m]}
  OBVIOUS
<1>4. ASSUME NEW m \in S, \A x \in Side : t.kid[x][m] # NULL => t.kid[x][m] \in G
      PROVE  m \in G
  <2> SUFFICES ASSUME c \in sub[m], m # c PROVE n \in sub[m]
    BY <1>3
  <2>1. PICK x \in Side : c \in Sub(sub, t.kid[x][m])
    BY <1>1, <1>2 DEF Shape, Subtrees
  <2>2. PICK d : d = t.kid[x][m]
    OBVIOUS
  <2>3. d # NULL /\ c \in sub[d] /\ d \in G
    BY <2>1, <2>2, <1>4 DEF Sub
  <2>4. d \in S /\ sub[d] \subseteq sub[m] /\ t.parent[d] = m /\ m \in sub[m]
    BY <2>2, <2>3, KidFacts, KidsSmaller
  <2> QED BY <2>3, <2>4, <1>1, <1>3
<1>5. S \subseteq G
  BY <1>4, FromKids
<1>6. \A m \in S : n \in sub[m] => c \in sub[m]
  BY <1>1, <1>2
<1> QED BY <1>1, <1>3, <1>5, <1>6

\* The black nodes from the root down to n.
BlackAbove(t, S, sub, n) == {m \in S : n \in sub[m] /\ t.color[m] = "BLACK"}

\* From node to node they are as many more as there are fewer to come.
LEMMA BlackDepths ==
  ASSUME NEW t, NEW key_, NEW S, NEW sub, Shape(t, key_, S, sub), NEW bh, Fits(t, S, bh, NULL, "left", NULL),
         IsBlack(t, t.root)
  PROVE  \A n \in S : Cardinality(BlackAbove(t, S, sub, n)) + bh[n] = 1 + bh[t.root]
<1>1. /\ S \subseteq Node /\ t \in Tree /\ bh \in [Node -> Nat]
      /\ \A n \in S, x \in Side : Fit(t.color, bh, n, x, t.kid[x][n], NULL, "left", NULL)
  BY DEF Shape, Fits
<1>2. PICK G : G = {n \in S : Cardinality(BlackAbove(t, S, sub, n)) + bh[n] = 1 + bh[t.root]}
  OBVIOUS
<1>3. ASSUME t.root # NULL PROVE t.root \in G
  <2>1. PICK r : r = t.root
    OBVIOUS
  <2>2. r \in S /\ sub[r] = S /\ t.color[r] = "BLACK" /\ r \in Node
    BY <2>1, <1>1, <1>3 DEF Shape, Sub, IsBlack
  <2>3. \A m \in S : r \in sub[m] => m = r
    BY <2>2, SubsAntisymmetric
  <2>4. BlackAbove(t, S, sub, r) = {r}
    BY <2>2, <2>3 DEF BlackAbove
  <2>5. Cardinality({r}) = 1
    BY FS_Singleton
  <2> QED BY <2>1, <2>2, <2>4, <2>5, <1>2
<1>4. ASSUME NEW n \in S, NEW s \in Side, n \in G, t.kid[s][n] # NULL PROVE t.kid[s][n] \in G
  <2>1. PICK c : c = t.kid[s][n]
    OBVIOUS
  <2>2. c \in S /\ c \in Node /\ c # NULL /\ n \in Node /\ n # NULL /\ t.color[c] \in Color
    BY <2>1, <1>1, <1>4, KidFacts DEF Tree
  <2>3. \A m \in S : c \in sub[m] <=> m = c \/ n \in sub[m]
    BY <2>1, <2>2, AboveParent
  <2>4. n \notin sub[c]
    BY <2>1, <2>2, KidFacts DEF Sub
  <2>5. PICK A, B : A = BlackAbove(t, S, sub, n) /\ B = BlackAbove(t, S, sub, c)
    OBVIOUS
  <2>6. A \in SUBSET Node /\ IsFiniteSet(A) /\ Cardinality(A) \in Nat
    <3>1. A \in SUBSET Node
      BY <2>5, <1>1 DEF BlackAbove
    <3> QED BY <3>1, Sizes
  <2>7. Cardinality(A) + bh[n] = 1 + bh[t.root] /\ bh[n] \in Nat /\ bh[c] \in Nat
    BY <2>2, <2>5, <1>1, <1>2, <1>4
  <2>8. bh[n] = Height(t.color, bh, c)
    <3>1. Fit(t.color, bh, n, s, c, NULL, "left", NULL)
      BY <2>1, <1>1
    <3>2. Height(t.color, bh, c) \in Nat
      BY <2>2, <2>7 DEF Height
    <3> QED BY <3>1, <3>2, <2>2 DEF Fit
  <2>9. CASE t.color[c] = "BLACK"
    <3>1. B = A \cup {c} /\ c \notin A
      BY <2>2, <2>3, <2>4, <2>5, <2>9 DEF BlackAbove
    <3>2. Cardinality(B) = Cardinality(A) + 1
      BY <3>1, <2>6, FS_AddElement
    <3>3. bh[n] = bh[c] + 1
      BY <2>2, <2>8, <2>9 DEF Height
    <3>4. Cardinality(B) + bh[c] = 1 + bh[t.root]
      BY <3>2, <3>3, <2>6, <2>7
    <3> QED BY <3>4, <2>1, <2>2, <2>5, <1>2
  <2>10. CASE t.color[c] = "RED"
    <3>1. B = A
      BY <2>3, <2>5, <2>10 DEF BlackAbove
    <3>2. bh[n] = bh[c]
      BY <2>2, <2>8, <2>10 DEF Height
    <3>3. Cardinality(B) + bh[c] = 1 + bh[t.root]
      BY <3>1, <3>2, <2>7
    <3> QED BY <3>3, <2>1, <2>2, <2>5, <1>2
  <2> QED BY <2>2, <2>9, <2>10 DEF Color
<1>5. S \subseteq G
  BY <1>3, <1>4, FromRoot
<1> QED BY <1>2, <1>5

\* At all times no red node has a red child and all ways down to a missing child
\* pass the same number of black nodes: RB_INSERT_COLOR and RB_REMOVE_COLOR
\* repair whatever the insertion of a red leaf or the loss of a black node broke.
THEOREM TreeBalanced == TreeSpec => []Balanced
<1>1. TreeInv => Balanced
  <2> SUFFICES ASSUME TreeInv PROVE Balanced
    OBVIOUS
  <2>1. PICK S : S = Linked(tree)
    OBVIOUS
  <2>2. PICK sub, bh : Shape(tree, key, S, sub) /\ Fits(tree, S, bh, NULL, "left", NULL)
    BY <2>1 DEF TreeInv, Sound, Well
  <2>3. IsBlack(tree, tree.root)
    BY DEF TreeInv, Sound
  <2>4. /\ S \subseteq Node /\ bh \in [Node -> Nat]
        /\ \A n \in S, x \in Side : Fit(tree.color, bh, n, x, tree.kid[x][n], NULL, "left", NULL)
    BY <2>2 DEF Shape, Fits
  <2>5. ASSUME NEW n \in S, NEW s \in Side, tree.color[n] = "RED" PROVE IsBlack(tree, tree.kid[s][n])
    <3>1. PICK c : c = tree.kid[s][n]
      OBVIOUS
    <3>2. Fit(tree.color, bh, n, s, c, NULL, "left", NULL) /\ n # NULL
      BY <3>1, <2>4, RBAssumption
    <3>3. IsBlack(tree, c)
      BY <3>2, <2>5 DEF Fit, Dark, IsBlack
    <3> QED BY <3>1, <3>3
  <2>6. ASSUME NEW n \in S, NULL \in {tree.kid[s][n] : s \in Side} PROVE BlackDepth(n) = 1 + bh[tree.root]
    <3>1. PICK s \in Side : tree.kid[s][n] = NULL
      BY <2>6
    <3>2. Fit(tree.color, bh, n, s, NULL, NULL, "left", NULL) /\ n # NULL /\ n \in Node
      BY <3>1, <2>4, RBAssumption
    <3>3. bh[n] = 0
      BY <3>2 DEF Fit, Height
    <3>4. PICK A : A = BlackAbove(tree, S, sub, n)
      OBVIOUS
    <3>5. Cardinality(A) + bh[n] = 1 + bh[tree.root]
      BY <3>4, <2>2, <2>3, BlackDepths
    <3>6. Cardinality(A) \in Nat
      <4>1. A \in SUBSET Node
        BY <3>4, <2>4 DEF BlackAbove
      <4> QED BY <4>1, Sizes
    <3>7. \A m \in S : Below(tree, m) = sub[m]
      BY <2>2, LinkedIsShape
    <3>8. {m \in Linked(tree) : n \in Below(tree, m) /\ tree.color[m] = "BLACK"} = A
      BY <3>4, <3>7, <2>1 DEF BlackAbove
    <3>9. BlackDepth(n) = Cardinality(A)
      BY <3>8, Zenon DEF BlackDepth
    <3>10. Cardinality(A) = 1 + bh[tree.root]
      BY <3>3, <3>5, <3>6
    <3> QED BY <3>9, <3>10
  <2> QED BY <2>1, <2>3, <2>5, <2>6 DEF Balanced
<1> QED BY <1>1, TreeAlwaysSound, PTL

-----------------------------------------------------------------------------
(* The timers *)

\* The pointer tree of tree.h, with the search for a free key of
\* scheduler_addsleep around it, implements the set of timers on which module
\* Scheduler builds: no operation drops, invents or re-keys another timer,
\* RB_INSERT reports a collision exactly when the key is in use, and RB_MIN
\* returns the earliest timer.
THEOREM TreeImplementsTimerSet == TreeSpec => ImplementsTimerSet
<1>1. TreeInit => Timers!TimerInit
  <2> SUFFICES ASSUME TreeInit PROVE Timers!TimerInit
    OBVIOUS
  <2>1. Linked(tree) = {}
    BY InitSound, SoundLinked DEF TreeInit
  <2> QED BY <2>1 DEF TreeInit, Timers!TimerInit
<1>2. TreeInv /\ [TreeNext]_treeVars => [Timers!TimerNext]_(Timers!timerVars)
  <2> SUFFICES ASSUME TreeInv, [TreeNext]_treeVars PROVE [Timers!TimerNext]_(Timers!timerVars)
    OBVIOUS
  <2>0. PICK S : S = Linked(tree)
    OBVIOUS
  <2>1. Sound(tree, key, S) /\ S \subseteq Node
    BY <2>0, SoundLinked DEF TreeInv
  <2>2. ASSUME NEW n \in Node, NEW t \in Time[n], addsleep(n, t) PROVE Timers!TimerNext
    <3>1. PICK k \in 0..MaxTries :
            /\ n \notin Linked(tree) /\ ~RB_Collides(tree, key, t + k)
            /\ \A j \in 0..k - 1 : RB_Collides(tree, key, t + j)
            /\ key' = [key EXCEPT ![n] = t + k] /\ tree' = RB_INSERT(tree, key', n) /\ min' = NULL
      BY <2>2 DEF addsleep
    <3>2. Linked(tree') = Linked(tree) \cup {n}
      BY <3>1, AddStep
    <3>3. t \in Nat /\ k \in Nat
      BY SleepTreeAssumption
    <3>4. ASSUME NEW i \in Nat PROVE RB_Collides(tree, key, t + i) <=> t + i \in Timers!Used
      <4>1. t + i \in Nat
        BY <3>3
      <4>2. RB_Collides(tree, key, t + i) <=> \E m \in S : key[m] = t + i
        BY <4>1, <2>1, CollidesFacts
      <4> QED BY <4>2, <2>0 DEF Timers!Used
    <3>5. t + k \notin Timers!Used /\ \A j \in 0..k - 1 : t + j \in Timers!Used
      BY <3>1, <3>3, <3>4
    <3>6. Timers!Arm(n, t)
      BY <3>1, <3>2, <3>5 DEF Timers!Arm
    <3> QED BY <3>6 DEF Timers!TimerNext
  <2>3. ASSUME NEW n \in Node, remsleep(n) PROVE Timers!TimerNext
    <3>1. /\ n \in Linked(tree) /\ tree' = Unlinked(RB_REMOVE(tree, n), n) /\ key' = [key EXCEPT ![n] = 0]
          /\ min' = NULL
      BY <2>3 DEF remsleep
    <3>2. Linked(tree') = Linked(tree) \ {n}
      BY <3>1, RemoveStep
    <3>3. Timers!Disarm(n)
      BY <3>1, <3>2 DEF Timers!Disarm
    <3> QED BY <3>3 DEF Timers!TimerNext
  <2>4. CASE findmin
    <3>1. tree.root # NULL /\ min' = RB_MIN(tree) /\ tree' = tree /\ key' = key
      BY <2>4 DEF findmin
    <3>2. PICK r : r = RB_MIN(tree)
      OBVIOUS
    <3>3. r \in S /\ \A m \in S : key[r] <= key[m]
      BY <3>1, <3>2, <2>1, MinFacts
    <3>4. Timers!Earliest(r)
      BY <3>1, <3>2, <3>3, <2>0 DEF Timers!Earliest
    <3> QED BY <3>3, <3>4, <2>1 DEF Timers!TimerNext
  <2>5. CASE UNCHANGED treeVars
    BY <2>5 DEF treeVars, Timers!timerVars
  <2> QED BY <2>2, <2>3, <2>4, <2>5 DEF TreeNext
<1> QED BY <1>1, <1>2, TreeAlwaysSound, PTL DEF TreeSpec, ImplementsTimerSet, Timers!TimerSpec
=============================================================================
