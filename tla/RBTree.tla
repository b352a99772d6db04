------------------------------- MODULE RBTree -------------------------------
(***************************************************************************)
(* The red-black tree of src/src/util/tree.h at the level of its pointers, *)
(* as pure operators: the two timer trees of the scheduler are made of it. *)
(*                                                                         *)
(* A tree is a record: `root' is rbh_root, kid.left, kid.right and parent  *)
(* are rbe_left, rbe_right and rbe_parent of each node, color is rbe_color.*)
(* The links of a node that is in no tree are kept, as RB_REMOVE keeps     *)
(* them.  The mirror-image halves of the C code are one definition with    *)
(* the side as a parameter.  The operators are defined where the C code    *)
(* dereferences no NULL.                                                   *)
(***************************************************************************)
EXTENDS Naturals, FiniteSets

CONSTANTS
  Node,   \* the structs that embed an RB_ENTRY
  NULL

ASSUME RBAssumption == NULL \notin Node /\ IsFiniteSet(Node)

Side == {"left", "right"}
Color == {"BLACK", "RED"}

Tree == [root : Node \cup {NULL},
         kid : [Side -> [Node -> Node \cup {NULL}]],
         parent : [Node -> Node \cup {NULL}],
         color : [Node -> Color]]

Opposite(s) == IF s = "left" THEN "right" ELSE "left"

\* RB_INIT, with the entries as calloc leaves them (RB_BLACK is 0).
RB_INIT == [root |-> NULL,
            kid |-> [s \in Side |-> [n \in Node |-> NULL]],
            parent |-> [n \in Node |-> NULL],
            color |-> [n \in Node |-> "BLACK"]]

\* A loop that runs at most once per node: step is the identity once the loop
\* condition fails.
Loop(step(_), x) ==
  LET it[i \in 0..Cardinality(Node)] == IF i = 0 THEN x ELSE step(it[i - 1])
  IN  it[Cardinality(Node)]

\* A leaf position, or a black node.
IsBlack(t, n) == n = NULL \/ t.color[n] = "BLACK"

Paint(t, n, c) == [t EXCEPT !.color[n] = c]

\* RB_SET_BLACKRED
SetBlackRed(t, black, red) == Paint(Paint(t, black, "BLACK"), red, "RED")

\* The side of its parent p that n hangs on.  The C code tests only the left.
SideOf(t, p, n) == IF t.kid.left[p] = n THEN "left" ELSE "right"

\* Let p (the root pointer when NULL) point to n where it pointed to old.
Relink(t, p, old, n) ==
  IF p = NULL THEN [t EXCEPT !.root = n]
              ELSE [t EXCEPT !.kid[SideOf(t, p, old)][p] = n]

SetParent(t, n, p) == IF n = NULL THEN t ELSE [t EXCEPT !.parent[n] = p]

\* Mutant: the child that changes sides keeps its parent pointer.
RotateHalf(t, s, elm) ==
  LET o == Opposite(s)
      tmp == t.kid[o][elm]
      t1 == [t EXCEPT !.kid[o][elm] = t.kid[s][tmp]]
      t2 == Relink(SetParent(t1, tmp, t.parent[elm]), t.parent[elm], elm, tmp)
  IN  SetParent([t2 EXCEPT !.kid[s][tmp] = elm], elm, tmp)

\* RB_ROTATE_LEFT when s is "left", RB_ROTATE_RIGHT when it is "right".
Rotate(t, s, elm) ==
  LET o == Opposite(s)
      tmp == t.kid[o][elm]
      inner == t.kid[s][tmp]
      t1 == SetParent([t EXCEPT !.kid[o][elm] = inner], inner, elm)
      t2 == Relink(SetParent(t1, tmp, t.parent[elm]), t.parent[elm], elm, tmp)
  IN  SetParent([t2 EXCEPT !.kid[s][tmp] = elm], elm, tmp)

-----------------------------------------------------------------------------
(* Insertion *)

\* One round of RB_INSERT_COLOR on x = [t, elm].
InsertColorStep(x) ==
  LET t == x.t
      parent == t.parent[x.elm]
      gparent == t.parent[parent]
      s == SideOf(t, gparent, parent)
      uncle == t.kid[Opposite(s)][gparent]
      inside == t.kid[Opposite(s)][parent] = x.elm
      top == IF inside THEN x.elm ELSE parent
      t1 == IF inside THEN Rotate(t, s, parent) ELSE t
  IN
  IF parent = NULL THEN x
  ELSE IF t.color[parent] = "BLACK" THEN x
  ELSE IF ~IsBlack(t, uncle)
  THEN [t |-> SetBlackRed(Paint(t, uncle, "BLACK"), parent, gparent),
        elm |-> gparent]
  ELSE [t |-> Rotate(SetBlackRed(t1, top, gparent), Opposite(s), gparent),
        elm |-> IF inside THEN parent ELSE x.elm]

RB_INSERT_COLOR(t, elm) ==
  LET t1 == Loop(InsertColorStep, [t |-> t, elm |-> elm]).t
  IN  Paint(t1, t1.root, "BLACK")

\* The descent of RB_INSERT for a key k: the last node visited, the side taken
\* there, and the node in the way when the key is taken.
Descend(t, key, k) ==
  LET step(x) ==
        IF x.tmp = NULL \/ x.hit THEN x
        ELSE IF k = key[x.tmp] THEN [x EXCEPT !.hit = TRUE]
        ELSE LET s == IF k < key[x.tmp] THEN "left" ELSE "right"
             IN  [tmp |-> t.kid[s][x.tmp], parent |-> x.tmp, side |-> s,
                  hit |-> FALSE]
      start == [tmp |-> t.root, parent |-> NULL, side |-> "left", hit |-> FALSE]
  IN  step(Loop(step, start))

\* RB_INSERT returns the node in the way.
RB_Collides(t, key, k) == Descend(t, key, k).hit

\* RB_INSERT of elm when key[elm] is not taken.
RB_INSERT(t, key, elm) ==
  LET d == Descend(t, key, key[elm])
      t1 == [t EXCEPT !.parent[elm] = d.parent,
                      !.kid.left[elm] = NULL,
                      !.kid.right[elm] = NULL,
                      !.color[elm] = "RED"]
      t2 == IF d.parent = NULL THEN [t1 EXCEPT !.root = elm]
                               ELSE [t1 EXCEPT !.kid[d.side][d.parent] = elm]
  IN  RB_INSERT_COLOR(t2, elm)

-----------------------------------------------------------------------------
(* Removal *)

\* RB_REMOVE_COLOR below `parent', whose side s is one black node short.
\* A red sibling is rotated up, which leaves a black one.
RedSibling(t, s, parent) ==
  LET sib == t.kid[Opposite(s)][parent]
  IN  IF t.color[sib] = "RED" THEN Rotate(SetBlackRed(t, sib, parent), s, parent)
      ELSE t

\* Only the near child of the sibling is red: rotate it up, the far one is then.
NearChild(t, s, sib) ==
  LET o == Opposite(s)
  IN  IF IsBlack(t, t.kid[o][sib])
      THEN Rotate(SetBlackRed(t, t.kid[s][sib], sib), o, sib)
      ELSE t

\* The sibling is rotated up and its far child becomes black.
FarChild(t, s, parent) ==
  LET sib == t.kid[Opposite(s)][parent]
      far == t.kid[Opposite(s)][sib]
      t1 == Paint(Paint(t, sib, t.color[parent]), parent, "BLACK")
  IN  Rotate(IF far = NULL THEN t1 ELSE Paint(t1, far, "BLACK"), s, parent)

\* The loop ends with elm = the root.
AtRoot(t) == [t |-> t, parent |-> NULL, elm |-> t.root]

\* The sibling is black: with black children it becomes red and the loop goes on
\* one level up, otherwise the missing black node is taken from its side.
BlackSibling(t, s, parent) ==
  LET sib == t.kid[Opposite(s)][parent]
  IN  IF \A side \in Side : IsBlack(t, t.kid[side][sib])
      THEN [t |-> Paint(t, sib, "RED"), parent |-> t.parent[parent],
            elm |-> parent]
      ELSE AtRoot(FarChild(NearChild(t, s, sib), s, parent))

\* One round of RB_REMOVE_COLOR on x = [t, parent, elm].
RemoveColorStep(x) ==
  LET s == SideOf(x.t, x.parent, x.elm)
  IN  IF ~IsBlack(x.t, x.elm) \/ x.elm = x.t.root THEN x
      ELSE BlackSibling(RedSibling(x.t, s, x.parent), s, x.parent)

\* Mutant: no rebalancing after a removal.
PaintOnly(t, parent, elm) == IF elm = NULL THEN t ELSE Paint(t, elm, "BLACK")

RB_REMOVE_COLOR(t, parent, elm) ==
  LET x == Loop(RemoveColorStep, [t |-> t, parent |-> parent, elm |-> elm])
  IN  IF x.elm = NULL THEN x.t ELSE Paint(x.t, x.elm, "BLACK")

\* The leftmost node of the subtree at n.
Leftmost(t, n) ==
  LET step(x) == IF t.kid.left[x] = NULL THEN x ELSE t.kid.left[x]
  IN  Loop(step, n)

\* Mutant: the leftmost of the left subtree.
WrongSuccessor(t, n) == Leftmost(t, t.kid.left[n])

\* The node that takes the place of a node with two children.
Successor(t, n) == Leftmost(t, t.kid.right[n])

\* RB_REMOVE of a node with at most one child.
RemoveOuter(t, elm) ==
  LET child == IF t.kid.left[elm] = NULL THEN t.kid.right[elm]
                                         ELSE t.kid.left[elm]
      parent == t.parent[elm]
      t1 == Relink(SetParent(t, child, parent), parent, elm, child)
  IN  IF t.color[elm] = "BLACK" THEN RB_REMOVE_COLOR(t1, parent, child) ELSE t1

\* RB_REMOVE of a node with two children: its successor takes its place.
RemoveInner(t, old) ==
  LET elm == Successor(t, old)
      child == t.kid.right[elm]
      up == t.parent[elm]
      t1 == Relink(SetParent(t, child, up), up, elm, child)
      t2 == [t1 EXCEPT !.kid.left[elm] = t1.kid.left[old],
                       !.kid.right[elm] = t1.kid.right[old],
                       !.parent[elm] = t1.parent[old],
                       !.color[elm] = t1.color[old]]
      t3 == Relink(t2, t2.parent[old], old, elm)
      t4 == SetParent(SetParent(t3, t3.kid.left[old], elm),
                      t3.kid.right[old], elm)
      parent == IF up = old THEN elm ELSE up
  IN  IF t.color[elm] = "BLACK" THEN RB_REMOVE_COLOR(t4, parent, child) ELSE t4

RB_REMOVE(t, elm) ==
  IF t.kid.left[elm] = NULL \/ t.kid.right[elm] = NULL
  THEN RemoveOuter(t, elm)
  ELSE RemoveInner(t, elm)

\* Mutant: the descent is missing.
RB_ROOT(t) == t.root

\* RB_MINMAX(head, RB_NEGINF)
RB_MIN(t) == IF t.root = NULL THEN NULL ELSE Leftmost(t, t.root)

-----------------------------------------------------------------------------
(* What a tree means *)

\* The children of the nodes of S.
Kids(t, S) == {t.kid[s][n] : s \in Side, n \in S} \ {NULL}

\* The nodes of the subtree at n.
Below(t, n) ==
  LET step(S) == S \cup Kids(t, S)
  IN  Loop(step, {n} \ {NULL})

\* The nodes in the tree.
Linked(t) == Below(t, t.root)
=============================================================================
