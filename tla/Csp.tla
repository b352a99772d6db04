--------------------------------- MODULE Csp ---------------------------------
(***************************************************************************)
(* PROC, PAR and SEQ builders and RUN and GO: src/src/csp.c and their      *)
(* front end in src/src/proxc.c, on top of the scheduler.                  *)
(*                                                                         *)
(* A program builds a tree with PROCs at its leaves and hands it to RUN or *)
(* GO.  Whenever a PROC is freed, csp_parsebuild climbs from its leaf as   *)
(* far as builders are complete, starts the next child of a SEQ on the way *)
(* and, at the root, wakes the PROC in RUN and frees the tree.             *)
(*                                                                         *)
(* The ProcBuild of a PROC is identified with the PROC, whose struct is    *)
(* not handed out again while the ProcBuild is allocated.                  *)
(***************************************************************************)
EXTENDS Scheduler, SequencesExt

CONSTANT Comp   \* the ParBuild and SeqBuild structs malloc can hand out

ASSUME CspAssumption == Comp \cap (Proc \cup {NULL}) = {} /\ IsFiniteSet(Comp)

VARIABLES
  type,        \* header.type; "FREE" when the struct is not allocated
  childQ,      \* childQ of a PAR or SEQ
  parent,      \* header.parent
  num_childs,  \* num_childs of a PAR or SEQ
  curr_build,  \* curr_build of a SEQ
  is_root,     \* header.is_root
  run_proc,    \* header.run_proc
  parsing,     \* the argument of the csp_parsebuild in progress
  ended        \* history: the leaves whose PROC has been through csp_parsebuild

cspVars == <<type, childQ, parent, num_childs, curr_build, is_root, run_proc,
             parsing, ended>>

Build == Proc \cup Comp

CspInit ==
  /\ type = [b \in Build |-> "FREE"]
  /\ childQ = [b \in Build |-> <<>>]
  /\ parent = [b \in Build |-> NULL]
  /\ num_childs = [b \in Build |-> 0]
  /\ curr_build = [b \in Build |-> NULL]
  /\ is_root = [b \in Build |-> FALSE]
  /\ run_proc = [b \in Build |-> NULL]
  /\ parsing = NULL
  /\ ended = {}

\* Builders that a program still holds: in no tree, not run yet.
Loose(b) == type[b] # "FREE" /\ parent[b] = NULL /\ ~is_root[b]

\* Mutant: SEQ starts all its children.
RunsSeqAsPar(b) ==
  LET run[x \in Build] ==
        IF type[x] = "PROC_BUILD" THEN <<x>>
        ELSE FlattenSeq([i \in DOMAIN childQ[x] |-> run[childQ[x][i]]])
  IN  run[b]

\* The children csp_runbuild(b) goes on to: all of a PAR, the current one of a
\* SEQ.
RunChilds(b) == IF type[b] = "SEQ_BUILD" THEN <<curr_build[b]>> ELSE childQ[b]

\* The PROCs csp_runbuild(b) makes ready, in order.
csp_runbuild(b) ==
  LET run[x \in Build] ==
        IF type[x] = "PROC_BUILD" THEN <<x>>
        ELSE FlattenSeq([i \in DOMAIN RunChilds(x) |-> run[RunChilds(x)[i]]])
  IN  run[b]

\* The structs csp_cleanupbuild(b) frees.
csp_cleanupbuild(b) ==
  LET sub[x \in Build] ==
        {x} \cup UNION {sub[childQ[x][i]] : i \in DOMAIN childQ[x]}
  IN  sub[b]

-----------------------------------------------------------------------------
(* Building and running *)

\* proxc_proc: proc_create and the ProcBuild.
proxc_proc(p) ==
  /\ type[p] = "FREE"
  /\ Create(p)
  /\ type' = [type EXCEPT ![p] = "PROC_BUILD"]
  /\ UNCHANGED <<childQ, parent, num_childs, curr_build, is_root, run_proc,
                 parsing, ended>>

\* proxc_par and proxc_seq of the builders s, with csp_insertchilds.
proxc_comp(b, t, s) ==
  /\ pc = "proc"
  /\ type[b] = "FREE"
  /\ IsInjective(s)
  /\ \A i \in DOMAIN s : Loose(s[i])
  /\ type' = [type EXCEPT ![b] = t]
  /\ childQ' = [childQ EXCEPT ![b] = s]
  /\ num_childs' = [num_childs EXCEPT ![b] = Len(s)]
  /\ curr_build' = [curr_build EXCEPT ![b] = IF t = "SEQ_BUILD" THEN Head(s) ELSE NULL]
  /\ parent' = [x \in Build |-> IF x \in Range(s) THEN b ELSE parent[x]]
  /\ UNCHANGED <<schedVars, is_root, run_proc, parsing, ended>>

\* proxc_go
proxc_go(b) ==
  /\ pc = "proc"
  /\ Loose(b)
  /\ is_root' = [is_root EXCEPT ![b] = TRUE]
  /\ Readies(csp_runbuild(b))
  /\ UNCHANGED <<type, childQ, parent, num_childs, curr_build, run_proc,
                 parsing, ended>>

\* proxc_run
proxc_run(b) ==
  /\ pc = "proc"
  /\ Loose(b)
  /\ is_root' = [is_root EXCEPT ![b] = TRUE]
  /\ run_proc' = [run_proc EXCEPT ![b] = curr_proc]
  /\ Waits("RUNWAIT", csp_runbuild(b))
  /\ UNCHANGED <<type, childQ, parent, num_childs, curr_build, parsing, ended>>

-----------------------------------------------------------------------------
(* proc_free and csp_parsebuild *)

\* proc_free unlinks the PROC (SwitchEnded, TeardownFree) and hands its
\* ProcBuild, if it has one, to csp_parsebuild.
StartFree ==
  /\ SwitchEnded \/ TeardownFree
  /\ parsing' = IF type[freeing'] = "FREE" THEN NULL ELSE freeing'
  /\ UNCHANGED <<type, childQ, parent, num_childs, curr_build, is_root,
                 run_proc, ended>>

\* Mutant: an off-by-one on the last child.
DoneEarly(b) == type[b] = "PROC_BUILD" \/ num_childs[b] <= 2

\* A PROC_BUILD is done; a PAR or SEQ when it counts its last child.
BuildDone(b) == type[b] = "PROC_BUILD" \/ num_childs[b] = 1

\* Mutants: only a PAR counts; a missing break lets a PROC_BUILD count as well.
CountsParOnly(b) ==
  /\ num_childs' = IF type[b] = "PAR_BUILD" THEN [num_childs EXCEPT ![b] = @ - 1]
                   ELSE num_childs
  /\ ended' = IF type[b] = "PROC_BUILD" THEN ended \cup {b} ELSE ended
CountsProcs(b) ==
  /\ num_childs' = [num_childs EXCEPT ![b] = @ - 1]
  /\ ended' = IF type[b] = "PROC_BUILD" THEN ended \cup {b} ELSE ended

\* The counters after csp_parsebuild has been called on b.
Counted(b) ==
  /\ num_childs' = IF type[b] = "PROC_BUILD" THEN num_childs
                   ELSE [num_childs EXCEPT ![b] = @ - 1]
  /\ ended' = IF type[b] = "PROC_BUILD" THEN ended \cup {b} ELSE ended

\* A PAR that still has running children.
ParsePar(b) ==
  /\ type[b] = "PAR_BUILD"
  /\ ~BuildDone(b)
  /\ Counted(b)
  /\ parsing' = NULL
  /\ UNCHANGED <<schedVars, type, childQ, parent, curr_build, is_root, run_proc>>

\* Mutant: the current child again.
SameChild(b) == curr_build[b]

\* TAILQ_NEXT of a SEQ's current child.
NextChild(b) ==
  LET i == CHOOSE j \in DOMAIN childQ[b] : childQ[b][j] = curr_build[b]
  IN  childQ[b][i + 1]

\* A SEQ starts its next child.
ParseSeq(b) ==
  /\ type[b] = "SEQ_BUILD"
  /\ ~BuildDone(b)
  /\ Counted(b)
  /\ Readies(csp_runbuild(NextChild(b)))
  /\ curr_build' = [curr_build EXCEPT ![b] = NextChild(b)]
  /\ parsing' = NULL
  /\ UNCHANGED <<type, childQ, parent, is_root, run_proc>>

\* A complete builder below the root: on to its parent.  A builder that was
\* never run has none, and the ASSERT of csp_parsebuild stops the program (in
\* an NDEBUG build the read through NULL after it does).
ParseUp(b) ==
  /\ BuildDone(b)
  /\ ~is_root[b]
  /\ Counted(b)
  /\ parsing' = parent[b]
  /\ IF parent[b] = NULL
     THEN /\ pc' = "abort"
          /\ UNCHANGED <<state, curr_proc, totalQ, readyQ, sleepRB, sleep_us,
                         is_exit, freeing, clock, now_us, started, due>>
     ELSE UNCHANGED schedVars
  /\ UNCHANGED <<type, childQ, parent, curr_build, is_root, run_proc>>

\* Mutant: nobody is woken.
WakesNobody(b) == UNCHANGED schedVars

\* The PROC in RUN, if there is one, is made ready.
WakesRunner(b) ==
  IF run_proc[b] = NULL THEN UNCHANGED schedVars ELSE Readies(<<run_proc[b]>>)

\* The root is complete: wake the PROC in RUN and free the tree.
ParseRoot(b) ==
  LET gone == csp_cleanupbuild(b) IN
  /\ BuildDone(b)
  /\ is_root[b]
  /\ WakesRunner(b)
  /\ type' = [x \in Build |-> IF x \in gone THEN "FREE" ELSE type[x]]
  /\ childQ' = [x \in Build |-> IF x \in gone THEN <<>> ELSE childQ[x]]
  /\ parent' = [x \in Build |-> IF x \in gone THEN NULL ELSE parent[x]]
  /\ num_childs' = [x \in Build |-> IF x \in gone THEN 0 ELSE num_childs[x]]
  /\ curr_build' = [x \in Build |-> IF x \in gone THEN NULL ELSE curr_build[x]]
  /\ is_root' = [is_root EXCEPT ![b] = FALSE]
  /\ run_proc' = [run_proc EXCEPT ![b] = NULL]
  /\ ended' = ended \ gone
  /\ parsing' = NULL

csp_parsebuild ==
  /\ pc \in {"free", "tfree"}
  /\ parsing # NULL
  /\ \/ ParsePar(parsing)
     \/ ParseSeq(parsing)
     \/ ParseUp(parsing)
     \/ ParseRoot(parsing)

\* proc_free is done.
EndFree == parsing = NULL /\ FreeDone /\ UNCHANGED cspVars

-----------------------------------------------------------------------------
(* Specification *)

\* Steps that leave builders alone.
CspOtherStep ==
  /\ \/ Yield
     \/ End
     \/ Exit
     \/ CheckQs({})
     \/ WakeDone
     \/ Dispatch
     \/ Continue
     \/ SwitchReady
     \/ SwitchWait
     \/ LoopExit
     \/ TeardownEnd
     \/ Terminated
  /\ UNCHANGED cspVars

CspNext ==
  \/ \E p \in Proc : proxc_proc(p)
  \/ \E b \in Comp, t \in {"PAR_BUILD", "SEQ_BUILD"} :
       \E s \in SetToAllKPermutations({x \in Build : Loose(x)}) \ {<<>>} :
         proxc_comp(b, t, s)
  \/ \E b \in Build : proxc_go(b) \/ proxc_run(b)
  \/ StartFree
  \/ csp_parsebuild
  \/ EndFree
  \/ CspOtherStep

CspSpec == SchedInit /\ CspInit /\ [][CspNext]_<<schedVars, cspVars>>

-----------------------------------------------------------------------------
(* Properties *)

\* Every variable has its type.
CspTypeOK ==
  /\ type \in [Build -> {"FREE", "PROC_BUILD", "PAR_BUILD", "SEQ_BUILD"}]
  /\ childQ \in [Build -> Seq(Build)]
  /\ parent \in [Build -> Build \cup {NULL}]
  /\ num_childs \in [Build -> Nat]
  /\ curr_build \in [Build -> Build \cup {NULL}]
  /\ is_root \in [Build -> BOOLEAN]
  /\ run_proc \in [Build -> Proc \cup {NULL}]
  /\ parsing \in Build \cup {NULL}
  /\ ended \subseteq Proc

\* The leaves of the tree at b, and the trees that RUN and GO have started.
Leaves(b) == csp_cleanupbuild(b) \cap Proc
Roots == {b \in Build : is_root[b]}

\* All PROCs of the tree at b have ended.
Complete(b) == Leaves(b) \subseteq ended

\* What PAR and SEQ mean: the leaves that may have started are all those of a
\* PAR's children, and those of a SEQ's child once the children before it are
\* complete.
Due(b) ==
  LET d[x \in Build] ==
        IF type[x] = "PROC_BUILD" THEN {x}
        ELSE UNION {d[childQ[x][i]] :
                      i \in {j \in DOMAIN childQ[x] :
                              type[x] = "SEQ_BUILD" =>
                                \A k \in 1..j - 1 : Complete(childQ[x][k])}}
  IN  d[b]

\* The scheduler is between two calls of csp_parsebuild.
Settled == Live /\ parsing = NULL

\* csp_runbuild and csp_parsebuild start exactly the PROCs that PAR and SEQ ask
\* for: none too early, none forgotten, at any nesting.
StartsWhatIsDue ==
  Settled => \A b \in Roots : Leaves(b) \cap (started \cup ended) = Due(b)

\* The counters that decide completion are right: num_childs is the number of
\* children that are not complete.
CountsChildren ==
  Settled =>
    \A r \in Roots : \A b \in csp_cleanupbuild(r) \ Proc :
      num_childs[b] =
        Cardinality({i \in DOMAIN childQ[b] : ~Complete(childQ[b][i])})

\* RUN returns when its tree is complete and not before: a PROC waits in RUN as
\* long as exactly one unfinished tree names it.
JoinsItsTree ==
  Settled => \A p \in Proc :
    /\ Cardinality({b \in Roots : run_proc[b] = p}) = IF state[p] = "RUNWAIT" THEN 1 ELSE 0
    /\ \A b \in Roots : run_proc[b] = p => ~Complete(b)

\* Builders are freed with their whole tree: no child outlives its parent, so
\* that csp_parsebuild never climbs into freed memory.
ParentsAllocated ==
  \A b \in Build : /\ type[b] # "FREE" /\ parent[b] # NULL => type[parent[b]] # "FREE"
                   /\ Live /\ b \in Proc \ {Main} /\ state[b] # "FREE" /\ b # freeing
                        => type[b] # "FREE"

\* Waking PROCs meets the scheduler's preconditions while scheduler_run runs.
CspKeepsScheduler == [][Live => SchedNext]_schedVars

\* csp_parsebuild is never called on NULL (its ASSERT), also when scheduler_free
\* frees the PROCs that are left.
NoAbort == pc # "abort"
=============================================================================
