# A TLA+ model of libproxc

libproxc is a CSP library for C: PROCs (stackful coroutines) on one pthread,
channels, ALT, and PAR/SEQ trees run by RUN or GO. This directory models it in
TLA+, checks the models with TLC and proves what matters most about the
scheduler, channels, ALT, builders, queues, the context switch and whole programs with
TLAPS. Paths such as `src/src/chan.c` are paths of the repository; `PROJECT.json` maps
every definition to the lines it translates.

## The system

| Part | State | Operations | Interacts with |
|---|---|---|---|
| Scheduler loop (`scheduler.c`) | `totalQ`, `readyQ`, `sleep.RB`, `altsleep.RB`, `curr_proc`, `main_proc`, `is_exit` | `scheduler_run`, `_scheduler_checkQs`, `_scheduler_wakeup`, `scheduler_addready`, `scheduler_addsleep`/`remsleep`, `scheduler_addaltsleep`/`remaltsleep`, `scheduler_free` | switches to PROCs; wakes ALTs (`alt_accept`); frees PROCs (`proc_free`) |
| PROC (`proc.c`, `proxc.c`) | `state`, `sleep_us`, `proc_build`, stack, args | `proc_create`, `proc_mainfxn`, `proc_yield`, `proc_free`; YIELD, SLEEP, EXIT, ARGN | gives the pthread back by `proc_yield`; `proc_free` calls `csp_parsebuild` |
| Timer trees (`util/tree.h`) | red-black links and colours inside `Proc` and `Guard` | `RB_INSERT`, `RB_REMOVE`, `RB_MIN` | keys are wake-up times, made unique by the caller |
| Queues (`util/queue.h`) | TAILQ links inside the structs | insert at the tail, remove, first, next | every queue of the library |
| Channels (`chan.c`) | `endQ` (waiting writers or readers), `altQ` (guards of waiting ALTs) | `chan_write`, `chan_read`, `chan_altenable`, `chan_altdisable`, `chan_altread`, create, free | a partner copies the value and calls `scheduler_addready` |
| ALT (`alt.c`) | guards, `is_accepted`, `winner`, ready list | `alt_addguard`, `alt_enable`, `alt_choose`, `alt_accept`, `alt_disable`, `alt_complete`, `alt_cleanup` | links guards into `altQ` and `altsleep.RB`; woken by a writer or a timeout |
| Builders (`csp.c`, `proxc.c`) | trees of `ProcBuild`, `ParBuild`, `SeqBuild`: `parent`, `childQ`, `num_childs`, `curr_build`, `is_root`, `run_proc` | PROC, PAR, SEQ, RUN, GO; `csp_runbuild`, `csp_parsebuild`, `csp_cleanupbuild` | start PROCs by `scheduler_addready`; called from `proc_free` |
| Context switch (`context.c`) | saved registers, stacks, `stack.used` | `ctx_init`, `ctx_switch`, `ctx_madvise` | the scheduler and one PROC alternate; called by `proc_create`, `proc_yield`, `scheduler_run` |

Nothing is preemptive: a PROC runs until it calls `proc_yield`. What is hard is
that every wait is ended by somebody else. A PROC that waits is linked in some
queue or tree, and the partner, the clock or the last PROC of a tree must unlink
it, hand over what it waits for and make it ready, exactly once, whatever
happened to other PROCs between the two. `scheduler_addready` checks nothing, so
one wrong wake-up corrupts `readyQ`. What makes each part correct:

* scheduler: no PROC is lost or linked twice; sleepers wake and never early;
  ready PROCs run;
* timer trees: they behave as sets of timers and stay balanced;
* channels and ALT: a value written is received once, by a partner on the same
  channel; nobody waits next to a partner; an ALT is accepted once, its guards
  are unlinked before they are freed, its timeout fires;
* builders: PAR and SEQ start what is due and nothing else, RUN returns when its
  tree is complete and not before, no builder is used after it is freed;
* queues: the pointer surgery behaves as sequences, over memory that is reused;
* context switch: a PROC finds registers and stack as it left them, starts where
  it should, and gets its arguments;
* all of them together: a program ends or stops in a deadlock of its own, and what
  is freed is linked nowhere.

`hazards` in `PROJECT.json` lists where each of these can go wrong, with the
properties that would show it.

## Modules

```
 abstract     TimerSet            Rendezvous             Lists    Coroutines
                 ^                  ^     ^                ^          ^
 detailed     SleepTree - RBTree  Chan <- Alt - RBTree   TailQ     Context
                                    |       ^
              Scheduler <-----------+       |
                  ^                       Proxc
                  +--------- Csp <----------+
```

`^` above a detailed module: implements (`INSTANCE ... WITH`); `Chan <- Alt`, and the
arrows below: extends. `Proxc` extends `Alt` and `Csp`.

**Scheduler** (`scheduler.c`, `proc.c`, YIELD/SLEEP/EXIT/GO of `proxc.c`). `pc` is
where the one pthread is: in the code of `curr_proc`, or at a point of
`scheduler_run` or `scheduler_free`. One action is one library call up to its
`proc_yield`, or one step of the loop. What a PROC calls next is arbitrary.
`readyQ` and `totalQ` are sequences, `sleepRB` is the set of linked sleepers
with their keys `sleep_us`. `clock` is what `gettimestamp()` returns, `now_us` the
local variable of `_scheduler_wakeup`. Time stamps are taken modulo `TimeMod` (2^64).
`started` and `due` are history variables: PROCs made ready since their creation,
and the time each sleeper asked for (not reduced modulo `TimeMod`). `Waits`, `Readies` and `Create` are
what the other modules use; `AddReady` and `RunWait` state the preconditions
`scheduler_addready` silently relies on (different PROCs, all parked). The theorem
about the scheduler holds for every client that meets them, and each
client is checked to do so (`KeepsScheduler`).

**RBTree** (`util/tree.h`). The red-black tree at pointer level as operators on a record of
links and colours. A mirrored pair of branches in C is one definition with the
side as a parameter. The loops are bounded by the number of nodes.

**SleepTree**, **TimerSet**. One timer tree driven by `scheduler_addsleep`,
`scheduler_remsleep` and `RB_MIN`, and the set of timers it implements. `Scheduler`
uses the level of `TimerSet`; `Alt` uses `RBTree` itself, because `alt_disable`
may remove a node that is not in the tree and what then happens is in the links.

**Chan**, **Rendezvous** (`chan.c`). `endQ` as sequences of ends; the buffer a
PROC's channel operation points to is `data`. `Rendezvous` has no queues: a send
and a receive meet, or one of them waits, allowed only while no partner waits.

**Alt** (`alt.c`, the ALT side of `chan.c`, `altsleep.RB`). An Alt and its one
effective time guard are identified with the PROC. `AltChoose` (a guard is ready) and
`AltWait` (none is) are `alt_select` up to its `proc_yield`; `WriteToAlt` and
`WakeGuard` accept; `AltResume` disables and frees. The random choice among
ready guards is nondeterministic.

**Csp** (`csp.c`). A `ProcBuild` is identified with its PROC. `csp_parsebuild`
climbs by one builder per step; the pthread does nothing else meanwhile.

**Proxc** (`proxc.c`, the whole public interface) composes `Alt` and `Csp` on one
scheduler: the same PROC is an end of a channel, a leaf of a tree and a sleeper.
It adds CHOPEN and CHCLOSE, a clock that may be set back and a `usleep` that may
return early. A program makes any calls in any order, within what `Uses` allows
each PROC and a number of calls (`MaxCalls`); after that it can only end.

Any PROC may close any open channel at any time: `chan_free` has no conditions. When other
PROCs have started and not ended, all PROCs but the closer may still hold the pointer (`users`),
and those that wait on the channel stay linked in it. A call of theirs on the closed
channel, or the `alt_disable` of one that comes back from its wait in ALT, uses freed memory
(`UseClosed`); the model ends there (`broken`). The history `closing` says whether a closer
has left such PROCs behind (`"hasty"`: it is not the main PROC, or GO was used, so it has not
joined them) and has then given up the processor while the program goes on (`"careless"`). All
programs of `src/test` that close channels are hasty: they close channels whose users they
started by GO and never joined (`alt_demo.c:72`, `chan_any2any.c:53`, `chan_any2one.c:45`,
`commstime.c:79`, `sieve.c:53`). None is careless: the main PROC returns right after closing.
A channel of the model is not an address: it comes back from CHOPEN only when nobody may hold
the old pointer. A closer that goes on to use what it has closed is not modelled.

**TailQ**, **Lists** (`util/queue.h`). Heads and links as cells of two words, because
`TAILQ_LAST` and `TAILQ_PREV` read a link as if it were a head. Memory that is not in
use holds garbage. `Lists` is what the other modules assume: sequences.

**Context**, **Coroutines** (`context.c` for x86-64, `proc_setargs`, `proxc_argn`).
Stacks of words, the registers of the processor, and what `ctx_switch` saves and loads,
word by word; `ctx_madvise` replaces discarded pages by garbage. rbx stands
for all callee-saved registers that are treated alike; rdi and the return address
are treated as the assembly does. `Coroutines` is what the other modules assume:
everybody has a machine of their own, and a switch changes only who is running.

The theorems about a module `M` are in `MProofs`, those about `Chan` in `AltProofs`; **Loops**
has the facts about loops that several of them use. **MC...** modules only add symmetry sets
and inputs for TLC. Definitions commented `Mutant:` are deliberate
errors; no specification uses them. `PROJECT.json` lists the property each of them breaks.

## Runs

| Run | Instance | Checks |
|---|---|---|
| `scheduler` | 3 PROCs, clock 0..3, `TimeMod` 4, delays 1 and 4 | `Placement`: while the loop runs, the queues partition the PROCs. `SleepNotEarly`, `ReadyRuns`, `SleeperWakes` |
| `timer_tree` | 7 timers, colliding in pairs | `LinksAgree`, `Ordered`, `Balanced`, `ImplementsTimerSet` |
| `channels` | 3 PROCs, 2 channels, 2 values | `EndQSound`, `KeepsScheduler`, `ImplementsRendezvous` |
| `alt` | 3 PROCs, 2 channels, one PROC with ALTs of all guard types, clock 0..2 | the above and `AltQSound`, `WokenByAccept`, `TimerArmed`, `TimersAllocated`, `AltImplementsRendezvous`, `TimeoutFires` |
| `csp` | 4 PROCs, 2 PAR/SEQ | `StartsWhatIsDue`, `CountsChildren`, `JoinsItsTree`, `ParentsAllocated`, `CspKeepsScheduler` |
| `program` | 3 PROCs, 1 channel, 1 PAR/SEQ, clock 0..2, one set-back | `OnlyProgramsDeadlock`, `ClosedUnused`, `FreedUnlinked`, `ProxcKeepsScheduler`, `ComesToRest` |
| `tailq` | 3 elements, 2 queues | `LinksValid`, `WalksAgree`, `ImplementsLists` |
| `context` | 2 PROCs, stacks of 8 words, pages of 2, argument chunks of 2 | `OverflowStops`, `ArgsArrive`, `ImplementsCoroutines`, `EntersMain` |

The first, third, fourth and fifth run also check the type invariant of their module; `LinksAgree` includes that of the tree.

`program` answers what the runs of the parts cannot. `OnlyProgramsDeadlock`: when the
scheduler has nothing left to do, each PROC waits for a partner nobody offers to be,
or in RUN for such a PROC, so no wake-up was lost between components. `ComesToRest`: every program
of finitely many calls gets there, or ends, also when the clock is set back under its timers.
`FreedUnlinked`: what `proc_free` gives back, nobody links to. `ClosedUnused`: what `chan_free` gives
back has empty queues when RUN has joined its users, and is used by nobody, even with users
ready to call or waiting in ALT on it, unless a closer was careless: after the main PROC has returned,
or EXIT, `scheduler_run` resumes no PROC, and `scheduler_free` touches no channel. Careless closers
do reach `broken` in this run.

Four runs show disagreements of the code with what it says of itself. Each
expects TLC to find the violation:

* `two_timers`: `alt_disable` (`src/src/alt.c:164`) removes the time guard from the
  tree although the timeout has already removed it. If another ALT has
  armed its timer in between, the second removal empties the tree, and that ALT
  never times out.
* `two_alts`: `chan_write` (`src/src/chan.c:61`) tries only the first guard of
  `altQ`. With two ALTs on a channel, a writer that comes while the first is
  accepted and has not run yet queues up next to the second, which waits.
* `lower_time_guard`: `alt_addguard` (`src/src/alt.c:108`) frees a time guard that stays
  linked in `guards.Q`, when a later time guard is lower.
* `unused_build`: a PROC built and never run makes `csp_parsebuild` follow a
  NULL parent (`src/src/csp.c:193`) when the scheduler is freed.

The passing run `alt` therefore has one PROC that uses ALT, whose time guards come
once per call: with more, `two_timers` and `two_alts` are what happens. `program` has one
ALT user for the same reason. Its main PROC may leave builders unrun, which ends as in
`unused_build`, in the teardown; the invariants of `program` are about the time before (`Live`).

### Bounds

* Three PROCs give every pair of roles among waiting, waking and a bystander; four in
  `csp` give trees with three leaves under two composites: PAR in SEQ, SEQ in PAR, SEQ in SEQ.
* Seven nodes reach every case of the red-black rebalancing (a red sibling with
  black children needs five). Keys that collide in pairs exercise the increment.
* In `scheduler`, `TimeMod` 4 with a delay of 4 wraps keys around; `MaxTries` 2 is
  enough for two other sleepers. `Sleep` asks for times whose key is within `MaxTime`.
  For `MaxTries` the 1000 of the code, three PROCs never run out.
* Time guards lie within the clock's range (`InTime`), and those of one ALT call read
  the clock in one tick.
* `program`: the main PROC makes 6 calls (open, two PROCs, a PAR or SEQ, RUN or GO,
  close), one PROC makes two, the other one: enough to communicate, time out and be joined, and for
  GO, close and then RUN of another PROC, which is careless. Roles keep it small: the main PROC
  builds and closes, the others communicate, use ALT and sleep, and one of them closes too.
* `tailq`: three elements are a first, a middle and a last; two queues let an element move.
* `context`: four pages per stack, so that a stack can grow and shrink by more than the one page
  `ctx_madvise` keeps; one word below the stack, to overflow by. Argument lists of one chunk
  and of a chunk and a half.
* `Delay` is empty where a run is not about SLEEP.

### Fairness

`SchedFairSpec` and `AltFairSpec`: time passes (weak fairness of `Tick`), and the
pthread takes infinitely many steps unless the program has ended. The operating system
gives both. Nothing is assumed about what PROCs call, except that they
keep calling: a PROC that computes for ever stops everybody in the code too.
`ProxcFairSpec` says the same of programs. The pthread's steps are those that leave the clock
alone; one is possible until the program ends or has used a closed channel, so no fairness per action is needed:
`ComesToRest` holds because calls are finite, not because each kind of step is promised.

## Proofs

The theorems hold for any number of PROCs, channels, values, queues, elements and
words, without the bounds of the runs. Each rests on one inductive invariant.

**SchedulerProofs.** `TypeCorrect` (`SchedTypeOK`), `QueuesPartition` (`Placement`),
`NeverEarly` (`SleepNotEarly`). The last two need `RoomToSleep`: ASSERTs are compiled
in, or `MaxTries + 1` is at least the number of PROCs (and less than 2^64). It cannot
be dropped: in the NDEBUG build `scheduler_addsleep` (`src/src/scheduler.c:144`) gives up
after `MAX_TRIES` (1000) collisions, and the PROC is then in no tree. `NeverEarly` also
needs a clock that never wraps.
`Placement` alone is not inductive: after a call the running PROC is neither queued nor
parked, and a PROC inside `proc_free` is allocated and unlinked. `SInv` therefore says
for each value of `pc` which state `curr_proc` is in (`Where`), which links each state
of a PROC implies (`Fits`), and that the queues are duplicate-free (`Queues`). The one
argument about numbers is `SlotFound`: among the `MaxTries + 1` keys from a wake-up
time on, one is free, since fewer PROCs sleep (pigeonhole). `NeverEarly` adds `Keyed`: a
key is at least the time asked for, and `now_us` is at most the clock.
`AwakeNext`, `SchedNext` without SLEEP, is what the modules below use the scheduler for;
`SInv` is kept by every step of it without `RoomToSleep`.

**AltProofs, channels.** `ChanTypeCorrect` (`ChanTypeOK`), `QueuesSound` (`EndQSound`),
`ChannelsKeepScheduler` (`KeepsScheduler`, and `Placement` again), `ChannelsMeet` (the
refinement of `Rendezvous`). `CInv` is `SInv` with: one queue holds ends of one type
(`OneType`), a PROC has one end at most (`OneEnd`), and it is in PROC_CHANWAIT exactly
while that end is queued (`WaitsQueued`). The last is what makes the PROC at the head
parked, so that waking it is a step the scheduler allows.

**AltProofs, ALT.** `AltTypeCorrect`, `AltQueuesSound` (`AltQSound`), `OneWinner`
(`WokenByAccept`), `TimersUnlinked` (`TimersAllocated`), `TimersInTree` (`TimerArmed`),
`AltsKeepScheduler` (`KeepsScheduler`, with `Placement` and `EndQSound`), `AltsMeet` (the
refinement of `Rendezvous`), for any lists of guards. `AInv` is `CInv` with: altQ holds a
PROC once per guard while it waits (`Linked`), PROC_ALTWAIT is the state of exactly the
ALTs nobody has accepted (`Accepted`), guards come from the lists a PROC may pass
(`FromMenu`), and the altsleep tree is empty or a single node (`OneLeaf`), on which
`RB_INSERT` and `RB_REMOVE` are computed by hand. What the theorems ask of programs is
what the code needs and does not enforce:

* `OneTimer`, one PROC uses time guards: with two, the code corrupts the tree (run `two_timers`);
* `OneAltPerChan`, for `AltsMeet` only: otherwise ALT and writer miss each other (run `two_alts`);
* `NeverDueAtZero`, for `TimersInTree` only: `alt_enable` takes the time 0 for no timer, and a
  time that wraps around to 0 is never armed. `alt` has no such guard; MaxTime + delay < TimeMod there.

**SleepTreeProofs.** `TreeLinksAgree` (`LinksAgree`), `TreeOrdered` (`Ordered`), `TreeBalanced`
(`Balanced`) and `TreeImplementsTimerSet` (the refinement of `TimerSet`), for any finite set of nodes,
any times and any `MaxTries`. The invariant `TreeInv` says that the tree is `Sound` for the nodes
that are linked: for some function `sub` from nodes to their subtrees and some black heights `bh`,

* `Shape`: the links join exactly these nodes, in both directions (`Joints`), `sub` is what lies below each
  node (`Subtrees`), and each subtree is on its side of the node above (`Sorted`);
* `Fits`: the height of a node is that of each of its children, plus one for a black child, and no red
  node has a red child; the root is black.

The heights are what makes the balance inductive: `Balanced` counts black nodes from the root down, which a
rotation changes for whole subtrees, while `bh` changes at two nodes. Inside the operations the tree is not
sound, and `Fits` names where: one side `hs` of a node `hp` may be one black node short, and one node `e`
may be red where it should not be. The argument follows the code:

* each assignment, then `RB_ROTATE`, has a lemma that says what every link is afterwards (`RotateFacts`);
  a rotation keeps `Shape` (`ShapeRotates`) and keeps `Fits` if the links it turns fit where they end (`FitsRotate`);
* `RB_INSERT` descends to the place of the key or to the node that has it (`DescendFinds`, by `Spot`), links a
  red leaf there, which is `Rising`, and each round of `RB_INSERT_COLOR` rises or ends (`InsertColorRound`);
* `RB_REMOVE` takes out a node with one child at most (`ShapeCut`, `FitsCut`), and for one with two
  children puts the successor in its place (`ShapePlaced`, `FitsPlaced`), whose key compares with all others as
  the old one did (`SuccessorFacts`); if a black node is gone the tree is `Short`, and each round of
  `RB_REMOVE_COLOR` moves the gap up or closes it (`RemoveColorRound`);
* both loops end within the number of nodes (`Settles`): a round after which the loop goes on has rotated
  nothing, and moves up to a larger subtree.

`RB_INSERT` then reports a collision if and only if the key is in use (`CollidesFacts`), and `RB_MIN` returns
the earliest node (`MinFacts`), which is what the refinement needs. The scheduler proofs use the timers at the
level of `TimerSet`, so this is the part below them.

**CspProofs.** `CspTypeCorrect`, `BuildersAllocated` (`ParentsAllocated`), `CountersRight`
(`CountsChildren`), `StartsExactlyDue` (`StartsWhatIsDue`), `RunJoins` (`JoinsItsTree`),
`BuildersKeepScheduler` (`CspKeepsScheduler`, with `Placement`), for any builders nested in
any way; nothing is asked of programs beyond children for PAR and SEQ. `BuildInv`
has a part that holds to the end, also in `scheduler_free` (`Built`), and one that holds while
`scheduler_run` runs (`Active`). `Built`: parents and children name each other (`Shape`), there is
no cycle (`Ranked`: some rank falls from parent to child), and the counter of a builder is
the number of its unfinished children, plus one while `csp_parsebuild` is called on it (`Counts`).
`Active`: there is a set of builders that `csp_runbuild` has been called on, closed downwards
through every child of a PAR and the first `Pos` children of a SEQ (`Reaches`); its PROCs are those that
have started, what is finished lies in it, and a SEQ is finished up to its current child
(`Runs`, `InOrder`); the PROCs in RUN are those that a root names (`Joins`); and every RUN is
nested deeper than the PROC that waits in it (`Nested`, used for programs). The properties are about
`csp_runbuild`, `csp_cleanupbuild` and `Due`, which recurse over trees. `TreeRecursion` shows from the rank
that such a recursive definition has a value; `FromLeaves` and `FromRoots` are induction over trees,
stated for a set of nodes, not for a predicate, so that it can be cited.

**TailQProofs.** `LinksStayValid` (`LinksValid`), `PrevInvertsNext` (the backward macros
undo the forward ones), `WalksAlwaysAgree` (`WalksAgree`) and `QueuesAreLists` (the refinement of
`Lists`). `TInv` adds that `tqe_prev` and `tqh_last` point to the word that points
to the cell (`BackLinks`). What a walk visits has any length, so `QInv` adds for each queue a sequence,
the one `Lists` keeps, whose entries are linked in its order from the head to NULL; the walks
are then shown to visit it, forwards and backwards.

**ContextProofs.** `OverflowsAreCaught` (`OverflowStops`), `StartsInMain` (`EntersMain`),
`SwitchesKeepMachines` (the refinement of `Coroutines`), for any stack size of at least
six words and any page size. `CtxInv` says who runs at each point (`WhoRuns`), that each PROC that does not run
has its frames on its own stack above its saved stack pointer (`OwnStack`), that a new one
has the frame `ctx_init` wrote (`Fresh`), and that no kept stack pointer is below its stack
(`InStack`). `ArgumentsArrive` (`ArgsArrive`) is about the loop of `proc_setargs`: after each
round the chunks written are the list up to there.

**ProxcProofs.** Programs on the whole interface, of any size: `FreedEverywhere` (`FreedUnlinked`),
`ClosedStaysUnused` (`ClosedUnused`), `ProgramsKeepScheduler` (`ProxcKeepsScheduler`, with `Placement`,
`EndQSound`, `AltQSound`, `JoinsItsTree` and `StartsWhatIsDue` again) and `NoDeadlockOfItsOwn`
(`OnlyProgramsDeadlock`). `PInv` is `AInv` and `BuildInv` together, each kept by the steps of the other
component, with what relates them while `scheduler_run` runs: a PROC in ALT has started and
not ended (`InAlt`), without GO every tree has a PROC in RUN (`Joined`), and what is so of closed
channels (`Closes`): whoever is linked in one may still use it (`Held`); nobody may unless one was
closed in haste (`Unhurried`); who has just done so is still running and none of those who may use it, or
`is_exit` is set (`Hurried`); and then no PROC is chosen or runs (`Leaving`).

* A PROC that has ended is in none of the states that a link implies, so what is freed is linked nowhere.
* When the main PROC closes a channel in a program without GO, no other PROC is
  started and not ended (`MainAlone`): somebody would wait for it in RUN, somebody for him, and so on up to
  the main PROC, since levels of RUN only fall (`Nested`). So nobody is left in any queue. Otherwise
  the others are left with the channel (`LinkedOthers`), and none of them can run, so none can use it, before
  the closer gives up the processor with `is_exit` still unset, which is what makes it careless.
* At rest nobody is ready, asleep or armed. A PROC that waits on a channel has its end queued there, and
  the queue of a channel holds ends of one type; a writer is queued only if every ALT that waits there has
  been accepted (`Met`); an ALT that waits has only channel guards, or a timer (`WaitGuards`).

All four assume `OneTimer` and `RoomToSleep` as above, the last one also `OneAltPerChan` and
`NeverDueAtZero`; each is needed for the reason given there.

Where a definition is recursive over a finite range (the loops of `RBTree`, `Subqueue`, the walks
of `TailQ`), the proofs argue with a least counterexample among the naturals instead of an induction theorem.

Only model-checked: liveness and everything under fairness (`ReadyRuns`, `SleeperWakes`,
`TimeoutFires`, `ComesToRest`), which the prover cannot do. The altsleep tree with several timers has no
theorem, since `Alt` breaks it (run `two_timers`).

## Not modelled

* The i386 and ucontext variants of `context.c`: the build uses CTX_IMPL on x86-64.
* The pthread key: `scheduler_self` is one lookup, and its destructor runs after the
  last step of every model. Several pthreads share nothing else.
* Failures of malloc, posix_memalign and realloc; PAR and SEQ without children.
* What a program does after it has used a channel that was closed (`broken` in `Proxc`), and
  a closer that uses its own closed channel.
* Macros of `queue.h` and `tree.h` the library does not use (single lists, STAILQ,
  SPLAY, RB_FIND, RB_NEXT), two thirds of these files.
* The public macros, which add terminators and casts; logging; the example programs.
* `sleep.num` and `altsleep.num`, which nobody reads; `scheduler_remready`, which
  nobody calls; the early return of `_scheduler_wakeup` with two empty trees is
  `WakeDone` without a round.
* Except in `Proxc`, `usleep` ends at the deadline.
* What follows the use of freed memory. The violation runs end where it begins.

## Plan

Done: all components and their composition, and proofs of every safety property that the passing runs
check. Left: failures of allocation, and the pthread key.
