----------------------------- MODULE IssueWindow -----------------------------
(***************************************************************************)
(* tools/issue_window_experiment.py: the trace-replay estimate of an issue *)
(* window.  The tool replays a committed instruction stream under one of   *)
(* two selection policies:                                                 *)
(*                                                                         *)
(*   strict   the oldest unissued prefix, cut at the first instruction     *)
(*            that is not ready;                                           *)
(*   window   the widest oldest-first group of ready instructions.         *)
(*                                                                         *)
(* One turn of the replay loop is the three actions IwDrain, IwAdmit and   *)
(* IwIssue, in that order.  Instructions are numbered from 1; the arrays   *)
(* "admitted" and "retired" of the code are always the prefixes below      *)
(* iwNextAdmit and iwRetireHead, and its counters that only feed the       *)
(* printed report (full, idle and skipped cycles) are left out.            *)
(***************************************************************************)
EXTENDS Naturals, Sequences, FiniteSets, FiniteSetsExt

CONSTANTS
    IwInstrs,        \* the dynamic instructions a trace is made of
    IwLength,        \* instructions in a trace
    IwConfigs,       \* the schedule() calls explored: policy, capacity, feed, free
    IssueWidth,      \* admissions, issues and retirements per cycle (3 in the code)
    MemLimit,        \* memory operations in flight (3 in the code)
    NoReg            \* the destination of an instruction that writes none

Kinds == {"alu", "mul", "load", "store", "branch", "jump", "system"}

\* A DynamicInstruction: rel is its release cycle, srcs the non-zero source
\* registers it uses.
InstrType == [kind: Kinds, lat: Nat \ {0}, srcs: SUBSET Nat,
              rd: Nat \cup {NoReg}, rel: Nat]
ConfigType == [policy: {"strict", "window"}, capacity: Nat, pausable: BOOLEAN,
               freeBranches: BOOLEAN, freeJumps: BOOLEAN]

ASSUME IssueWindowAssumption ==
    /\ IwInstrs \subseteq InstrType
    /\ IwConfigs \subseteq ConfigType
    /\ IwLength \in Nat \ {0}
    /\ IssueWidth \in Nat \ {0}
    /\ MemLimit \in Nat \ {0}

VARIABLES
    iwPhase,         \* which third of the loop body runs next
    iwProg,          \* the committed stream
    iwConfig,        \* the arguments of schedule()
    iwNextAdmit,     \* next_admit
    iwRetireHead,    \* retire_head
    iwIssued,        \* issued
    iwCompleted,     \* completed
    iwFinish,        \* completion_heap: when each instruction in flight completes
    iwMemActive,     \* mem_active
    iwCycle,         \* cycle
    iwFeedClock,     \* feed_clock
    iwSlots          \* issue_slots

iwVars == <<iwPhase, iwProg, iwConfig, iwNextAdmit, iwRetireHead, iwIssued,
            iwCompleted, iwFinish, iwMemActive, iwCycle, iwFeedClock, iwSlots>>

Count == Len(iwProg)
Index == 1 .. Count
------------------------------------------------------------------------------
(* The properties of DynamicInstruction. *)

IsMem(i) == iwProg[i].kind \in {"load", "store"}
IsStore(i) == iwProg[i].kind = "store"
IsHard(i) == iwProg[i].kind \in {"branch", "jump", "system"}
IsPersistentHard(i) == iwProg[i].kind \in {"jump", "system"}

PipeOptions(i) ==
    CASE IsMem(i) -> {2}
      [] IsHard(i) -> {0}
      [] iwProg[i].kind = "mul" -> {1}
      [] OTHER -> {0, 1}

\* A control transfer the performance-bound mode completes on admission.
IsFreeControl(i) ==
    \/ iwConfig.freeBranches /\ iwProg[i].kind = "branch"
    \/ iwConfig.freeJumps /\ iwProg[i].kind = "jump"

(* What load_trace derives from the committed order. *)

\* The youngest older instruction that writes register r.
Producers(i, r) == {j \in 1 .. i - 1 : iwProg[j].rd = r}
Deps(i) == {j \in 1 .. i - 1 : /\ iwProg[j].rd \in iwProg[i].srcs
                               /\ j = Max(Producers(i, iwProg[j].rd))}

OlderMems(i) == {j \in 1 .. i - 1 : IsMem(j)}
\* previous_mem, as a set: empty for the first memory operation.
PreviousMem(i) == IF IsMem(i) /\ OlderMems(i) # {} THEN {Max(OlderMems(i))} ELSE {}

\* monotonic_release: the running maximum of the release cycles.
Release(i) == Max({iwProg[j].rel : j \in 1 .. i})
StartCycle == Release(1)
------------------------------------------------------------------------------
(* Selection. *)

Window == iwRetireHead .. iwNextAdmit - 1

\* Mutant: the limit of memory operations in flight is not looked at.
ReadyAnySlot(i) ==
    /\ Deps(i) \subseteq iwCompleted
    /\ PreviousMem(i) \subseteq iwIssued
    /\ IsPersistentHard(i) => i = iwRetireHead

Ready(i) ==
    /\ Deps(i) \subseteq iwCompleted
    /\ PreviousMem(i) \subseteq iwIssued
    /\ IsMem(i) => iwMemActive < MemLimit
    /\ IsPersistentHard(i) => i = iwRetireHead

\* Mutant: the youngest barrier cuts the window off.
BarrierCutoffYoungest ==
    LET barriers == {i \in Window : IsPersistentHard(i)}
    IN  IF barriers # {} THEN Max(barriers) ELSE iwNextAdmit - 1

\* The oldest unretired jump, system operation or fence, else the youngest entry.
BarrierCutoff ==
    LET barriers == {i \in Window : IsPersistentHard(i)}
    IN  IF barriers # {} THEN Min(barriers) ELSE iwNextAdmit - 1

Unissued ==
    LET cutoff == BarrierCutoff IN {i \in Window \ iwIssued : i <= cutoff}

\* pipe_assignment finds distinct pipes for the whole group.
Assignable(group) ==
    \E pipe \in [group -> 0 .. 2] :
        /\ \A i \in group : pipe[i] \in PipeOptions(i)
        /\ \A i, j \in group : pipe[i] = pipe[j] => i = j

\* No instruction of the group is younger than a hard one of it.
HardEndsGroup(group) == \A i, j \in group : IsHard(i) => j <= i

\* The first IssueWidth unissued instructions up to the first that is not ready,
\* or through the first hard one; and its prefixes that fit the pipes.
StrictGroups(unissued) ==
    LET candidates ==
            {i \in unissued :
                /\ Cardinality({j \in unissued : j <= i}) <= IssueWidth
                /\ \A j \in unissued : j <= i => Ready(j)
                /\ \A j \in unissued : j < i => ~IsHard(j)}
    IN  {g \in SUBSET candidates :
            /\ \A i \in g, j \in candidates : j < i => j \in g
            /\ Assignable(g)}

WindowGroups(unissued) ==
    {g \in SUBSET {i \in unissued : Ready(i)} :
        Cardinality(g) <= IssueWidth /\ HardEndsGroup(g) /\ Assignable(g)}

\* The order in which itertools.combinations yields groups of one width.
OlderGroup(g, h) ==
    LET differ == (g \ h) \cup (h \ g) IN differ = {} \/ Min(differ) \in g

\* choose(): the widest group, the oldest of them when several are as wide.
Choose ==
    LET unissued == Unissued
        groups == IF iwConfig.policy = "strict" THEN StrictGroups(unissued)
                                                ELSE WindowGroups(unissued)
        width == Max({Cardinality(g) : g \in groups})
        widest == {g \in groups : Cardinality(g) = width}
    IN  CHOOSE g \in widest : \A h \in widest : OlderGroup(g, h)
------------------------------------------------------------------------------
(* The replay loop. *)

IwInit ==
    /\ iwPhase = "idle"
    /\ iwProg = <<>>
    /\ iwConfig = [policy |-> "strict", capacity |-> 0, pausable |-> FALSE,
                   freeBranches |-> FALSE, freeJumps |-> FALSE]
    /\ iwNextAdmit = 1 /\ iwRetireHead = 1
    /\ iwIssued = {} /\ iwCompleted = {}
    /\ iwFinish = <<>>
    /\ iwMemActive = 0 /\ iwCycle = 0 /\ iwFeedClock = 0 /\ iwSlots = 0

\* schedule() is called with a trace, its releases and one configuration.
IwSchedule(prog, config) ==
    /\ iwPhase = "idle"
    /\ iwPhase' = "drain"
    /\ iwProg' = prog
    /\ iwConfig' = config
    /\ iwFinish' = [i \in 1 .. Len(prog) |-> 0]
    /\ iwCycle' = prog[1].rel
    /\ iwFeedClock' = prog[1].rel
    /\ UNCHANGED <<iwNextAdmit, iwRetireHead, iwIssued, iwCompleted, iwMemActive, iwSlots>>

\* Retirement of completed instructions, in order, up to the hard group
\* boundary; then the completions due; then the posted store at the head.
RetireTo ==
    Max({h \in iwRetireHead .. iwRetireHead + IssueWidth :
            /\ iwRetireHead .. h - 1 \subseteq iwCompleted
            /\ \A i \in iwRetireHead .. h - 2 : ~IsHard(i) \/ IsFreeControl(i)})

Due == {i \in iwIssued \ iwCompleted : ~IsStore(i) /\ iwFinish[i] <= iwCycle}

\* Mutant: a store is posted only when nothing is behind it in the window.
PostedStoreAlone(head) ==
    {i \in {head} \cap iwIssued : IsStore(i) /\ i \notin iwCompleted /\ i = iwNextAdmit - 1}

PostedStore(head) ==
    {i \in {head} \cap iwIssued : IsStore(i) /\ i \notin iwCompleted}

IwDrain ==
    /\ iwPhase = "drain"
    /\ iwPhase' = "admit"
    /\ iwRetireHead' = RetireTo
    /\ LET finished == Due \cup PostedStore(iwRetireHead')
       IN  /\ iwCompleted' = iwCompleted \cup finished
           /\ iwMemActive' = iwMemActive - Cardinality({i \in finished : IsMem(i)})
    /\ UNCHANGED <<iwProg, iwConfig, iwNextAdmit, iwIssued, iwFinish, iwCycle,
                   iwFeedClock, iwSlots>>

\* Admission of released instructions while the window has room.  A free
\* control transfer is issued and completed as it enters.
AdmitTo ==
    Max({n \in iwNextAdmit .. iwNextAdmit + IssueWidth :
            \A j \in iwNextAdmit .. n - 1 :
                /\ j \in Index
                /\ j - iwRetireHead < iwConfig.capacity
                /\ Release(j) <= iwFeedClock})

IwAdmit ==
    /\ iwPhase = "admit"
    /\ iwPhase' = "issue"
    /\ iwNextAdmit' = AdmitTo
    /\ LET free == {j \in iwNextAdmit .. AdmitTo - 1 : IsFreeControl(j)}
       IN  /\ iwIssued' = iwIssued \cup free
           /\ iwCompleted' = iwCompleted \cup free
    /\ UNCHANGED <<iwProg, iwConfig, iwRetireHead, iwFinish, iwMemActive, iwCycle,
                   iwFeedClock, iwSlots>>

FeedBlocked ==
    /\ iwNextAdmit \in Index
    /\ Release(iwNextAdmit) <= iwFeedClock
    /\ iwNextAdmit - iwRetireHead >= iwConfig.capacity

\* The turn limit of the loop: 10 cycles per instruction.
NoProgress == iwCycle + 1 - StartCycle > 10 * Count

\* Selection and issue, then the end of the loop body.
IwIssue ==
    /\ iwPhase = "issue"
    /\ LET group == Choose
       IN  /\ iwIssued' = iwIssued \cup group
           /\ iwFinish' = [i \in Index |-> IF i \in group THEN iwCycle + iwProg[i].lat
                                           ELSE iwFinish[i]]
           /\ iwMemActive' = iwMemActive + Cardinality({i \in group : IsMem(i)})
           /\ iwSlots' = iwSlots + Cardinality(group)
    /\ iwFeedClock' = IF iwConfig.pausable /\ FeedBlocked THEN iwFeedClock ELSE iwFeedClock + 1
    /\ iwCycle' = iwCycle + 1
    /\ iwPhase' = IF NoProgress THEN "no progress"
                  ELSE IF iwRetireHead > Count THEN "done" ELSE "drain"
    /\ UNCHANGED <<iwProg, iwConfig, iwNextAdmit, iwRetireHead, iwCompleted>>

IwNext ==
    \/ \E prog \in [1 .. IwLength -> IwInstrs], config \in IwConfigs : IwSchedule(prog, config)
    \/ IwDrain
    \/ IwAdmit
    \/ IwIssue

IwSpec == IwInit /\ [][IwNext]_iwVars
------------------------------------------------------------------------------
(* Properties. *)

\* "program-ordered MEM issue, ordered stores, hard-order operations" (the
\* tool's docstring), whatever the policy selects: no memory operation issues
\* before an older one; no store completes before everything older has retired;
\* nothing that consumes an issue slot passes an unretired jump or fence; and an
\* instruction completes no earlier than its latency after everything it reads,
\* so no policy finishes a stream faster than its longest dependence chain.
\* Underneath, mem_active counts the memory operations issued and not completed
\* and stays within the limit, although loads leave by the heap, stores at the head.
IwProgramOrder ==
    /\ iwMemActive = Cardinality({i \in iwIssued \ iwCompleted : IsMem(i)})
    /\ iwMemActive <= MemLimit
    /\ \A i, j \in Index : i < j /\ IsMem(i) /\ IsMem(j) /\ j \in iwIssued => i \in iwIssued
    /\ \A i \in iwCompleted : IsStore(i) => i <= iwRetireHead
    /\ \A i \in Index, j \in iwIssued :
           IsPersistentHard(i) /\ i < j /\ ~IsFreeControl(j) => i < iwRetireHead
    /\ \A i \in iwIssued : ~IsFreeControl(i) =>
           /\ Deps(i) \subseteq iwCompleted
           /\ \A j \in Deps(i) : ~IsFreeControl(j) =>
                  iwFinish[i] >= iwFinish[j] + iwProg[i].lat

\* The loop always ends, with every instruction retired and each of them issued
\* through exactly one slot or free: no stream of short latencies and releases
\* is left waiting (a store for the head, a memory operation for a slot, a jump
\* for the window to empty) until the turn limit raises "no terminating progress".
IwAllRetire ==
    /\ iwPhase # "no progress"
    /\ iwPhase = "done" =>
           /\ iwCompleted = Index
           /\ iwSlots = Cardinality({i \in Index : ~IsFreeControl(i)})
=============================================================================
