------------------------------ MODULE SynthFlow ------------------------------
(***************************************************************************)
(* The resource flow of synth/: synth/core/parallel_map.py maps the        *)
(* retained modules of a design with concurrent Yosys workers and merges   *)
(* their reports; synth/core/summarize_resources.py turns the merged       *)
(* report into an exclusive area table, and                                *)
(* synth/nangate45/summarize-core-4pf.py into a total and a worst delay.   *)
(*                                                                         *)
(* A design is what the elaboration step leaves on disk: the retained      *)
(* modules in sorted order, the modules each one instantiates, the area    *)
(* and the delay ABC would find for each, and the inferred memories.  A    *)
(* worker's report is the pair of the module it is about and the design it *)
(* was mapped from.  The worker directory keeps its files between          *)
(* invocations and changes of the design.  Areas are integers.             *)
(***************************************************************************)
EXTENDS Naturals, Sequences, FiniteSets, FiniteSetsExt, SequencesExt

CONSTANTS
    SynDesigns,      \* the designs, by name: [mods, kids, area, delay, mems]
    SynLabel,        \* the openrv64_* label of each module's name
    SynCategory,     \* the category of each label, for those that have one
    SynGeometry,     \* banks and bits of the cache arrays, by group
    SynTop,          \* the top module
    SynJobs,         \* values of --jobs
    MAX_JOBS,        \* 32 in the code
    SynInvocations   \* bound: invocations explored

VARIABLES
    synPhase,        \* where the flow is
    synDesign,       \* the design on disk
    synRuns,         \* invocations so far
    synReuse,        \* --reuse-workers
    synWorkers,      \* threads of the pool
    synPending,      \* submitted futures no thread has taken
    synRunning,      \* indices whose Yosys process runs
    synFinished,     \* finished futures as_completed has not yielded: index -> result
    synCancel,       \* the next future the handler cancels
    synDirect,       \* direct: module -> report
    synStat,         \* worker directory: stem -> report
    synLog,          \* worker directory: stem -> module and delay logged (0: none)
    synOut,          \* the merged report on disk
    synTable,        \* resources.json on disk
    synDelay         \* summary.json on disk: the stems of the logs with the worst delay

synVars == <<synPhase, synDesign, synRuns, synReuse, synWorkers, synPending, synRunning,
             synFinished, synCancel, synDirect, synStat, synLog, synOut, synTable, synDelay>>
synFiles == <<synStat, synLog, synOut, synTable, synDelay>>
synPool == <<synReuse, synWorkers, synPending, synRunning, synFinished, synCancel, synDirect>>

Design == SynDesigns[synDesign]
Mods == ToSet(Design.mods)
Kids(d, m) == IF m \in DOMAIN d.kids THEN d.kids[m] ELSE <<>>

\* Mutant: a worker's files carry the label only.
StemByLabel(i) == <<0, SynLabel[Design.mods[i]]>>

\* worker_stem: the index in sorted order and the label of the name.
Stem(i) == <<i, SynLabel[Design.mods[i]]>>

\* A partial function with one more point, and a sum over a sequence.
With(f, x, y) == [z \in DOMAIN f \cup {x} |-> IF z = x THEN y ELSE f[z]]
SumOver(Op(_), seq) == FoldLeft(LAMBDA acc, x : acc + Op(x), 0, seq)

SynInit ==
    /\ synPhase = "start"
    /\ synDesign = CHOOSE d \in DOMAIN SynDesigns : TRUE
    /\ synRuns = 0
    /\ synReuse = FALSE /\ synWorkers = 0
    /\ synPending = {} /\ synRunning = {}
    /\ synFinished = <<>> /\ synCancel = 0 /\ synDirect = <<>>
    /\ synStat = <<>> /\ synLog = <<>>
    /\ synOut = <<>> /\ synTable = <<>> /\ synDelay = {}
------------------------------------------------------------------------------
(* The invocation and the pool. *)

MissingKids == {m \in UNION {ToSet(Kids(Design, k)) : k \in DOMAIN Design.kids} : m \notin Mods}

\* main() of parallel_map up to the submission of one future per module.
SynInvoke(jobs, reuse) ==
    LET limited == IF jobs < MAX_JOBS THEN jobs ELSE MAX_JOBS
        count == Len(Design.mods)
    IN  /\ synPhase = "idle"
        /\ synRuns < SynInvocations
        /\ synRuns' = synRuns + 1
        /\ synReuse' = reuse
        /\ synPhase' = IF MissingKids # {} THEN "failed" ELSE "mapping"
        /\ synWorkers' = IF limited < count THEN limited ELSE count
        /\ synPending' = IF MissingKids # {} THEN {} ELSE 1 .. count
        /\ UNCHANGED <<synDesign, synRunning, synFinished, synCancel, synDirect, synFiles>>

PoolActive == synPhase \in {"mapping", "cancelling", "draining"}

\* A free thread takes the oldest future: run_worker up to the start of Yosys,
\* or to its end when a report is reused.
SynTake ==
    /\ PoolActive
    /\ synPending # {}
    /\ Cardinality(synRunning) < synWorkers
    /\ LET i == Min(synPending)
           reused == synReuse /\ Stem(i) \in DOMAIN synStat
           result == IF synStat[Stem(i)].mod = Design.mods[i]
                     THEN [ok |-> TRUE, stat |-> synStat[Stem(i)]] ELSE [ok |-> FALSE]
       IN  /\ synPending' = synPending \ {i}
           /\ IF reused
              THEN /\ synFinished' = With(synFinished, i, result)
                   /\ UNCHANGED <<synRunning, synLog>>
              ELSE /\ synRunning' = synRunning \cup {i}
                   /\ synLog' = With(synLog, Stem(i), [mod |-> Design.mods[i], delay |-> 0])
                   /\ UNCHANGED synFinished
    /\ UNCHANGED <<synPhase, synDesign, synRuns, synReuse, synWorkers, synCancel, synDirect,
                   synStat, synOut, synTable, synDelay>>

\* A Yosys process ends: it succeeds, fails in abc before the report is
\* written, or fails in check after it.
SynYosys(i, outcome) ==
    LET m == Design.mods[i]
        stat == [mod |-> m, des |-> synDesign]
        wrote == outcome # "failed in abc"
    IN  /\ i \in synRunning
        /\ synRunning' = synRunning \ {i}
        /\ synLog' = IF wrote THEN With(synLog, Stem(i), [mod |-> m, delay |-> Design.delay[m]]) ELSE synLog
        /\ synStat' = IF wrote THEN With(synStat, Stem(i), stat) ELSE synStat
        /\ synFinished' = With(synFinished, i,
                               IF outcome = "ok" THEN [ok |-> TRUE, stat |-> stat]
                                                 ELSE [ok |-> FALSE])
        /\ UNCHANGED <<synPhase, synDesign, synRuns, synReuse, synWorkers, synPending,
                       synCancel, synDirect, synOut, synTable, synDelay>>

\* as_completed yields some finished future; its exception starts the handler.
SynConsume(i) ==
    /\ synPhase = "mapping"
    /\ i \in DOMAIN synFinished
    /\ synFinished' = [j \in DOMAIN synFinished \ {i} |-> synFinished[j]]
    /\ IF synFinished[i].ok
       THEN /\ synDirect' = With(synDirect, Design.mods[i], synFinished[i].stat)
            /\ UNCHANGED <<synPhase, synCancel>>
       ELSE /\ synPhase' = "cancelling"
            /\ synCancel' = 1
            /\ UNCHANGED synDirect
    /\ UNCHANGED <<synDesign, synRuns, synReuse, synWorkers, synPending, synRunning, synFiles>>

\* KeyboardInterrupt in the loop is a BaseException as well.
SynInterrupt ==
    /\ synPhase = "mapping"
    /\ synPhase' = "cancelling"
    /\ synCancel' = 1
    /\ UNCHANGED <<synDesign, synRuns, synReuse, synWorkers, synPending, synRunning,
                   synFinished, synDirect, synFiles>>

\* The handler cancels one future after the other while the threads go on
\* taking those it has not reached; a future that runs cannot be cancelled.
SynCancelOne ==
    /\ synPhase = "cancelling"
    /\ synPending' = synPending \ {synCancel}
    /\ synCancel' = synCancel + 1
    /\ synPhase' = IF synCancel = Len(Design.mods) THEN "draining" ELSE synPhase
    /\ UNCHANGED <<synDesign, synRuns, synReuse, synWorkers, synRunning, synFinished,
                   synDirect, synFiles>>

\* Mutant: the exception leaves without waiting for the threads.
SynExitAtOnce ==
    /\ synPhase = "draining"
    /\ synPhase' = "failed"
    /\ UNCHANGED <<synDesign, synRuns, synPool, synFiles>>

\* Mutant: the executor waits until every result was consumed.
SynExitConsumed ==
    /\ synPhase = "draining"
    /\ synPending = {} /\ synRunning = {} /\ synFinished = <<>>
    /\ synPhase' = "failed"
    /\ UNCHANGED <<synDesign, synRuns, synPool, synFiles>>

\* The executor's __exit__ waits for the threads before the exception leaves.
SynExit ==
    /\ synPhase = "draining"
    /\ synPending = {} /\ synRunning = {}
    /\ synPhase' = "failed"
    /\ UNCHANGED <<synDesign, synRuns, synPool, synFiles>>
------------------------------------------------------------------------------
(* The merge. *)

StatArea(stat) == SynDesigns[stat.des].area[stat.mod]

\* Mutant: a child instantiated twice is added once.
AccumulateOnce ==
    LET depth == Cardinality(Mods)
        up[k \in 0 .. depth, m \in Mods] ==
            StatArea(synDirect[m])
              + IF k = 0 THEN 0 ELSE MapThenSumSet(LAMBDA c : up[k - 1, c], ToSet(Kids(Design, m)))
    IN  [m \in Mods |-> up[depth, m]]

\* accumulate(): direct area plus that of every kept child, level by level.
Accumulate ==
    LET depth == Cardinality(Mods)
        up[k \in 0 .. depth, m \in Mods] ==
            StatArea(synDirect[m])
              + IF k = 0 THEN 0 ELSE SumOver(LAMBDA c : up[k - 1, c], Kids(Design, m))
    IN  [m \in Mods |-> up[depth, m]]

SynMerge ==
    /\ synPhase = "mapping"
    /\ DOMAIN synDirect = Mods
    /\ synPhase' = "merged"
    /\ synOut' = [area |-> Accumulate, from |-> synDirect]
    /\ UNCHANGED <<synDesign, synRuns, synPool, synStat, synLog, synTable, synDelay>>
------------------------------------------------------------------------------
(* summarize_resources.py. *)

\* inferred_memories: the group a memory cell falls into.
MemGroup(mem) ==
    IF mem.overlay /\ mem.inL1d THEN "L1D request overlay"
    ELSE IF mem.cache # "none" THEN mem.cache
    ELSE IF mem.writes = 0 THEN "Other inferred ROM" ELSE "Other inferred memory"

InGroup(g) == {k \in DOMAIN Design.mems : MemGroup(Design.mems[k]) = g}
Synchronous1R1W(mem) == mem.reads = 1 /\ mem.writes = 1 /\ mem.sync

\* The RAM-inference checks of main().
GeometryKept ==
    /\ \A g \in DOMAIN SynGeometry :
           /\ Cardinality(InGroup(g)) = SynGeometry[g].banks
           /\ MapThenSumSet(LAMBDA k : Design.mems[k].bits, InGroup(g)) = SynGeometry[g].bits
           /\ \A k \in InGroup(g) : Synchronous1R1W(Design.mems[k])
    /\ LET overlay == InGroup("L1D request overlay")
       IN  overlay # {} => /\ Cardinality(overlay) = 1
                           /\ \A k \in overlay : Synchronous1R1W(Design.mems[k])

\* walk(): the instances below the top, one entry per instance, parents first.
Instances ==
    LET depth == Cardinality(Mods)
        below[k \in 0 .. depth, m \in Mods] ==
            <<m>> \o IF k = 0 THEN <<>>
                     ELSE FlattenSeq([n \in DOMAIN Kids(Design, m) |->
                                         below[k - 1, Kids(Design, m)[n]]])
    IN  below[depth, SynTop]

\* What the report leaves of a module once its kept children are subtracted.
KidArea(m) == SumOver(LAMBDA c : synOut.area[c], Kids(Design, m))
Classified(m) == m = SynTop \/ SynLabel[m] \in DOMAIN SynCategory
CategoryOf(m) == IF m = SynTop THEN "AXI wrapper/glue" ELSE SynCategory[SynLabel[m]]

CategoryArea ==
    LET all == Instances
        of(c) == SelectSeq(all, LAMBDA m : CategoryOf(m) = c)
    IN  [c \in {CategoryOf(m) : m \in ToSet(all)} |->
            SumOver(LAMBDA m : synOut.area[m] - KidArea(m), of(c))]

TableTotal(table) == MapThenSumSet(LAMBDA c : table[c], DOMAIN table)

\* Every error of main() leaves the earlier table where it was.
Rejected ==
    \/ SynTop \notin Mods
    \/ ~GeometryKept
    \/ \E m \in ToSet(Instances) : ~Classified(m) \/ synOut.area[m] < KidArea(m)
    \/ TableTotal(CategoryArea) = 0
    \/ TableTotal(CategoryArea) # synOut.area[SynTop]

SynSummarize ==
    /\ synPhase = "merged"
    /\ IF Rejected
       THEN synPhase' = "failed" /\ UNCHANGED synTable
       ELSE synPhase' = "tabled" /\ synTable' = CategoryArea
    /\ UNCHANGED <<synDesign, synRuns, synPool, synStat, synLog, synOut, synDelay>>

\* summarize-core-4pf.py: the worst of the delays in *.log, and whose log it is.
SynWorst ==
    /\ synPhase = "merged"
    /\ SynTop \in Mods
    /\ synPhase' = "timed"
    /\ LET logged == {s \in DOMAIN synLog : synLog[s].delay > 0}
       IN  synDelay' = {s \in logged : \A t \in logged : synLog[t].delay <= synLog[s].delay}
    /\ UNCHANGED <<synDesign, synRuns, synPool, synStat, synLog, synOut, synTable>>

\* The sources are elaborated, and again after they changed.  Only the files
\* are left of the processes before.
SynElaborate(d) ==
    /\ synPhase \in {"start", "failed", "tabled", "timed"}
    /\ synRuns < SynInvocations
    /\ synPhase' = "idle"
    /\ synDesign' = d
    /\ synReuse' = FALSE /\ synWorkers' = 0
    /\ synFinished' = <<>> /\ synCancel' = 0 /\ synDirect' = <<>>
    /\ UNCHANGED <<synRuns, synPending, synRunning, synFiles>>

\* Bound: a Yosys fails only while no other result is a failure.
SynFlowStep ==
    \/ SynTake
    \/ \E i \in DOMAIN Design.mods, outcome \in {"ok", "failed in abc", "failed in check"} :
           /\ outcome # "ok" => \A j \in DOMAIN synFinished : synFinished[j].ok
           /\ SynYosys(i, outcome)
    \/ \E i \in DOMAIN Design.mods : SynConsume(i)
    \/ SynCancelOne
    \/ SynExit
    \/ SynMerge
    \/ SynSummarize
    \/ SynWorst

\* Bound: no reuse where there are no reports yet.
SynNext ==
    \/ \E jobs \in SynJobs, reuse \in BOOLEAN :
           (reuse => synStat # <<>>) /\ SynInvoke(jobs, reuse)
    \/ SynFlowStep
    \/ SynInterrupt
    \/ \E d \in DOMAIN SynDesigns : SynElaborate(d)
------------------------------------------------------------------------------
(* Properties. *)

\* How many instances of module n an instance of m holds, itself included.
InstancesIn(m, n) ==
    LET depth == Cardinality(Mods)
        count[k \in 0 .. depth, x \in Mods] ==
            (IF x = n THEN 1 ELSE 0)
              + IF k = 0 THEN 0 ELSE SumOver(LAMBDA c : count[k - 1, c], Kids(Design, x))
    IN  count[depth, m]

\* A merged report counts every module's cells once per instance, whatever the
\* order in which the workers ended; each report in it is of that very module
\* although file names repeat between designs; and unless --reuse-workers was
\* given, none of it predates the checkpoint.
SynMergeExact ==
    synPhase = "merged" =>
        \A m \in Mods :
            /\ synOut.area[m] =
                   MapThenSumSet(LAMBDA n : InstancesIn(m, n) * StatArea(synOut.from[n]), Mods)
            /\ synOut.from[m].mod = m
            /\ ~synReuse => synOut.from[m].des = synDesign

\* The table subtracts again exactly what the merge added: each category is the
\* directly mapped area of its instances, so a total that passed the check is
\* not an accident of errors that cancel.  And the worst delay of summary.json
\* is at least that of every retained module, unless --reuse-workers was given:
\* no log of the worker directory hides another.
SynReportsExact ==
    /\ synPhase = "tabled" =>
           \A c \in DOMAIN synTable :
               synTable[c] =
                   MapThenSumSet(LAMBDA n : InstancesIn(SynTop, n) * StatArea(synOut.from[n]),
                                 {n \in Mods : InstancesIn(SynTop, n) > 0 /\ CategoryOf(n) = c})
    /\ synPhase = "timed" /\ ~synReuse =>
           /\ synDelay # {}
           /\ \A m \in Mods, s \in synDelay : synLog[s].delay >= Design.delay[m]

\* The process never exits, by success or by an error in one worker, and the
\* flow never goes on, while a Yosys of the pool can still write its files.
SynNoOrphan ==
    ~PoolActive => synRunning = {} /\ synPending = {}

\* Every invocation ends: no worker waits for a future nobody takes, and the
\* handler's cancellation does not leave the executor waiting.
SynEnds == synPhase = "mapping" ~> ~PoolActive
=============================================================================
