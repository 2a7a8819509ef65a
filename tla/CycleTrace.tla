----------------------------- MODULE CycleTrace -----------------------------
(***************************************************************************)
(* The readers of the 3P cycle trace.  The test bench writes one row per   *)
(* cycle with the UID and PC of what every stage shows; five scripts       *)
(* reconstruct the dynamic instruction stream from it:                     *)
(*   tools/issue_window_experiment.py (load_trace),                        *)
(*   tools/pipeline_trace_3p.py (load),                                    *)
(*   tools/compare_coremark_pipelines.py (load_orv, the call measurements),*)
(*   tools/branch_oracle_from_trace.py, and                                *)
(*   tools/check_arch_trace.py on the retirement rows.                     *)
(*                                                                         *)
(* The writer is a small core that runs one architectural path: it         *)
(* fetches along a predicted path, numbers what enters the dispatch queue, *)
(* issues and completes out of order, flushes behind a mispredicted branch *)
(* or an exception, and retires in order.  An interrupt may be taken       *)
(* behind any group that retires: the handler becomes part of the path.    *)
(* The UID of a lane that has not entered the queue is tentative, and is   *)
(* shown again for other instructions after a redirect.  The scripts are   *)
(* functions of the rows written so far.  A PC stands for its instruction. *)
(***************************************************************************)
EXTENDS Naturals, Sequences, FiniteSets, FiniteSetsExt, SequencesExt

CONSTANTS
    CtFlows,        \* the architectural paths without interrupts: sequences of
                    \*   [pc, to, event], `to` where the instruction itself leads
    CtHandler,      \* the path through the interrupt handler, a sequence likewise
    CtControl,      \* PCs of control instructions
    CtWrongPc,      \* where a mispredicted fetch continues
    CtEntry,        \* low PC of the measured function
    CtFunctionEnd,  \* its end
    CtLanes,        \* 3 in the code
    CtInflight,     \* bound: entries of the dispatch and retirement queues
    CtCycles        \* bound: rows written

\* The events at which retirement stops and redirects: an exception, whose
\* instruction does not retire architecturally, and MRET.  A path goes where its
\* instructions lead, but for those.
ASSUME TraceAssumption ==
    \A flow \in CtFlows \cup {CtHandler} : \A k \in DOMAIN flow :
        /\ flow[k].event \in {"none", "exception", "mret"}
        /\ k < Len(flow) /\ flow[k].event = "none" => flow[k + 1].pc = flow[k].to

VARIABLES
    ctFlow,         \* the architectural path, with the handler of the interrupt
    ctIrqAt,        \* where on it the interrupt was taken; 0 before
    ctWindow,       \* issue-window build: any entry may issue
    ctNextId,       \* trace_next_id_q
    ctFetch,        \* what fetch shows next: [pc, at]; at is 0 off the path
    ctQueue,        \* entries in program order: [uid, pc, at, ok, stage]
    ctRows          \* the trace

ctVars == <<ctFlow, ctIrqAt, ctWindow, ctNextId, ctFetch, ctQueue, ctRows>>

CtInit ==
    /\ ctFlow \in CtFlows
    /\ ctIrqAt = 0
    /\ ctWindow \in BOOLEAN
    /\ ctNextId = 1
    /\ ctFetch = [pc |-> ctFlow[1].pc, at |-> 1]
    /\ ctQueue = <<>>
    /\ ctRows = <<>>
------------------------------------------------------------------------------
(* The writer. *)

OnPath(flow, k) ==
    IF k <= Len(flow) THEN [pc |-> flow[k].pc, at |-> k] ELSE [pc |-> CtWrongPc, at |-> 0]
Follow(x) ==
    IF x.at > 0 /\ ctFlow[x.at].event = "none" THEN OnPath(ctFlow, x.at + 1) ELSE [pc |-> x.pc + 1, at |-> 0]

\* The lanes fetch shows: sequential instructions up to a control instruction.
Shown ==
    LET lane[k \in 1 .. CtLanes] == IF k = 1 THEN ctFetch ELSE Follow(lane[k - 1])
        width == Min({CtLanes} \cup {k \in 1 .. CtLanes : lane[k].pc \in CtControl})
    IN  [k \in 1 .. width |-> lane[k]]
Slots(lanes) == [k \in DOMAIN lanes |-> [uid |-> ctNextId + k - 1, pc |-> lanes[k].pc]]

\* Where fetch goes behind the lanes it showed; a branch may be mispredicted.
Predictions(last) ==
    {Follow(last)}
      \cup IF last.pc \in CtControl /\ last.at > 0 THEN {[pc |-> CtWrongPc, at |-> 0]} ELSE {}

Slot(e) == [uid |-> e.uid, pc |-> e.pc]
Retiring ==
    LET done(k) == \A j \in 1 .. k : ctQueue[j].stage = "done"
        calm(k) == \A j \in 1 .. k - 1 : ctFlow[ctQueue[j].at].event = "none"
    IN  Max({0} \cup {k \in 1 .. Min({CtLanes, Len(ctQueue)}) : done(k) /\ calm(k)})
ArchCount(k) == Cardinality({j \in 1 .. k : ctFlow[ctQueue[j].at].event # "exception"})

InStage(s) == {k \in DOMAIN ctQueue : ctQueue[k].stage = s}

\* The path with the handler behind position p.
Interrupted(p) == SubSeq(ctFlow, 1, p) \o CtHandler \o SubSeq(ctFlow, p + 1, Len(ctFlow))

\* One cycle: `issue` and `complete` are positions in the queue, `fire` whether
\* the dispatch queue takes the lanes fetch shows, `irq` whether an interrupt is
\* taken behind what retires.  Bound: one interrupt per trace.
CtCycle(fire, issue, complete, irq) ==
    LET shown == Shown
        oldest == {k \in InStage("queued") :
                      Cardinality({j \in InStage("queued") : j < k}) < CtLanes}
        candidates == SetToSortSeq(IF ctWindow THEN issue ELSE oldest, <)
        retire == Retiring
        event == retire > 0 /\ ctFlow[ctQueue[retire].at].event # "none"
        trap == event \/ irq
        flow == IF irq THEN Interrupted(ctQueue[retire].at) ELSE ctFlow
        bad == {k \in complete : ~ctQueue[k].ok}
        moved == [k \in DOMAIN ctQueue |->
                    [ctQueue[k] EXCEPT !.stage = IF k \in issue THEN "issued"
                                                 ELSE IF k \in complete THEN "done" ELSE @]]
        kept == IF trap THEN <<>>
                ELSE SubSeq(moved, retire + 1, IF bad = {} THEN Len(moved) ELSE Min(bad))
        entry(k, next) == [uid |-> ctNextId + k - 1, pc |-> shown[k].pc, at |-> shown[k].at,
                           stage |-> "queued",
                           ok |-> k < Len(shown) \/ shown[k].pc \notin CtControl
                                    \/ shown[k].at = 0 \/ next = Follow(shown[k])]
        list(set) == SetToSeq({Slot(ctQueue[k]) : k \in set})
    IN  /\ Len(ctRows) < CtCycles
        /\ irq => retire > 0 /\ ~event /\ ctIrqAt = 0
        /\ Cardinality(issue) <= CtLanes /\ Cardinality(complete) <= CtLanes
        /\ ~ctWindow => \A k \in issue : \A j \in oldest : j < k => j \in issue
        /\ fire => /\ Len(ctQueue) + Len(shown) <= CtInflight
                   /\ ~trap /\ bad = {}
        /\ ctRows' = Append(ctRows,
               [f |-> Slots(shown), fire |-> fire,
                q |-> [k \in DOMAIN candidates |-> Slot(ctQueue[candidates[k]])],
                i |-> list(issue), c |-> list(complete),
                r |-> [k \in 1 .. retire |-> Slot(ctQueue[k])],
                retire_count |-> ArchCount(retire)])
        /\ ctFlow' = flow
        /\ ctIrqAt' = IF irq THEN ctQueue[retire].at ELSE ctIrqAt
        /\ IF trap
           THEN /\ ctFetch' = OnPath(flow, ctQueue[retire].at + 1)
                /\ ctQueue' = kept
                /\ UNCHANGED ctNextId
           ELSE IF bad # {}
           THEN /\ ctFetch' = OnPath(flow, ctQueue[Min(bad)].at + 1)
                /\ ctQueue' = [kept EXCEPT ![Len(kept)].ok = TRUE]
                /\ UNCHANGED ctNextId
           ELSE IF fire
           THEN \E next \in Predictions(shown[Len(shown)]) :
                    /\ ctFetch' = next
                    /\ ctQueue' = kept \o [k \in DOMAIN shown |-> entry(k, next)]
                    /\ ctNextId' = ctNextId + Len(shown)
           ELSE ctQueue' = kept /\ UNCHANGED <<ctFetch, ctNextId>>
        /\ UNCHANGED ctWindow

CtNext ==
    \E fire, irq \in BOOLEAN, issue \in SUBSET InStage("queued"),
       complete \in SUBSET InStage("issued") : CtCycle(fire, issue, complete, irq)
------------------------------------------------------------------------------
(* Reading the rows. *)

Stage(row, s) == CASE s = "F" -> row.f [] s = "Q" -> row.q [] s = "I" -> row.i
                   [] s = "C" -> row.c [] s = "R" -> row.r
CyclesOf(s, uid) ==
    {n \in DOMAIN ctRows : \E x \in ToSet(Stage(ctRows[n], s)) : x.uid = uid}

\* load_trace of the issue-window experiment: the first cycle of a UID in a
\* stage, and its metadata from the first row that shows it in Q.
FirstIn(s, uid) == LET at == CyclesOf(s, uid) IN IF at = {} THEN 0 ELSE Min(at)
Committed == FlattenSeq([n \in DOMAIN ctRows |-> SubSeq(ctRows[n].r, 1, ctRows[n].retire_count)])
LacksMetadata(uid) == \E s \in {"Q", "I", "C"} : FirstIn(s, uid) = 0
\* Mutant: the metadata is taken where the UID is still tentative.
MetadataOfFetch(uid) ==
    LET row == ctRows[FirstIn("F", uid)]
    IN  row.f[Min({k \in DOMAIN row.f : row.f[k].uid = uid})]

Metadata(uid) ==
    LET row == ctRows[FirstIn("Q", uid)]
    IN  row.q[Min({k \in DOMAIN row.q : row.q[k].uid = uid})]
DynamicInstruction(uid) ==
    [pc |-> Metadata(uid).pc, release |-> FirstIn("F", uid), queued |-> FirstIn("Q", uid),
     issue |-> FirstIn("I", uid), complete |-> FirstIn("C", uid),
     retire |-> Max(CyclesOf("R", uid))]

\* load of pipeline_trace_3p: identity must hold from Q on.
IdentityKept ==
    LET bound == UNION {UNION {ToSet(Stage(ctRows[n], s)) : s \in {"Q", "I", "C", "R"}}
                          : n \in DOMAIN ctRows}
    IN  \A x, y \in bound : x.uid = y.uid => x = y

\* Mutant: instructions are keyed by their PC alone.
OrvKeyByPc(x) == [uid |-> 0, pc |-> x.pc]

\* load_orv of the comparison: instructions keyed by UID and PC together.
OrvKey(x) == x
OrvRetired ==
    FoldLeft(LAMBDA seen, x : IF OrvKey(x) \in ToSet(seen) THEN seen ELSE Append(seen, OrvKey(x)),
             <<>>, FlattenSeq([n \in DOMAIN ctRows |-> ctRows[n].r]))
OrvStage(s, key) ==
    {n \in DOMAIN ctRows : \E x \in ToSet(Stage(ctRows[n], s)) : OrvKey(x) = key}

\* function_call and call_span: the instructions from an entry until the PC
\* leaves the function, and the cycles from the first issue to the last retirement.
FunctionCall(order, start) ==
    LET inside(pc) == CtEntry <= pc /\ pc < CtFunctionEnd
        leaves == {k \in start + 1 .. Len(order) : ~inside(order[k].pc)}
    IN  SubSeq(order, start, IF leaves = {} THEN Len(order) ELSE Min(leaves) - 1)
CallSpan(keys) ==
    Max(UNION {OrvStage("R", keys[k]) : k \in DOMAIN keys})
      - Min({Min(OrvStage("I", keys[k])) : k \in DOMAIN keys}) + 1
Calls(order) == {FunctionCall(order, k) : k \in {j \in DOMAIN order : order[j].pc = CtEntry}}

\* branch_oracle_from_trace: the PC behind each retired control instruction.
OracleRetired == FlattenSeq([n \in DOMAIN ctRows |-> ctRows[n].r])
OracleFails == OracleRetired # <<>> /\ Last(OracleRetired).pc \in CtControl

Oracle ==
    LET all == OracleRetired
        at == SelectSeq([k \in DOMAIN all |-> k], LAMBDA k : all[k].pc \in CtControl)
    IN  [k \in DOMAIN at |-> [target |-> all[at[k] + 1].pc,
                              taken |-> all[at[k] + 1].pc # all[at[k]].pc + 1]]

\* The rows of arch.csv, and validate() of check_arch_trace.
ArchRows ==
    LET rows == FlattenSeq([n \in DOMAIN ctRows |->
                    [k \in DOMAIN ctRows[n].r |-> [cycle |-> n, lane |-> k - 1]]])
    IN  [k \in DOMAIN rows |-> [order |-> k - 1, cycle |-> rows[k].cycle, lane |-> rows[k].lane]]
\* Mutant: the order column is not checked.
ValidateNoOrder(rows) ==
    /\ rows # <<>>
    /\ \A k \in DOMAIN rows :
           LET previous == IF k = 1 THEN [cycle |-> 0, lane |-> 0] ELSE rows[k - 1]
               expected == IF rows[k].cycle = previous.cycle THEN previous.lane + 1 ELSE 0
           IN  /\ rows[k].cycle >= previous.cycle
               /\ rows[k].lane = expected
               /\ rows[k].lane < CtLanes

Validate(rows) ==
    /\ rows # <<>>
    /\ \A k \in DOMAIN rows :
           LET previous == IF k = 1 THEN [cycle |-> 0, lane |-> 0] ELSE rows[k - 1]
               expected == IF rows[k].cycle = previous.cycle THEN previous.lane + 1 ELSE 0
           IN  /\ rows[k].order = k - 1
               /\ rows[k].cycle >= previous.cycle
               /\ rows[k].lane = expected
               /\ rows[k].lane < CtLanes
------------------------------------------------------------------------------
(* Properties. *)

\* What the core released, in order, by the architectural path.
Released == Len(OracleRetired)
ArchPath == SelectSeq(SubSeq(ctFlow, 1, Released), LAMBDA x : x.event # "exception")

\* load_trace returns the architectural stream for any trace, however many
\* wrong-path instructions issued and completed in between and although
\* tentative UIDs repeat: every committed UID has its Q, I and C metadata, of
\* the instruction that retired, with its events in causal order.
CtStreamExact ==
    /\ Len(Committed) = Len(ArchPath)
    /\ \A k \in DOMAIN Committed :
           /\ ~LacksMetadata(Committed[k].uid)
           /\ LET x == DynamicInstruction(Committed[k].uid)
              IN  /\ x.pc = ArchPath[k].pc
                  /\ x.release < x.queued /\ x.queued <= x.issue
                  /\ x.issue < x.complete /\ x.complete < x.retire

\* No legal trace trips the identity check of pipeline_trace_3p; the keys of
\* load_orv tell the iterations of a loop apart and a wrong-path holder of a UID
\* from the instruction that got the UID for good; and so no measured call is
\* faster than the machine is wide.
CtIdentityStable ==
    /\ IdentityKept
    /\ Len(OrvRetired) = Released
    /\ \A k \in DOMAIN OrvRetired : OrvRetired[k].pc = ctFlow[k].pc
    /\ \A keys \in Calls(OrvRetired) : CallSpan(keys) * CtLanes >= Len(keys)

\* The released control instructions, by position on the path; and what each
\* did itself.
ReleasedControl == SelectSeq([k \in 1 .. Released |-> k], LAMBDA k : ctFlow[k].pc \in CtControl)
Outcome(x) == [target |-> x.to, taken |-> x.to # x.pc + 1]
Diverted(k) == k = ctIrqAt \/ ctFlow[k].event # "none"


\* validate() accepts what the core writes and notices any row that is lost
\* (but for a lost tail), written twice, or swapped with its neighbour.
CtArchGuarded ==
    LET rows == ArchRows
    IN  rows # <<>> =>
            /\ Validate(rows)
            /\ \A k \in 1 .. Len(rows) - 1 : /\ ~Validate(RemoveAt(rows, k))
                                             /\ ~Validate([rows EXCEPT ![k] = rows[k + 1], ![k + 1] = rows[k]])
            /\ \A k \in DOMAIN rows : ~Validate(InsertAt(rows, k, rows[k]))
=============================================================================
