------------------------------- MODULE BootLog -------------------------------
(***************************************************************************)
(* The tools that measure a Linux boot from the output of tb_opensbi:      *)
(* tools/linux_boot_signposts.py, linux_boot_report.py, linux_boot_watch.py, *)
(* linux_boot_pc_histogram.py and elf_symbols.py.                          *)
(*                                                                         *)
(* The state is the testbench's output so far, split into the log files it *)
(* was collected in; the tools are operators on those files, checked after *)
(* every clock, so also on logs that are still growing.  A line is a       *)
(* sequence of tokens: "head" and "tail" are the two halves of the text a  *)
(* marker's pattern matches, "progress" and "exact" the records of the     *)
(* testbench.  Every token carries the cycle and the retired instructions  *)
(* at which it was written; the tools read them of records only.  Columns, *)
(* number formats and the workbook's layout are left out.                  *)
(***************************************************************************)
EXTENDS Naturals, Sequences, FiniteSets, FiniteSetsExt, SequencesExt

CONSTANTS
    MARKERS,         \* names of the markers, in report order
    BlPrompts,       \* markers whose text no newline follows
    BlAnnounced,     \* markers the testbench prints an exact record for
    BlPeriod,        \* cycles between progress records
    BlPcs,           \* program counters
    BlPriv,          \* the privilege mode at each of them
    KERNEL_BASE,
    BlTables,        \* symbol tables, by image: address -> function
    BlReach,         \* how far the last function of a table extends (1 MiB)
    BlStall,         \* cycles without retirement that count as a stall
    BlCycles,        \* bound: cycles explored
    BlTexts,         \* bound: markers printed
    BlFiles          \* bound: log files

VARIABLES
    blLogs,          \* the log files; the last line of the last one is open
    blCycle,         \* cycle_count
    blInstret,       \* observed_minstret
    blText,          \* UART text still to be written
    blTexts,         \* texts begun so far
    blHistory,       \* instret at every cycle
    blEnded          \* the simulation is over

blVars == <<blLogs, blCycle, blInstret, blText, blTexts, blHistory, blEnded>>

BlInit ==
    /\ blLogs = <<<< <<>> >>>>
    /\ blCycle = 0 /\ blInstret = 0
    /\ blText = <<>> /\ blTexts = 0
    /\ blHistory = <<>> /\ blEnded = FALSE
------------------------------------------------------------------------------
(* The testbench. *)

Token(kind, name, cycle, instret, pc) ==
    [kind |-> kind, name |-> name, cycles |-> cycle, instret |-> instret, pc |-> pc]

Write(log, tok) == [log EXCEPT ![Len(log)] = Append(@, tok)]
Newline(log) == Append(log, <<>>)

\* What the guest writes for a marker; a piece stands for several bytes.
TextOf(m) == IF m \in BlPrompts THEN <<"head", "tail">> ELSE <<"head", "tail", "newline">>
Seen(kind, m) == \E f \in DOMAIN blLogs : \E l \in DOMAIN blLogs[f] :
                     \E k \in DOMAIN blLogs[f][l] :
                         blLogs[f][l][k].kind = kind /\ blLogs[f][l][k].name = m

\* Time passes: a progress record that is due is appended to whatever line is
\* open.  Bounds: the pc matters at a sample only, and varies at those before the
\* last; behind the first sample the core retires in the clock after a sample or
\* not until the next one.
SampleDue(cycle) == cycle % BlPeriod = 0
BlClock(retired, pc) ==
    LET cycle == blCycle + 1
        sample == Token("progress", "none", cycle, blInstret + retired, pc)
        log == Last(blLogs)
    IN  /\ ~blEnded /\ blCycle < BlCycles
        /\ retired = 1 => SampleDue(blCycle) /\ blCycle > 0
        /\ pc # Min(BlPcs) => SampleDue(cycle) /\ cycle < BlCycles
        /\ blCycle' = cycle
        /\ blInstret' = blInstret + retired
        /\ blHistory' = Append(blHistory, blInstret')
        /\ blLogs' = [blLogs EXCEPT ![Len(blLogs)] =
                         IF SampleDue(cycle) THEN Newline(Write(log, sample)) ELSE log]
        /\ UNCHANGED <<blText, blTexts, blEnded>>

\* The guest begins a text or goes on with it, in a clock before its sample: what
\* it writes to the UART is echoed, and a marker that completes is announced
\* once, on a line of its own.
BlUart(m) ==
    LET pieces == IF blText = <<>> THEN TextOf(m) ELSE Tail(blText)
        tok(kind) == Token(kind, m, blCycle, blInstret, Min(BlPcs))
        echoed == IF Head(pieces) = "newline" THEN Newline(Last(blLogs))
                  ELSE Write(Last(blLogs), tok(Head(pieces)))
        announced == IF Head(pieces) = "tail" /\ m \in BlAnnounced /\ ~Seen("exact", m)
                     THEN Newline(Write(Newline(echoed), tok("exact"))) ELSE echoed
    IN  /\ ~blEnded /\ ~SampleDue(blCycle)
        /\ IF blText = <<>> THEN blTexts < BlTexts ELSE m = Head(blText)
        /\ blTexts' = IF blText = <<>> THEN blTexts + 1 ELSE blTexts
        /\ blText' = IF Len(pieces) = 1 THEN <<>> ELSE <<m>> \o Tail(pieces)
        /\ blLogs' = [blLogs EXCEPT ![Len(blLogs)] = announced]
        /\ UNCHANGED <<blCycle, blInstret, blHistory, blEnded>>

\* The simulation ends: the guest writes "Kernel panic", upon which the testbench
\* finishes, or the driver says that it stopped.  Bound: no text is cut by it.
BlEnd(kind) ==
    /\ ~blEnded /\ ~SampleDue(blCycle) /\ blText = <<>>
    /\ blEnded' = TRUE
    /\ blLogs' = [blLogs EXCEPT ![Len(blLogs)] =
                     Write(@, Token(kind, "none", blCycle, blInstret, Min(BlPcs)))]
    /\ UNCHANGED <<blCycle, blInstret, blText, blTexts, blHistory>>

\* The output is collected in another file from here on.  Bound: the files are
\* changed behind a sample that is not the last one.
BlRotate ==
    /\ ~blEnded /\ Len(blLogs) < BlFiles
    /\ SampleDue(blCycle) /\ blCycle \in 1 .. BlCycles - 1
    /\ blLogs' = Append(blLogs, << <<>> >>)
    /\ UNCHANGED <<blCycle, blInstret, blText, blTexts, blHistory, blEnded>>

BlNext ==
    \/ \E retired \in {0, 1}, pc \in BlPcs : BlClock(retired, pc)
    \/ \E m \in ToSet(MARKERS) : BlUart(m)
    \/ \E kind \in {"panic", "stop"} : BlEnd(kind)
    \/ BlRotate
------------------------------------------------------------------------------
(* linux_boot_signposts: extract() of one file. *)

\* PROGRESS_RE over the lines: the records with the line each is on.
ProgressOf(log) ==
    FlattenSeq([l \in DOMAIN log |->
        LET records == SelectSeq(log[l], LAMBDA tok : tok.kind = "progress")
        IN  [k \in DOMAIN records |-> [line |-> l, cycles |-> records[k].cycles,
                                       instret |-> records[k].instret, pc |-> records[k].pc]]])

\* EXACT_RE: the first record of a name.
ExactOf(log, m) ==
    LET records == SelectSeq(FlattenSeq(log), LAMBDA tok : tok.kind = "exact" /\ tok.name = m)
    IN  IF records = <<>> THEN {} ELSE {Head(records)}
ExactLine(log, tok) == Min({l \in DOMAIN log : tok \in ToSet(log[l])})

\* A pattern matches within a line only: its halves must be neighbours.
Matches(line, m) ==
    \E k \in 1 .. Len(line) - 1 :
        /\ line[k].kind = "head" /\ line[k + 1].kind = "tail"
        /\ line[k].name = m /\ line[k + 1].name = m
MarkerLines(log, m) == {l \in DOMAIN log : Matches(log[l], m)}

\* Mutant: the record on the line behind the text counts as one before it.
PositionNextLine(progress, line) ==
    Cardinality({k \in DOMAIN progress : progress[k].line <= line + 1})

\* bisect_right: how many records are on lines up to this one.
Position(progress, line) == Cardinality({k \in DOMAIN progress : progress[k].line <= line})
At(progress, k) == IF k \in DOMAIN progress THEN {progress[k]} ELSE {}

\* A Signpost, or nothing; exact, lower and upper are empty for None.
Extract(log, m) ==
    LET exact == ExactOf(log, m)
        lines == MarkerLines(log, m)
        line == IF lines # {} THEN Min(lines) ELSE ExactLine(log, CHOOSE e \in exact : TRUE)
        progress == ProgressOf(log)
        position == Position(progress, line)
    IN  IF lines = {} /\ exact = {} THEN {}
        ELSE {[line |-> line, exact |-> exact,
               lower |-> At(progress, position), upper |-> At(progress, position + 1)]}
------------------------------------------------------------------------------
(* linux_boot_report. *)

\* The bounds of a Measurement, again empty for None.
BoundsLow(sp) == IF sp.exact # {} THEN sp.exact ELSE sp.lower
BoundsHigh(sp) == IF sp.exact # {} THEN sp.exact ELSE sp.upper

\* collect(): `cycle_low or sys.maxsize`, so an unknown bound, or a bound of
\* cycle zero, counts as the latest.
MaxSize == BlCycles + 1
SortKey(sp) ==
    LET low == {b.cycles : b \in BoundsLow(sp)} IN IF low \ {0} = {} THEN MaxSize ELSE Max(low)
\* Mutant: the comparison of two occurrences is the wrong way round.
PreferredLatest(previous, sp) ==
    /\ previous.exact = {}
    /\ sp.exact # {} \/ SortKey(sp) > SortKey(previous)

Preferred(previous, sp) ==
    /\ previous.exact = {}
    /\ sp.exact # {} \/ SortKey(sp) < SortKey(previous)
Collect(logs, m) ==
    FoldLeft(LAMBDA best, log :
                 LET found == Extract(log, m)
                 IN  IF found = {} THEN best
                     ELSE IF best = {} \/ \E b \in best, sp \in found : Preferred(b, sp)
                          THEN found ELSE best,
             {}, logs)

\* interval_rows: the bounds on the distance of two measured markers.
Minus(a, b) == IF a > b THEN a - b ELSE 0
Interval(before, after, field) ==
    LET a == {x[field] : x \in BoundsLow(before)}
        b == {x[field] : x \in BoundsHigh(before)}
        c == {x[field] : x \in BoundsLow(after)}
        d == {x[field] : x \in BoundsHigh(after)}
    IN  IF a = {} \/ b = {} \/ c = {} \/ d = {} THEN {}
        ELSE {[low |-> Minus(Max(c), Max(b)), high |-> Minus(Max(d), Max(a))]}

\* collect_run_outcomes: the samples of all files by cycle, the longest run of
\* equal instret among them, and the status.
Samples(logs) == FlattenSeq([f \in DOMAIN logs |-> ProgressOf(logs[f])])
SortedSamples(logs) == SetToSortSeq(ToSet(Samples(logs)), LAMBDA x, y : x.cycles < y.cycles)

NoRun == [start |-> 0, from |-> 0, to |-> 0, last |-> 0, instret |-> 0, any |-> FALSE]
\* Mutant: every sample of a run starts it anew.
LongestRunRestarted(samples) ==
    FoldLeft(LAMBDA acc, s :
                 LET same == acc.any /\ s.instret = acc.instret
                     start == IF same THEN acc.last ELSE 0
                     longer == same /\ s.cycles - start > acc.to - acc.from
                 IN  [start |-> start, last |-> s.cycles, instret |-> s.instret, any |-> TRUE,
                      from |-> IF longer THEN start ELSE acc.from,
                      to |-> IF longer THEN s.cycles ELSE acc.to],
             NoRun, samples)

LongestRun(samples) ==
    FoldLeft(LAMBDA acc, s :
                 LET same == acc.any /\ s.instret = acc.instret
                     start == IF ~same THEN 0 ELSE IF acc.start = 0 THEN acc.last ELSE acc.start
                     longer == same /\ s.cycles - start > acc.to - acc.from
                 IN  [start |-> start, last |-> s.cycles, instret |-> s.instret, any |-> TRUE,
                      from |-> IF longer THEN start ELSE acc.from,
                      to |-> IF longer THEN s.cycles ELSE acc.to],
             NoRun, samples)

PromptSeen(logs) ==
    \E f \in DOMAIN logs, m \in BlPrompts : MarkerLines(logs[f], m) # {}
Says(logs, kind) ==
    \E f \in DOMAIN logs : \E tok \in ToSet(FlattenSeq(logs[f])) : tok.kind = kind
Status(logs) ==
    LET run == LongestRun(SortedSamples(logs))
    IN  CASE PromptSeen(logs) -> "prompt reached"
          [] ~PromptSeen(logs) /\ Says(logs, "panic") -> "kernel panic"
          [] OTHER -> IF run.to - run.from >= BlStall THEN "stalled"
                      ELSE IF Says(logs, "stop") THEN "completed without prompt"
                      ELSE "incomplete"
------------------------------------------------------------------------------
(* elf_symbols and the users of sampled program counters. *)

\* SymbolTable.lookup: the last function at or below pc, in reach.
Lookup(table, pc) ==
    LET below == {a \in DOMAIN table : a <= pc}
        base == Max(below)
    IN  IF below = {} \/ (base = Max(DOMAIN table) /\ pc - base > BlReach) THEN {}
        ELSE {[function |-> table[base], base |-> base]}

\* symbolize(): of the images that know the pc, the one with the nearest function.
Symbolize(pc) ==
    LET found == UNION {{[image |-> i, function |-> s.function, base |-> s.base] :
                             s \in Lookup(BlTables[i], pc)} : i \in DOMAIN BlTables}
    IN  IF found = {} THEN [image |-> "unmapped", function |-> "unmapped", base |-> 0]
        ELSE CHOOSE s \in found : \A t \in found : t.base <= s.base

\* linux_boot_watch over a stream of lines, with --changes-only: the samples it
\* annotates.
Watch(lines) ==
    FoldLeft(LAMBDA acc, tok :
                 LET now == Symbolize(tok.pc)
                     current == <<now.image, now.function>>
                 IN  CASE tok.kind = "progress" /\ current # acc.previous ->
                            [previous |-> current, out |-> Append(acc.out, tok)]
                       [] tok.kind = "exact" -> [acc EXCEPT !.out = Append(@, tok)]
                       [] OTHER -> acc,
             [previous |-> <<>>, out |-> <<>>], FlattenSeq(lines)).out

\* collect_function_observations: function -> earliest sample and their number.
Observations(logs) ==
    FoldLeft(LAMBDA obs, s :
                 LET f == Symbolize(s.pc)
                     key == <<f.image, f.function>>
                     old == IF key \in DOMAIN obs THEN obs[key] ELSE [first |-> s.cycles, samples |-> 0]
                     new == [first |-> IF s.cycles < old.first THEN s.cycles ELSE old.first,
                             samples |-> old.samples + 1]
                 IN  IF f.image = "unmapped" THEN obs
                     ELSE [k \in DOMAIN obs \cup {key} |-> IF k = key THEN new ELSE obs[k]],
             <<>>, Samples(logs))

\* linux_boot_pc_histogram: the samples from the first kernel one on, by class.
PrivilegeClass(pc) ==
    CASE BlPriv[pc] = 3 -> "machine mode"
      [] BlPriv[pc] = 0 -> "user mode"
      [] OTHER -> IF pc >= KERNEL_BASE THEN "kernel S-mode" ELSE "non-kernel S-mode"
\* Mutant: the profile starts behind the first kernel sample.
HistogramBehindFirst(log) ==
    LET samples == ProgressOf(log)
        kernel == {k \in DOMAIN samples : PrivilegeClass(samples[k].pc) = "kernel S-mode"}
        kept == IF kernel = {} THEN {} ELSE {k \in DOMAIN samples : k > Min(kernel)}
    IN  [class \in {PrivilegeClass(pc) : pc \in BlPcs} |->
            Cardinality({k \in kept : PrivilegeClass(samples[k].pc) = class})]

Histogram(log) ==
    LET samples == ProgressOf(log)
        kernel == {k \in DOMAIN samples : PrivilegeClass(samples[k].pc) = "kernel S-mode"}
        kept == IF kernel = {} THEN {} ELSE {k \in DOMAIN samples : k >= Min(kernel)}
    IN  [class \in {PrivilegeClass(pc) : pc \in BlPcs} |->
            Cardinality({k \in kept : PrivilegeClass(samples[k].pc) = class})]
------------------------------------------------------------------------------
(* Properties. *)

\* The text a signpost of m in this file is about.
FirstText(log, m) ==
    LET tails == SelectSeq(FlattenSeq(log), LAMBDA tok : tok.kind = "tail" /\ tok.name = m)
        onLine(l) == SelectSeq(log[l], LAMBDA tok : tok.kind = "tail" /\ tok.name = m)
    IN  IF ExactOf(log, m) # {} THEN Head(tails) ELSE Head(onLine(Min(MarkerLines(log, m))))

Brackets(sp, text) ==
    /\ \A b \in BoundsLow(sp) : b.cycles <= text.cycles /\ b.instret <= text.instret
    /\ \A b \in BoundsHigh(sp) : text.cycles <= b.cycles /\ text.instret <= b.instret

\* "a UART milestone can only be bracketed by the progress records before and
\* after it" (linux_boot_signposts.py): the text was written within the range
\* reported for it, in a complete or a growing log, with the text cut in two by
\* a record and printed again, and for an announced marker whatever the lines
\* look like; and the distance of two markers of one file lies between the
\* bounds of its row in the report.  A record that lands on the line of a text
\* without a newline is excepted: bisect_right takes it for the lower bound.
Uncut(log, sp) == sp.exact # {} \/ \A tok \in ToSet(log[sp.line]) : tok.kind # "progress"
Within(i, distance) == i.low <= distance /\ distance <= i.high
BlBracketSound ==
    \A f \in DOMAIN blLogs, m \in ToSet(MARKERS) :
        \A before \in Extract(blLogs[f], m) :
            LET x == FirstText(blLogs[f], m)
            IN  Uncut(blLogs[f], before) =>
                    /\ Brackets(before, x)
                    /\ \A n \in ToSet(MARKERS) \ {m} : \A after \in Extract(blLogs[f], n) :
                           LET y == FirstText(blLogs[f], n)
                           IN  Uncut(blLogs[f], after) /\ x.cycles <= y.cycles =>
                                   /\ \A i \in Interval(before, after, "cycles") :
                                          Within(i, y.cycles - x.cycles)
                                   /\ \A i \in Interval(before, after, "instret") :
                                          Within(i, y.instret - x.instret)

\* What is collected from several files is what the earliest of them shows, in
\* whatever order the files are given, as long as no measurement lacks its
\* lower bound; and so are the function landmarks, always.
BlCollectEarliest ==
    LET backwards == Reverse(blLogs)
        shows(m) == {f \in DOMAIN blLogs : Extract(blLogs[f], m) # {}}
    IN  Len(blLogs) > 1 =>
        /\ \A m \in ToSet(MARKERS) :
               LET signposts == {sp : sp \in UNION {Extract(blLogs[f], m) : f \in shows(m)}}
                   exact == {f \in shows(m) : ExactOf(blLogs[f], m) # {}}
               IN  shows(m) # {} /\ (exact # {} \/ \A sp \in signposts : sp.lower # {}) =>
                       LET first == Min(IF exact # {} THEN exact ELSE shows(m))
                       IN  /\ Collect(blLogs, m) = Extract(blLogs[first], m)
                           /\ Collect(backwards, m) = Extract(blLogs[first], m)
        /\ Observations(blLogs) = Observations(backwards)

\* A run reported as stalled is: the core retired nothing between the two cycles
\* named; no longer gap between samples was overlooked, across files too; and a
\* stall that ends in a stop of the simulation is not reported as a completed run.
BlStallReal ==
    LET samples == SortedSamples(blLogs)
        run == LongestRun(samples)
        status == Status(blLogs)
    IN  /\ run.to > 0 => blHistory[run.from] = blHistory[run.to]
        /\ \A j, k \in DOMAIN samples :
               j < k /\ samples[j].instret = samples[k].instret =>
                   samples[k].cycles - samples[j].cycles <= run.to - run.from
        /\ status = "stalled" =>
               \E c \in DOMAIN blHistory : c + BlStall \in DOMAIN blHistory
                                           /\ blHistory[c] = blHistory[c + BlStall]
        /\ status = "completed without prompt" =>
               \A j, k \in DOMAIN samples :
                   samples[j].cycles + BlStall <= samples[k].cycles =>
                       blHistory[samples[j].cycles] < blHistory[samples[k].cycles]

\* Sampled time is attributed whole.  --changes-only loses nothing: the function
\* of every sample is that of the last sample annotated at or before it, although
\* announced markers are annotated in between, and it is the nearest function
\* any image knows; and in a profile every sample from the first kernel one on
\* is in exactly one class, so that its sample-equivalent cycles add up to the
\* profiled range.
BlSamplesAttributed ==
    \A f \in DOMAIN blLogs :
        LET out == SelectSeq(Watch(blLogs[f]), LAMBDA tok : tok.kind = "progress")
            progress == ProgressOf(blLogs[f])
            shown(s) == {o \in ToSet(out) : o.cycles <= s.cycles}
            latest(s) == CHOOSE o \in shown(s) : \A p \in shown(s) : p.cycles <= o.cycles
            h == Histogram(blLogs[f])
            kernel == {p \in ToSet(progress) : PrivilegeClass(p.pc) = "kernel S-mode"}
        IN  /\ \A k \in DOMAIN progress :
                   LET s == progress[k]
                       fn == Symbolize(s.pc)
                   IN  /\ shown(s) # {}
                       /\ Symbolize(latest(s).pc) = fn
                       /\ fn.image # "unmapped" =>
                              \A a \in UNION {DOMAIN BlTables[i] : i \in DOMAIN BlTables} :
                                  a <= s.pc => a <= fn.base
            /\ kernel # {} =>
                   MapThenSumSet(LAMBDA c : h[c], DOMAIN h) * BlPeriod
                       = Last(progress).cycles + BlPeriod - Min({p.cycles : p \in kernel})
=============================================================================
