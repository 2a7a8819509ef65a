------------------------------ MODULE Compliance ------------------------------
(***************************************************************************)
(* tools/compliance.py, the runner of self-checking test programs, with    *)
(* the image conversion of tools/elf2mem.py it calls for every program.    *)
(*                                                                         *)
(* One action is one stage of run_one, of the suite loop or of the diff    *)
(* command, because the process can be killed between any two of them and  *)
(* leaves its files to the next invocation.  A report is written in two:   *)
(* opening it cuts what an earlier invocation left, writing makes it       *)
(* whole.  What the simulator does is a choice over the ways a run ends.   *)
(* Every file carries the number of the invocation that wrote it, so that  *)
(* stale ones can be told from fresh ones.  Paths, durations, logs'        *)
(* contents and the printed lines are left out.                            *)
(***************************************************************************)
EXTENDS Integers, Sequences, FiniteSets, FiniteSetsExt, SequencesExt

CONSTANTS
    CmpTests,        \* the test programs, in the order discover_elfs sorts them
    CmpElfs,         \* what a test program may hold: [entry, segs]
    RAM_BASE, RAM_SIZE,
    WordBytes,       \* bytes per $readmemh word (8 or 32 in the code)
    CmpDutRows,      \* rows of the DUT's architectural trace
    CmpDutLength,
    CmpSailLines,    \* lines of the Sail trace
    CmpSailLength,
    CmpInvocations   \* bound: invocations explored

ASSUME ComplianceAssumption ==
    /\ RAM_BASE \in Nat /\ RAM_SIZE \in Nat /\ WordBytes \in Nat \ {0}
    /\ CmpInvocations \in Nat

VARIABLES
    cmpPhase,        \* where main() is
    cmpRun,          \* the invocation: [gen, cmd, tests, xfails, failFast]
    cmpElf,          \* the program being run
    cmpMemh,         \* the lines of its image file
    cmpResults,      \* results: [test, status], in order
    cmpTruth,        \* what each simulator run of this invocation did
    cmpSummary,      \* summary-<backend>.json: [gen, whole, rows]
    cmpJunit,        \* junit-<backend>.xml: [gen, whole, tests, failures, skipped]
    cmpDiff          \* the comparison of the diff command: [dut, sail, verdict]

cmpVars == <<cmpPhase, cmpRun, cmpElf, cmpMemh, cmpResults, cmpTruth, cmpSummary,
             cmpJunit, cmpDiff>>
cmpFiles == <<cmpSummary, cmpJunit>>

CmpIdle == [gen |-> 0, cmd |-> "none", tests |-> <<>>, xfails |-> {}, failFast |-> FALSE]
NoElf == [entry |-> 0, segs |-> <<>>]
NoDiff == [dut |-> <<>>, sail |-> <<>>, verdict |-> "none"]

\* A report that was opened and is not written yet, by which invocation; 0
\* stands for the absent files of the beginning.
CutSummary(gen) == [gen |-> gen, whole |-> FALSE, rows |-> <<>>]
CutJunit(gen) == [gen |-> gen, whole |-> FALSE, tests |-> 0, failures |-> 0, skipped |-> 0]

CmpInit ==
    /\ cmpPhase = "idle"
    /\ cmpRun = CmpIdle
    /\ cmpElf = NoElf /\ cmpMemh = <<>>
    /\ cmpResults = <<>> /\ cmpTruth = <<>>
    /\ cmpSummary = [CutSummary(0) EXCEPT !.whole = TRUE]
    /\ cmpJunit = [CutJunit(0) EXCEPT !.whole = TRUE]
    /\ cmpDiff = NoDiff

\* main()'s exit codes: 0, 1 and 2; an exception it does not catch, or a
\* signal, ends the process as "died".
Exits == {"exit 0", "exit 1", "exit 2", "died"}
Exit(code) == cmpPhase' = code

\* The selection of suite_subcommand; run and diff take one program.
CmpInvoke(cmd, tests, xfails, failFast) ==
    /\ cmpPhase = "idle"
    /\ cmpRun.gen < CmpInvocations
    /\ cmpRun' = [gen |-> cmpRun.gen + 1, cmd |-> cmd, tests |-> tests,
                  xfails |-> IF cmd = "suite" THEN xfails ELSE {},
                  failFast |-> cmd = "suite" /\ failFast]
    /\ IF tests = <<>> THEN Exit("exit 2") ELSE cmpPhase' = "build"
    /\ UNCHANGED <<cmpElf, cmpMemh, cmpResults, cmpTruth, cmpFiles, cmpDiff>>

\* build_simulator: a failed make is a RuntimeError.
CmpBuild(built) ==
    /\ cmpPhase = "build"
    /\ IF built THEN cmpPhase' = "load" ELSE Exit("exit 2")
    /\ UNCHANGED <<cmpRun, cmpElf, cmpMemh, cmpResults, cmpTruth, cmpFiles, cmpDiff>>
------------------------------------------------------------------------------
(* elf2mem: load_elf's segments to $readmemh lines. *)

Limit == RAM_BASE + RAM_SIZE
SegEnd(seg) == seg.addr + seg.msize

\* A segment's byte at an address: file data, then zero fill.
SegByte(seg, a) ==
    IF a - seg.addr < Len(seg.data) THEN seg.data[a - seg.addr + 1] ELSE 0
Covers(seg, a) == seg.addr <= a /\ a < SegEnd(seg)
Loaded(segs) == {a \in RAM_BASE .. Limit - 1 : \E i \in DOMAIN segs : Covers(segs[i], a)}

\* load_elf and image_words reject a program without segments, a segment
\* outside the aperture and bytes two segments disagree on.
ElfRejected(elf) ==
    \/ elf.entry < RAM_BASE \/ elf.entry >= Limit
    \/ elf.segs = <<>>
    \/ \E i \in DOMAIN elf.segs : elf.segs[i].addr < RAM_BASE \/ SegEnd(elf.segs[i]) > Limit
    \/ \E a \in Loaded(elf.segs) : \E i, j \in DOMAIN elf.segs :
           /\ Covers(elf.segs[i], a) /\ Covers(elf.segs[j], a)
           /\ SegByte(elf.segs[i], a) # SegByte(elf.segs[j], a)

\* image_words: word index -> its bytes by lane, zero where nothing is loaded.
WordIndex(a) == (a - RAM_BASE) \div WordBytes
ImageWords(segs) ==
    [w \in {WordIndex(a) : a \in Loaded(segs)} |->
        [lane \in 1 .. WordBytes |->
            LET a == RAM_BASE + w * WordBytes + lane - 1
            IN  IF a \in Loaded(segs)
                THEN SegByte(segs[CHOOSE i \in DOMAIN segs : Covers(segs[i], a)], a)
                ELSE 0]]

\* Mutant: a gap of a single word is not announced.
AddressLineAfterTwo(previous, index) == IF index > previous + 2 THEN <<[at |-> index]>> ELSE <<>>

\* write_memh: an address line where the indices are not consecutive, and the
\* bytes of a word most significant first.
AddressLine(previous, index) == IF index # previous + 1 THEN <<[at |-> index]>> ELSE <<>>
WriteMemh(words) ==
    LET sorted == SetToSortSeq(DOMAIN words, <)
        previous(n) == IF n = 1 THEN -2 ELSE sorted[n - 1]
    IN  FlattenSeq([n \in DOMAIN sorted |->
            AddressLine(previous(n), sorted[n]) \o <<[hex |-> Reverse(words[sorted[n]])]>>])

\* The image of the program, then nm's search for tohost.
CmpLoad(elf, hasTohost) ==
    /\ cmpPhase = "load"
    /\ IF ElfRejected(elf)
       THEN Exit("exit 2") /\ UNCHANGED <<cmpElf, cmpMemh>>
       ELSE /\ IF hasTohost THEN cmpPhase' = "simulate" ELSE Exit("exit 2")
            /\ cmpElf' = elf
            /\ cmpMemh' = WriteMemh(ImageWords(elf.segs))
    /\ UNCHANGED <<cmpRun, cmpResults, cmpTruth, cmpFiles, cmpDiff>>
------------------------------------------------------------------------------
(* run_one from the simulator on, and the suite loop. *)

\* How a simulator run ends.  TimeoutExpired carries what was printed as bytes:
\* the handler's concatenation with a string fails unless nothing was printed.
Outcomes == {"pass", "fail", "pass, then crash", "silent timeout", "timeout"}
\* Mutant: the simulator's exit status is not looked at.
SimPassedByOutput(outcome) == outcome \in {"pass", "pass, then crash"}

SimPassed(outcome) == outcome = "pass"

StatusOf(passed, expected) ==
    IF passed THEN IF expected THEN "xpass" ELSE "pass"
              ELSE IF expected THEN "xfail" ELSE "fail"

Bad == {"fail", "xpass"}

CmpSimulate(outcome) ==
    LET test == cmpRun.tests[Len(cmpResults) + 1]
        status == StatusOf(SimPassed(outcome), test \in cmpRun.xfails)
        last == Len(cmpResults) + 1 = Len(cmpRun.tests)
    IN  /\ cmpPhase = "simulate"
        /\ cmpTruth' = Append(cmpTruth, outcome)
        /\ IF outcome = "timeout"
           THEN Exit("died") /\ UNCHANGED cmpResults
           ELSE /\ cmpResults' = Append(cmpResults, [test |-> test, status |-> status])
                /\ CASE cmpRun.cmd = "run" -> Exit(IF status = "pass" THEN "exit 0" ELSE "exit 1")
                     [] cmpRun.cmd = "diff" ->
                            IF status = "pass" THEN cmpPhase' = "diff" ELSE Exit("exit 1")
                     [] OTHER ->
                            cmpPhase' = IF last \/ (cmpRun.failFast /\ status \in Bad)
                                        THEN "summary" ELSE "build"
        /\ cmpElf' = NoElf /\ cmpMemh' = <<>>
        /\ UNCHANGED <<cmpRun, cmpFiles, cmpDiff>>

CountStatus(set) == Cardinality({i \in DOMAIN cmpResults : cmpResults[i].status \in set})

\* summary.write_text opens the file, which cuts it, and then writes.
CmpSummaryOpen ==
    /\ cmpPhase = "summary"
    /\ cmpPhase' = "write summary"
    /\ cmpSummary' = CutSummary(cmpRun.gen)
    /\ UNCHANGED <<cmpRun, cmpElf, cmpMemh, cmpResults, cmpTruth, cmpJunit, cmpDiff>>

CmpSummary ==
    /\ cmpPhase = "write summary"
    /\ cmpPhase' = "junit"
    /\ cmpSummary' = [gen |-> cmpRun.gen, whole |-> TRUE, rows |-> cmpResults]
    /\ UNCHANGED <<cmpRun, cmpElf, cmpMemh, cmpResults, cmpTruth, cmpJunit, cmpDiff>>

\* write_junit opens its file, writes it, and the suite ends with its status.
CmpJunitOpen ==
    /\ cmpPhase = "junit"
    /\ cmpPhase' = "write junit"
    /\ cmpJunit' = CutJunit(cmpRun.gen)
    /\ UNCHANGED <<cmpRun, cmpElf, cmpMemh, cmpResults, cmpTruth, cmpSummary, cmpDiff>>

CmpJunit ==
    /\ cmpPhase = "write junit"
    /\ cmpJunit' = [gen |-> cmpRun.gen, whole |-> TRUE, tests |-> Len(cmpResults),
                    failures |-> CountStatus(Bad), skipped |-> CountStatus({"xfail"})]
    /\ Exit(IF CountStatus(Bad) > 0 THEN "exit 1" ELSE "exit 0")
    /\ UNCHANGED <<cmpRun, cmpElf, cmpMemh, cmpResults, cmpTruth, cmpSummary, cmpDiff>>
------------------------------------------------------------------------------
(* The diff command. *)

\* parse_sail_trace: an instruction line opens a row, a register line sets the
\* destination of the last row.  Register 0 stands for "no rd key".
ParseSail(lines) ==
    FoldLeft(LAMBDA rows, line :
                 IF line.kind = "instr" THEN Append(rows, [pc |-> line.pc, rd |-> 0, w |-> 0])
                 ELSE IF rows = <<>> THEN rows
                 ELSE [rows EXCEPT ![Len(rows)] = [@ EXCEPT !.rd = line.rd, !.w = line.w]],
             <<>>, lines)

\* Mutant: register values are compared only where Sail wrote the same register.
RowDiffersIfBothWrite(dut, sail) ==
    \/ dut.pc # sail.pc
    \/ dut.rd # 0 /\ sail.rd = dut.rd /\ sail.w # dut.w

RowDiffers(dut, sail) ==
    \/ dut.pc # sail.pc
    \/ dut.rd # 0 /\ (sail.rd # dut.rd \/ sail.w # dut.w)

CmpCompare(trace, lines) ==
    LET dut == SelectSeq(trace, LAMBDA row : row.arch)
        sail == ParseSail(lines)
        failed == \/ Len(sail) < Len(dut)
                  \/ \E k \in DOMAIN dut : RowDiffers(dut[k], sail[k])
        trapped == \E k \in DOMAIN dut : dut[k].exc
    IN  /\ cmpPhase = "diff"
        /\ cmpDiff' = [dut |-> trace, sail |-> lines,
                       verdict |-> IF trapped THEN "none" ELSE IF failed THEN "fail" ELSE "pass"]
        /\ Exit(IF trapped THEN "exit 2" ELSE IF failed THEN "exit 1" ELSE "exit 0")
        /\ UNCHANGED <<cmpRun, cmpElf, cmpMemh, cmpResults, cmpTruth, cmpFiles>>

\* The process is killed, or a write of it fails, between two stages or inside
\* the write of a report.
CmpKill ==
    /\ cmpPhase \in {"build", "load", "simulate", "summary", "write summary", "junit",
                     "write junit", "diff"}
    /\ Exit("died")
    /\ UNCHANGED <<cmpRun, cmpElf, cmpMemh, cmpResults, cmpTruth, cmpFiles, cmpDiff>>

\* Only the files are left for the next invocation.
CmpAgain ==
    /\ cmpPhase \in Exits
    /\ cmpRun.gen < CmpInvocations
    /\ cmpPhase' = "idle"
    /\ cmpRun' = [CmpIdle EXCEPT !.gen = cmpRun.gen]
    /\ cmpElf' = NoElf /\ cmpMemh' = <<>>
    /\ cmpResults' = <<>> /\ cmpTruth' = <<>>
    /\ cmpDiff' = NoDiff
    /\ UNCHANGED cmpFiles

Selections == {SelectSeq(CmpTests, LAMBDA t : t \in chosen) : chosen \in SUBSET ToSet(CmpTests)}
SeqsUpTo(S, n) == UNION {[1 .. k -> S] : k \in 0 .. n}

\* Bounds: run and diff neither read nor write what another invocation leaves
\* behind, so they are explored as the first invocation only; and what a program
\* holds matters to its image, so that a suite has one that converts, or none.
SuiteElfs == {CHOOSE elf \in CmpElfs : ~ElfRejected(elf)} \cup {elf \in CmpElfs : ElfRejected(elf)}
CmpNext ==
    \/ \E tests \in Selections, xfails \in SUBSET ToSet(CmpTests), failFast \in BOOLEAN :
           xfails \subseteq ToSet(tests) /\ CmpInvoke("suite", tests, xfails, failFast)
    \/ \E cmd \in {"run", "diff"} :
           cmpRun.gen = 0 /\ CmpInvoke(cmd, <<Head(CmpTests)>>, {}, FALSE)
    \/ \E built \in BOOLEAN : CmpBuild(built)
    \/ \E elf \in CmpElfs, hasTohost \in BOOLEAN :
           (cmpRun.cmd = "suite" => elf \in SuiteElfs) /\ CmpLoad(elf, hasTohost)
    \/ \E outcome \in Outcomes : CmpSimulate(outcome)
    \/ CmpSummaryOpen
    \/ CmpSummary
    \/ CmpJunitOpen
    \/ CmpJunit
    \/ \E trace \in SeqsUpTo(CmpDutRows, CmpDutLength),
          lines \in SeqsUpTo(CmpSailLines, CmpSailLength) : CmpCompare(trace, lines)
    \/ CmpKill
    \/ CmpAgain
------------------------------------------------------------------------------
(* Properties. *)

\* What a simulator's $readmemh makes of the lines: word index -> bytes by lane.
ReadMemh(lines) ==
    FoldLeft(LAMBDA acc, line :
                 IF "at" \in DOMAIN line THEN [acc EXCEPT !.at = line.at]
                 ELSE [at |-> acc.at + 1,
                       mem |-> [w \in DOMAIN acc.mem \cup {acc.at} |->
                                   IF w = acc.at THEN Reverse(line.hex) ELSE acc.mem[w]]],
             [at |-> 0, mem |-> <<>>], lines).mem

\* The simulated memory is the program: every byte of every segment, zero fill
\* included, at its own address, although words are sparse, shared between
\* segments and printed in reverse; and no word without a loaded byte is
\* written.
CmpImageExact ==
    cmpPhase = "simulate" =>
        LET mem == ReadMemh(cmpMemh)
        IN  /\ \A i \in DOMAIN cmpElf.segs, a \in RAM_BASE .. Limit - 1 :
                   Covers(cmpElf.segs[i], a) =>
                       /\ WordIndex(a) \in DOMAIN mem
                       /\ mem[WordIndex(a)][1 + ((a - RAM_BASE) % WordBytes)]
                              = SegByte(cmpElf.segs[i], a)
            /\ \A w \in DOMAIN mem : \E a \in Loaded(cmpElf.segs) : WordIndex(a) = w

\* A suite that exits with 0 ran every selected program to the end in this very
\* invocation, each passed unless it is an expected failure, which failed, and
\* both reports on disk are whole and this invocation's.  A report that was cut
\* is left by a suite that was killed in its write, never by one that ended.  A
\* JUnit report is never newer than the summary; of one invocation, it was
\* written behind the whole summary and agrees with it.  And a whole summary
\* stops short of a program only behind the failure --fail-fast stopped at.
CmpSuiteSound ==
    LET rows == cmpSummary.rows
        count(set) == Cardinality({i \in DOMAIN rows : rows[i].status \in set})
        cut(report) == report.gen = cmpRun.gen /\ ~report.whole
    IN  /\ cmpPhase = "exit 0" /\ cmpRun.cmd = "suite" =>
               /\ Len(cmpTruth) = Len(cmpRun.tests)
               /\ \A i \in DOMAIN cmpRun.tests :
                      (cmpTruth[i] = "pass") # (cmpRun.tests[i] \in cmpRun.xfails)
               /\ cmpSummary.gen = cmpRun.gen /\ cmpJunit.gen = cmpRun.gen
        /\ cut(cmpSummary) \/ cut(cmpJunit) => cmpPhase \notin {"exit 0", "exit 1"}
        /\ cmpJunit.gen <= cmpSummary.gen
        /\ cmpJunit.gen = cmpSummary.gen =>
               /\ cmpSummary.whole
               /\ cmpJunit.whole =>
                      /\ cmpJunit.tests = Len(rows)
                      /\ cmpJunit.failures = count(Bad)
                      /\ cmpJunit.skipped = count({"xfail"})
        /\ cmpSummary.gen = cmpRun.gen /\ cmpSummary.whole /\ Len(rows) < Len(cmpRun.tests) =>
               cmpRun.failFast /\ rows # <<>> /\ Last(rows).status \in Bad

\* DIFF PASS: the k-th architectural row is the k-th instruction Sail traced,
\* and a register the DUT wrote got the value Sail wrote last before its next
\* instruction, wherever register lines stand in the trace.
CmpDiffSound ==
    cmpDiff.verdict = "pass" =>
        LET dut == SelectSeq(cmpDiff.dut, LAMBDA row : row.arch)
            sail == cmpDiff.sail
            starts == SetToSortSeq({p \in DOMAIN sail : sail[p].kind = "instr"}, <)
            end(k) == IF k = Len(starts) THEN Len(sail) ELSE starts[k + 1] - 1
        IN  \A k \in DOMAIN dut :
                /\ sail[starts[k]].pc = dut[k].pc
                /\ dut[k].rd # 0 =>
                       /\ end(k) > starts[k]
                       /\ sail[end(k)].rd = dut[k].rd
                       /\ sail[end(k)].w = dut[k].w
=============================================================================
