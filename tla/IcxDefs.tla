------------------------------ MODULE IcxDefs ------------------------------
(***************************************************************************)
(* Vocabulary of the ICX line protocol shared by the coherence modules:     *)
(* harts, 64-byte lines, data values, requester classes and operations      *)
(* (rtl/complex/protocol/defs.v, rtl/complex/coherent/protocol/defs.v).     *)
(* A line is a model value: its address bits matter only through the        *)
(* directory set it maps to.  A data value stands for a whole line.         *)
(***************************************************************************)
EXTENDS Naturals, Sequences, FiniteSets

CONSTANTS
    Harts,          \* NUM_HARTS private-cache endpoints
    Lines,          \* physical 64-byte lines
    DeviceLines,    \* lines whose requests carry ATTR_DEVICE
    BadLines,       \* lines whose lower-memory access returns an error
    Values,         \* line contents
    InitValue,      \* contents of every line at reset
    Absent,         \* "no data": an invalid private line, an empty overlay
    NoLine          \* "no reservation"

ASSUME HartsAssumption == Harts # {}
ASSUME LinesAssumption ==
    /\ Lines # {} /\ NoLine \notin Lines
    /\ DeviceLines \subseteq Lines /\ BadLines \subseteq Lines
ASSUME ValuesAssumption == InitValue \in Values /\ Absent \notin Values

Sources == {"ICACHE", "DCACHE", "PTW", "LEGACY"}
Ops == {"READ", "WRITE", "LR", "SC", "FENCE"}

\* A command as the home captures it.  "cacheable" is ATTR_CACHEABLE without
\* ATTR_DEVICE; "err" tells the malformed commands from the legal ones: a bad
\* command (hart, opcode or lock) or a write-data beat of another transaction.
Commands ==
    [hart: Harts, source: Sources, op: Ops, cacheable: BOOLEAN, line: Lines,
     data: Values, err: {"none", "command", "wdata"}]

OpWrites(op) == op \in {"WRITE", "SC"}

DataOrAbsent == Values \cup {Absent}
=============================================================================
