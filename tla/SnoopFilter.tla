---------------------------- MODULE SnoopFilter ----------------------------
(***************************************************************************)
(* The independently tagged snoop-filter directory                          *)
(* (rtl/complex/coherent/snoop_filter.v).                                   *)
(*                                                                          *)
(* A set has Ways entries; an entry records one line and a superset of the  *)
(* harts whose I-cache and D-cache may hold it.  The stored tag and set are *)
(* one line value here.  The registered read image of a lookup always       *)
(* equals the stored row, because a write to the looked-up set also updates *)
(* the image; the model therefore reads the row itself.                     *)
(***************************************************************************)
EXTENDS IcxDefs

CONSTANTS
    Sets, WAYS,     \* geometry: directory sets, entries per set
    SetOf           \* SetOf[l]: the set that the low line-address bits select

ASSUME GeometryAssumption ==
    /\ WAYS \in Nat \ {0}
    /\ SetOf \in [Lines -> Sets]

VARIABLES
    dir,            \* dir[s][w]: directory row
    replace         \* replace[s]: round-robin victim pointer

directoryVars == <<dir, replace>>

Ways == 0 .. WAYS - 1

Entries ==
    [valid: BOOLEAN, line: Lines, i: SUBSET Harts, d: SUBSET Harts]

InvalidEntry == [valid |-> FALSE, line |-> CHOOSE l \in Lines : TRUE,
                 i |-> {}, d |-> {}]

DirectoryTypeOK ==
    /\ dir \in [Sets -> [Ways -> Entries]]
    /\ replace \in [Sets -> Ways]

\* State after the reset sweep has written every row.  The sweep does not
\* write the replacement RAM: its contents are whatever the build powers up
\* with.
DirectoryInit ==
    /\ dir = [s \in Sets |-> [w \in Ways |-> InvalidEntry]]
    /\ replace \in [Sets -> Ways]

\* The ways whose entry is valid and tagged with the line.
MatchingWays(line) ==
    {w \in Ways : dir[SetOf[line]][w].valid /\ dir[SetOf[line]][w].line = line}

LookupHit(line) == MatchingWays(line) # {}

\* The hart is recorded as a D-cache sharer of the line.
RecordedD(h, l) == \E w \in MatchingWays(l) : h \in dir[SetOf[l]][w].d

\* The scan stops at the first match.
LookupWay(line) ==
    CHOOSE w \in MatchingWays(line) : \A x \in MatchingWays(line) : w <= x

InvalidWays(s) == {w \in Ways : ~dir[s][w].valid}

\* Prefer the first invalid way, else the round-robin pointer of the set.
VictimWay(s) ==
    IF InvalidWays(s) # {}
    THEN CHOOSE w \in InvalidWays(s) : \A x \in InvalidWays(s) : w <= x
    ELSE replace[s]

\* Mutant: the victim pointer does not wrap at the last way.
DirectoryAllocateNoWrap(line, w) ==
    /\ dir' = [dir EXCEPT ![SetOf[line]][w] =
                   [valid |-> TRUE, line |-> line, i |-> {}, d |-> {}]]
    /\ replace' = [replace EXCEPT ![SetOf[line]] = w + 1]

\* write_allocate_i: a fresh entry without sharers; the pointer moves on.
DirectoryAllocate(line, w) ==
    /\ dir' = [dir EXCEPT ![SetOf[line]][w] =
                   [valid |-> TRUE, line |-> line, i |-> {}, d |-> {}]]
    /\ replace' = [replace EXCEPT ![SetOf[line]] =
                       IF w = WAYS - 1 THEN 0 ELSE w + 1]

\* Merge write: add sharers, then clear sharers, keep valid and tag.
DirectoryMerge(line, w, addI, addD, clearD) ==
    /\ LET e == dir[SetOf[line]][w]
       IN  dir' = [dir EXCEPT ![SetOf[line]][w] =
                      [e EXCEPT !.i = @ \cup addI,
                                !.d = (@ \cup addD) \ clearD]]
    /\ UNCHANGED replace

\* write_overwrite_i: the whole entry is replaced, the pointer stays.
DirectoryOverwrite(line, w, i, d) ==
    /\ dir' = [dir EXCEPT ![SetOf[line]][w] =
                   [valid |-> TRUE, line |-> line, i |-> i, d |-> d]]
    /\ UNCHANGED replace

\* write_allocate_i with sharers to add.
DirectoryAllocateFor(line, w, i, d) ==
    /\ dir' = [dir EXCEPT ![SetOf[line]][w] =
                   [valid |-> TRUE, line |-> line, i |-> i, d |-> d]]
    /\ replace' = [replace EXCEPT ![SetOf[line]] =
                       IF w = WAYS - 1 THEN 0 ELSE w + 1]
=============================================================================
