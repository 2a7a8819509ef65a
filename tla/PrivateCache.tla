---------------------------- MODULE PrivateCache ----------------------------
(***************************************************************************)
(* The private caches of a hart as the coherence home sees them: the        *)
(* write-through L1D with its store buffer, one demand MSHR and the marked  *)
(* (LR/SC) access path (rtl/core/cache/l1/l1d/l1d.v, l1d/icx.v,             *)
(* rtl/cache/l1/l1.v), and the L1I as a set of clean lines                  *)
(* (rtl/core/cache/l1/l1i/l1i.v).                                           *)
(*                                                                          *)
(* The home takes one command at a time, so an issued command is the one in *)
(* service; the others wait in the structures below.  Prefetches, way       *)
(* selection, byte lanes and latencies are abstracted: a fill may displace  *)
(* any other line, a stored value stands for the whole line.                *)
(***************************************************************************)
EXTENDS IcxDefs

CONSTANTS
    LoadLines, StoreLines, AtomicLines,    \* lines the L1D accesses,
    FetchLines, PtwLines,   \* the L1I fetches and the walker reads
    STORE_BUFFER_LINES,     \* depth of the store buffer
    OverlayFills            \* may a load miss on a line with a buffered store,
                            \* or a store fold into an active miss?

ASSUME AccessAssumption ==
    /\ LoadLines \cup StoreLines \cup AtomicLines \cup FetchLines
       \cup PtwLines \subseteq Lines \ DeviceLines
    /\ STORE_BUFFER_LINES \in Nat \ {0}
    /\ OverlayFills \in BOOLEAN

VARIABLES
    dcache,     \* dcache[h][l]: data of the resident line, or Absent
    icache,     \* icache[h]: lines resident in the L1I
    fetch,      \* fetch[h]: line the L1I waits for, or NoLine
    stores,     \* stores[h]: store buffer, oldest first
    mshr,       \* mshr[h]: the demand miss
    marked,     \* marked[h]: the marked (LR/SC) or fence access in progress
    lr_value    \* lr_value[h]: value the last LR of hart h returned

privateVars == <<dcache, icache, fetch, stores, mshr, marked, lr_value>>

StoreEntries == [line: Lines, data: Values]

\* "filled": the line is written and the LR that missed is not answered yet.
Mshrs == [state: {"free", "need", "issued", "complete", "filled"}, line: Lines,
          data: Values, overlay: DataOrAbsent, reissue: BOOLEAN]

FreeMshr == [state |-> "free", line |-> CHOOSE l \in Lines : TRUE,
             data |-> InitValue, overlay |-> Absent, reissue |-> FALSE]

MarkedStates ==
    {"idle", "lr_reserve", "lr_lookup", "sc_invalidate", "sc_send", "fence"}

Marked == [state: MarkedStates, line: Lines, data: Values]

NoMarked == [state |-> "idle", line |-> CHOOSE l \in Lines : TRUE,
             data |-> InitValue]

PrivateTypeOK ==
    /\ dcache \in [Harts -> [Lines -> DataOrAbsent]]
    /\ icache \in [Harts -> SUBSET Lines]
    /\ fetch \in [Harts -> Lines \cup {NoLine}]
    /\ stores \in [Harts -> Seq(StoreEntries)]
    /\ mshr \in [Harts -> Mshrs]
    /\ marked \in [Harts -> Marked]
    /\ lr_value \in [Harts -> Values]

PrivateInit ==
    /\ dcache = [h \in Harts |-> [l \in Lines |-> Absent]]
    /\ icache = [h \in Harts |-> {}]
    /\ fetch = [h \in Harts |-> NoLine]
    /\ stores = [h \in Harts |-> << >>]
    /\ mshr = [h \in Harts |-> FreeMshr]
    /\ marked = [h \in Harts |-> NoMarked]
    /\ lr_value = [h \in Harts |-> InitValue]

BufferedTo(h, l) == {n \in DOMAIN stores[h] : stores[h][n].line = l}

\* The bytes a younger load sees: the youngest buffered store to the line.
StoreOverlay(h, l) ==
    IF BufferedTo(h, l) = {} THEN Absent
    ELSE stores[h][CHOOSE n \in BufferedTo(h, l) :
                       \A m \in BufferedTo(h, l) : m <= n].data

MissOn(h, l) == mshr[h].state # "free" /\ mshr[h].line = l

AllocateMshr(h, l) ==
    mshr' = [mshr EXCEPT ![h] = [state |-> "need", line |-> l,
                                 data |-> InitValue,
                                 overlay |-> StoreOverlay(h, l),
                                 reissue |-> FALSE]]

\* An ordinary load misses and takes the demand MSHR.  It snapshots the
\* buffered store to its line as the overlay of the fill.
LoadMiss(h, l) ==
    /\ marked[h].state = "idle"
    /\ mshr[h].state = "free"
    /\ l \in LoadLines
    /\ dcache[h][l] = Absent
    /\ OverlayFills \/ BufferedTo(h, l) = {}
    /\ AllocateMshr(h, l)
    /\ UNCHANGED <<dcache, icache, fetch, stores, marked, lr_value>>

\* A posted cacheable store enters the store buffer.  It updates a resident
\* line and folds into a miss on its line, and never allocates.
Store(h, l, v) ==
    /\ marked[h].state = "idle"
    /\ l \in StoreLines
    /\ Len(stores[h]) < STORE_BUFFER_LINES
    /\ OverlayFills \/ ~MissOn(h, l)
    /\ stores' = [stores EXCEPT ![h] = Append(@, [line |-> l, data |-> v])]
    /\ dcache' = IF dcache[h][l] = Absent THEN dcache
                 ELSE [dcache EXCEPT ![h][l] = v]
    /\ mshr' = IF MissOn(h, l) THEN [mshr EXCEPT ![h].overlay = v] ELSE mshr
    /\ UNCHANGED <<icache, fetch, marked, lr_value>>

\* The completed miss is written to the array, its overlay on top, and may
\* displace another clean line without telling the directory.  The MSHR stays
\* for an LR that waits for it.
FillInstall(h, victim) ==
    /\ mshr[h].state = "complete"
    /\ victim # mshr[h].line
    /\ dcache' =
         [dcache EXCEPT
            ![h] = [l \in Lines |->
                      IF l = mshr[h].line
                      THEN IF mshr[h].overlay = Absent THEN mshr[h].data
                                                       ELSE mshr[h].overlay
                      ELSE IF l = victim THEN Absent ELSE dcache[h][l]]]
    /\ mshr' = [mshr EXCEPT ![h] = IF marked[h].state = "lr_lookup"
                                   THEN [@ EXCEPT !.state = "filled"]
                                   ELSE FreeMshr]
    /\ UNCHANGED <<icache, fetch, stores, marked, lr_value>>

\* speculation_barrier_event: an issued miss will be reissued, completed data
\* is dropped and requested again.  The overlay stays with the MSHR.
AfterBarrier(m) ==
    IF m.state = "issued" THEN [m EXCEPT !.reissue = TRUE]
    ELSE IF m.state \in {"complete", "filled"} THEN [m EXCEPT !.state = "need"]
    ELSE m

BeginMarked(h, st, l, v) ==
    /\ marked[h].state = "idle"
    /\ marked' = [marked EXCEPT ![h] = [state |-> st, line |-> l, data |-> v]]
    /\ mshr' = [mshr EXCEPT ![h] = AfterBarrier(@)]
    /\ UNCHANGED <<dcache, icache, fetch, stores, lr_value>>

\* A marked read first reserves at the home ...
BeginLR(h, l) == l \in AtomicLines /\ BeginMarked(h, "lr_reserve", l, InitValue)

\* ... a marked write first revokes the hart's own copy ...
BeginSC(h, l, v) == l \in AtomicLines /\ BeginMarked(h, "sc_invalidate", l, v)

\* ... and a fence drains the store buffer before it crosses the fabric.
BeginFence(h) ==
    BeginMarked(h, "fence", CHOOSE l \in Lines : TRUE, InitValue)

\* The cached lookup of an LR after its reservation was granted: a resident
\* line answers it,
LRHit(h) ==
    /\ marked[h].state = "lr_lookup"
    /\ mshr[h].state = "free"
    /\ dcache[h][marked[h].line] # Absent
    /\ lr_value' = [lr_value EXCEPT ![h] = dcache[h][marked[h].line]]
    /\ marked' = [marked EXCEPT ![h] = NoMarked]
    /\ UNCHANGED <<dcache, icache, fetch, stores, mshr>>

\* an absent one takes the MSHR with an ordinary read,
LRMiss(h) ==
    /\ marked[h].state = "lr_lookup"
    /\ mshr[h].state = "free"
    /\ dcache[h][marked[h].line] = Absent
    /\ AllocateMshr(h, marked[h].line)
    /\ UNCHANGED <<dcache, icache, fetch, stores, marked, lr_value>>

\* and the miss answers it with its own data once the line is written.
LRFill(h) ==
    /\ marked[h].state = "lr_lookup"
    /\ mshr[h].state = "filled"
    /\ lr_value' = [lr_value EXCEPT ![h] = mshr[h].data]
    /\ marked' = [marked EXCEPT ![h] = NoMarked]
    /\ mshr' = [mshr EXCEPT ![h] = FreeMshr]
    /\ UNCHANGED <<dcache, icache, fetch, stores>>

\* The local invalidation of a marked write; it waits for every miss.
SelfInvalidate(h) ==
    /\ marked[h].state = "sc_invalidate"
    /\ mshr[h].state = "free"
    /\ dcache' = [dcache EXCEPT ![h][marked[h].line] = Absent]
    /\ marked' = [marked EXCEPT ![h].state = "sc_send"]
    /\ UNCHANGED <<icache, fetch, stores, mshr, lr_value>>

\* Mutant: a snoop leaves completed miss data alone.
AfterSnoopKeepsData(m, l) ==
    IF m.line = l /\ m.state = "issued" THEN [m EXCEPT !.reissue = TRUE] ELSE m

\* A targeted snoop revokes the line and every miss data it finds for it:
\* completed data is dropped and requested again, an issued miss will be.
AfterSnoop(m, l) ==
    IF m.line # l THEN m ELSE AfterBarrier(m)

SnoopInvalidate(h, l) ==
    /\ dcache' = [dcache EXCEPT ![h][l] = Absent]
    /\ mshr' = [mshr EXCEPT ![h] = AfterSnoop(@, l)]
    /\ UNCHANGED <<icache, fetch, stores, marked, lr_value>>

\* The L1I misses on a line.
FetchMiss(h, l) ==
    /\ fetch[h] = NoLine
    /\ l \in FetchLines \ icache[h]
    /\ fetch' = [fetch EXCEPT ![h] = l]
    /\ UNCHANGED <<dcache, icache, stores, mshr, marked, lr_value>>

\* FENCE.I drops every L1I line.
FenceI(h) ==
    /\ icache[h] # {}
    /\ icache' = [icache EXCEPT ![h] = {}]
    /\ UNCHANGED <<dcache, fetch, stores, mshr, marked, lr_value>>

\* Everything an L1D does on its own.  It admits no access while an
\* invalidation is pending at its port.
L1DAccess(h, blocked) ==
    \/ /\ ~blocked
       /\ \/ \E l \in Lines : LoadMiss(h, l)
          \/ \E l \in Lines, v \in Values : Store(h, l, v)
          \/ LRHit(h)
          \/ LRMiss(h)
          \/ SelfInvalidate(h)
    \/ \E victim \in Lines \cup {NoLine} : FillInstall(h, victim)
    \/ LRFill(h)
    \/ \E l \in Lines : BeginLR(h, l)
    \/ \E l \in Lines, v \in Values : BeginSC(h, l, v)
    \/ AtomicLines # {} /\ BeginFence(h)

L1IAccess(h) == (\E l \in Lines : FetchMiss(h, l)) \/ FenceI(h)

-----------------------------------------------------------------------------
(* What the requesting cache does with a response of the home.               *)

FetchResponse(h, l, error) ==
    /\ fetch' = [fetch EXCEPT ![h] = NoLine]
    /\ icache' = IF error THEN icache
                 ELSE [icache EXCEPT ![h] = @ \cup {l}]
    /\ UNCHANGED <<dcache, stores, mshr, marked, lr_value>>

StoreResponse(h) ==
    /\ stores' = [stores EXCEPT ![h] = Tail(@)]
    /\ UNCHANGED <<dcache, icache, fetch, mshr, marked, lr_value>>

\* A miss crossed by a barrier or a snoop drops the data and asks again; an
\* error ends the miss, and the LR that waits for it.
FillResponse(h, error, data) ==
    /\ mshr' = [mshr EXCEPT ![h] =
                  IF @.reissue THEN [@ EXCEPT !.state = "need",
                                              !.reissue = FALSE]
                  ELSE IF error THEN FreeMshr
                  ELSE [@ EXCEPT !.state = "complete", !.data = data]]
    /\ marked' = IF /\ ~mshr[h].reissue /\ error
                    /\ marked[h].state = "lr_lookup"
                 THEN [marked EXCEPT ![h] = NoMarked] ELSE marked
    /\ UNCHANGED <<dcache, icache, fetch, stores, lr_value>>

MarkedResponse(h, op, error) ==
    /\ marked' = [marked EXCEPT ![h] =
                    IF op = "LR" /\ ~error
                    THEN [@ EXCEPT !.state = "lr_lookup"] ELSE NoMarked]
    /\ UNCHANGED <<dcache, icache, fetch, stores, mshr, lr_value>>

\* The response to command c, by requester class; the page-table walker and
\* device accesses keep no state here.
Response(c, error, data) ==
    CASE c.source = "ICACHE" -> FetchResponse(c.hart, c.line, error)
      [] c.source = "DCACHE" /\ c.cacheable /\ c.op = "WRITE" ->
             StoreResponse(c.hart)
      [] c.source = "DCACHE" /\ c.cacheable /\ c.op = "READ" ->
             FillResponse(c.hart, error, data)
      [] c.source = "DCACHE" /\ c.op \in {"LR", "SC", "FENCE"} ->
             MarkedResponse(c.hart, c.op, error)
      [] OTHER -> UNCHANGED privateVars

-----------------------------------------------------------------------------

\* The hart's D-cache holds the line, or a completed miss is about to install
\* it: data a snoop must revoke.
HoldsD(h, l) ==
    \/ dcache[h][l] # Absent
    \/ mshr[h].state = "complete" /\ mshr[h].line = l
=============================================================================
