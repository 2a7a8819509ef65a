------------------------------ MODULE MCL2Home ------------------------------
(***************************************************************************)
(* Small instances of L2Home for TLC.                                       *)
(***************************************************************************)
EXTENDS L2Home, TLC

CONSTANTS h1, h2, a, b, c, dev

\* Every line maps to the same directory set and to the same L2 set.
OneSet == [l \in Lines |-> 0]

HartSymmetry == Permutations(Harts)

\* The state without its dead registers: what the tracker, an endpoint or an
\* MSHR of an L1D holds from an earlier transaction is overwritten before it
\* is read again, the value of an LR is used only by an SC that may succeed,
\* and nothing reads the sticky errors.
LiveState ==
    <<directoryVars, dcache, icache, fetch, stores, marked,
      [h \in Harts |-> IF mshr[h].state \in {"complete", "filled"}
                       THEN mshr[h]
                       ELSE [mshr[h] EXCEPT !.data = InitValue]],
      lr_value,
      IF tracker.busy THEN tracker ELSE [tracker EXCEPT !.id = 0,
                                             !.mask = {}, !.line = NoLine],
      [h \in Harts |-> IF EndpointReady(h) THEN NoLine ELSE endpoint[h]],
      cmds, lookup, hit, l2mshr, array, next_way, responses, bus, mem,
      reservation, generation, next_probe_id,
      IF \E i \in MshrIds : l2mshr[i].state = "PROBE_INFLIGHT"
      THEN active_probe ELSE 0>>

\* Only h1 fetches, walks page tables and sends malformed commands.
OneFrontEnd == \A h \in Harts \ {h1} :
    /\ fetch[h] = NoLine
    /\ \A x \in InService : x.hart = h => x.source = "DCACHE"
FrontEndSpec == Init /\ [][Next /\ OneFrontEnd']_vars /\ Fairness
=============================================================================
