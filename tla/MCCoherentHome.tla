--------------------------- MODULE MCCoherentHome ---------------------------
(***************************************************************************)
(* Small instances of CoherentHome for TLC.                                 *)
(***************************************************************************)
EXTENDS CoherentHome, TLC

CONSTANTS h1, h2, a, b, c, dev

\* Every line maps to the same directory set, so that entries are replaced.
OneSet == [l \in Lines |-> 0]

HartSymmetry == Permutations(Harts)

\* The state without its dead registers: what the home, the tracker, an
\* endpoint or an MSHR holds from an earlier transaction is overwritten before
\* it is read again, the value of an LR is used only with its reservation, and
\* nothing reads the sticky timeout, or the sticky error where commands may be
\* malformed.
LiveState ==
    <<directoryVars, dcache, icache, fetch, stores, marked,
      [h \in Harts |-> IF mshr[h].state \in {"complete", "filled"}
                       THEN mshr[h]
                       ELSE [mshr[h] EXCEPT !.data = InitValue]],
      [h \in Harts |-> IF reservation[h] = NoLine THEN InitValue
                       ELSE lr_value[h]],
      IF tracker.busy THEN tracker ELSE [tracker EXCEPT !.id = 0,
                                             !.mask = {}, !.line = NoLine],
      [h \in Harts |-> IF EndpointReady(h) THEN NoLine ELSE endpoint[h]],
      probe_error \ {"timeout"}, ~Malformed /\ protocol_error,
      next_probe_id, reservation, l2, state,
      IF state = "IDLE" THEN NoLine ELSE <<req, resp>>,
      IF state \in {"IDLE", "WAIT_WDATA", "DIR_LOOKUP", "DIR_WAIT"}
      THEN 0 ELSE entry,
      IF state \in {"EVICT_PROBE_START", "EVICT_PROBE_WAIT",
                    "WRITE_PROBE_START", "WRITE_PROBE_WAIT", "DIR_CLEAR"}
      THEN probe ELSE NoLine>>
=============================================================================
