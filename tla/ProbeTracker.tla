---------------------------- MODULE ProbeTracker ----------------------------
(***************************************************************************)
(* The probe tracker of the home and one L1D probe endpoint per hart        *)
(* (rtl/complex/coherent/probe_tracker.v, l1d_probe_endpoint.v, and the     *)
(* four-lane wrapper rtl/complex/4h/icx.v).                                 *)
(*                                                                          *)
(* The tracker fans one invalidation out to a set of harts and reports done *)
(* once every target accepted the probe and acknowledged it.  An endpoint   *)
(* owns one slot: it accepts a probe, waits for the L1D to complete the     *)
(* invalidation, and only then answers.  Every per-hart handshake is a step *)
(* of its own; handshakes of different harts commute, so the steps the      *)
(* hardware takes in one clock are covered by their interleavings.          *)
(***************************************************************************)
EXTENDS IcxDefs

CONSTANT ProbeIds       \* 2^OPENRV64_ICX_PROBE_ID_WIDTH probe identities

ASSUME ProbeIdsAssumption == ProbeIds \in Nat \ {0}

VARIABLES
    tracker,            \* the tracker's registers
    endpoint,           \* endpoint[h]: the probe slot of hart h
    probe_error         \* sticky protocol errors of the tracker and endpoints

probeVars == <<tracker, endpoint, probe_error>>

ProbeId == 0 .. ProbeIds - 1
CacheMasks == SUBSET {"I", "D"}

TrackerRegisters ==
    [busy: BOOLEAN, done: BOOLEAN, issue: SUBSET Harts, ack: SUBSET Harts,
     id: ProbeId, mask: CacheMasks, line: Lines]

EndpointSlots ==
    [invalidate: BOOLEAN, response: BOOLEAN, id: ProbeId, line: Lines]

ProbeTypeOK ==
    /\ tracker \in TrackerRegisters
    /\ endpoint \in [Harts -> EndpointSlots]
    /\ probe_error \in SUBSET {"tracker", "timeout"}

ProbeInit ==
    /\ tracker = [busy |-> FALSE, done |-> FALSE, issue |-> {}, ack |-> {},
                  id |-> 0, mask |-> {}, line |-> CHOOSE l \in Lines : TRUE]
    /\ endpoint = [h \in Harts |->
                      [invalidate |-> FALSE, response |-> FALSE, id |-> 0,
                       line |-> CHOOSE l \in Lines : TRUE]]
    /\ probe_error = {}

TrackerStartReady == ~tracker.busy /\ ~tracker.done

\* start_fire: load the target set; nothing has been issued yet.
TrackerStart(targets, id, mask, line) ==
    /\ TrackerStartReady
    /\ tracker' = [busy |-> TRUE, done |-> FALSE, issue |-> targets,
                   ack |-> {}, id |-> id, mask |-> mask, line |-> line]

EndpointReady(h) == ~endpoint[h].invalidate /\ ~endpoint[h].response

\* Mutant: the endpoint does not latch the probe identity.
ProbeIssueStaleId(h) ==
    /\ tracker.busy /\ h \in tracker.issue
    /\ EndpointReady(h)
    /\ tracker' = [tracker EXCEPT !.issue = @ \ {h}, !.ack = @ \cup {h}]
    /\ endpoint' = [endpoint EXCEPT ![h] =
                       [@ EXCEPT !.invalidate = "D" \in tracker.mask,
                                 !.response = "D" \notin tracker.mask,
                                 !.line = tracker.line]]
    /\ UNCHANGED probe_error

\* Mutant: the endpoint acknowledges on acceptance, not on completion.
ProbeIssueEarlyAck(h) ==
    /\ tracker.busy /\ h \in tracker.issue
    /\ EndpointReady(h)
    /\ tracker' = [tracker EXCEPT !.issue = @ \ {h}, !.ack = @ \cup {h}]
    /\ endpoint' = [endpoint EXCEPT ![h] =
                       [invalidate |-> FALSE, response |-> TRUE,
                        id |-> tracker.id, line |-> tracker.line]]
    /\ UNCHANGED probe_error

\* Issue the probe to one target and let its endpoint latch it.  An endpoint
\* stands for the L1D only: a probe that does not select the D-cache is
\* answered at once.
ProbeIssue(h) ==
    /\ tracker.busy /\ h \in tracker.issue
    /\ EndpointReady(h)
    /\ tracker' = [tracker EXCEPT !.issue = @ \ {h}, !.ack = @ \cup {h}]
    /\ endpoint' = [endpoint EXCEPT ![h] =
                       [invalidate |-> "D" \in tracker.mask,
                        response |-> "D" \notin tracker.mask,
                        id |-> tracker.id, line |-> tracker.line]]
    /\ UNCHANGED probe_error

\* The L1D reports that the captured invalidation completed.
EndpointInvalidated(h) ==
    /\ endpoint[h].invalidate
    /\ endpoint' = [endpoint EXCEPT ![h] = [@ EXCEPT !.invalidate = FALSE,
                                                     !.response = TRUE]]

\* The watchdog of a pending invalidation expires: it raises an error and
\* nothing else; the slot stays occupied until the L1D answers.
ProbeTimeout(h) ==
    /\ endpoint[h].invalidate
    /\ probe_error' = probe_error \cup {"timeout"}
    /\ UNCHANGED <<tracker, endpoint>>

\* The tracker consumes an endpoint's ACK in every state.  Only an ACK that
\* answers an issued probe with its identity counts; another is an error.
AckAccepted(h) ==
    tracker.busy /\ h \in tracker.ack /\ endpoint[h].id = tracker.id

\* Mutant: the tracker is done when no issued probe is outstanding, although
\* other targets have not been probed yet.
ProbeAckIgnoresIssue(h) ==
    /\ endpoint[h].response
    /\ endpoint' = [endpoint EXCEPT ![h].response = FALSE]
    /\ IF AckAccepted(h)
       THEN LET ack == tracker.ack \ {h}
            IN  /\ tracker' = [tracker EXCEPT !.ack = ack,
                                              !.busy = ack # {},
                                              !.done = ack = {}]
                /\ UNCHANGED probe_error
       ELSE /\ probe_error' = probe_error \cup {"tracker"}
            /\ UNCHANGED tracker

ProbeAck(h) ==
    /\ endpoint[h].response
    /\ endpoint' = [endpoint EXCEPT ![h].response = FALSE]
    /\ IF AckAccepted(h)
       THEN LET ack == tracker.ack \ {h}
                complete == tracker.issue = {} /\ ack = {}
            IN  /\ tracker' = [tracker EXCEPT !.ack = ack,
                                              !.busy = ~complete,
                                              !.done = complete]
                /\ UNCHANGED probe_error
       ELSE /\ probe_error' = probe_error \cup {"tracker"}
            /\ UNCHANGED tracker

\* The home takes the completion.
TrackerDone ==
    /\ tracker.done
    /\ tracker' = [tracker EXCEPT !.done = FALSE]
=============================================================================
