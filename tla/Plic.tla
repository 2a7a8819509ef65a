-------------------------------- MODULE Plic --------------------------------
(***************************************************************************)
(* The interrupt controller rtl/plic/plic.v: level-sensitive gateways, one *)
(* context per hart, claim by a read and completion by a write.  A clock   *)
(* edge is one action; it carries at most one bus access of one hart, which*)
(* sees the registers as they were before the edge.                        *)
(***************************************************************************)
EXTENDS Naturals, FiniteSets, FiniteSetsExt

CONSTANTS
    PlicSources,     \* architectural source IDs, from 1
    PlicHarts,
    PlicPriorities,  \* priorities and thresholds, 0 included
    PlicNobody       \* not a hart

ASSUME PlicAssumption ==
    /\ PlicSources \subseteq Nat \ {0} /\ IsFiniteSet(PlicSources)
    /\ PlicPriorities \subseteq Nat /\ 0 \in PlicPriorities
    /\ PlicNobody \notin PlicHarts

VARIABLES
    plicLine,        \* irq_sources_i
    plicPriority,    \* priority_q
    plicPending,     \* pending_q
    plicInService,   \* in_service_q
    plicEnable,      \* enable_q
    plicThreshold,   \* threshold_q
    plicHandler      \* the hart that claimed a source nobody completed since

plicVars == <<plicLine, plicPriority, plicPending, plicInService, plicEnable, plicThreshold,
              plicHandler>>

PlicInit ==
    /\ plicLine = {}
    /\ plicPriority = [s \in PlicSources |-> 0]
    /\ plicPending = {} /\ plicInService = {}
    /\ plicEnable = [h \in PlicHarts |-> {}]
    /\ plicThreshold = [h \in PlicHarts |-> 0]
    /\ plicHandler = [s \in PlicSources |-> PlicNobody]

\* select_interrupt: the highest priority above the threshold, lowest ID first.
Candidates(h) == {s \in plicPending \cap plicEnable[h] : plicPriority[s] > plicThreshold[h]}
Selected(h) ==
    LET best == {s \in Candidates(h) : \A t \in Candidates(h) : plicPriority[t] <= plicPriority[s]}
    IN  IF best = {} THEN 0 ELSE Min(best)

\* Mutant: the gateway forwards a request that is in service.
RaisedInService == {s \in plicLine : s \notin plicPending}

\* The gateways forward a request that is neither pending nor in service.
Raised == {s \in plicLine : s \notin plicPending /\ s \notin plicInService}
plicConfig == <<plicPriority, plicEnable, plicThreshold>>

PlicIdle ==
    /\ plicPending' = plicPending \cup Raised
    /\ UNCHANGED <<plicLine, plicInService, plicConfig, plicHandler>>

\* A read of the claim register.
PlicClaim(h) ==
    LET id == Selected(h)
    IN  /\ plicPending' = (plicPending \cup Raised) \ {id}
        /\ plicInService' = IF id = 0 THEN plicInService ELSE plicInService \cup {id}
        /\ plicHandler' = IF id = 0 THEN plicHandler ELSE [plicHandler EXCEPT ![id] = h]
        /\ UNCHANGED <<plicLine, plicConfig>>

\* A write of the completion register: any context the source is enabled for.
PlicComplete(h, s) ==
    /\ plicPending' = plicPending \cup Raised
    /\ IF s \in plicEnable[h]
       THEN /\ plicInService' = plicInService \ {s}
            /\ plicHandler' = [plicHandler EXCEPT ![s] = PlicNobody]
       ELSE UNCHANGED <<plicInService, plicHandler>>
    /\ UNCHANGED <<plicLine, plicConfig>>

PlicSetPriority(s, p) ==
    /\ plicPriority' = [plicPriority EXCEPT ![s] = p]
    /\ plicPending' = plicPending \cup Raised
    /\ UNCHANGED <<plicLine, plicInService, plicEnable, plicThreshold, plicHandler>>

PlicSetEnable(h, on) ==
    /\ plicEnable' = [plicEnable EXCEPT ![h] = on]
    /\ plicPending' = plicPending \cup Raised
    /\ UNCHANGED <<plicLine, plicInService, plicPriority, plicThreshold, plicHandler>>

PlicSetThreshold(h, p) ==
    /\ plicThreshold' = [plicThreshold EXCEPT ![h] = p]
    /\ plicPending' = plicPending \cup Raised
    /\ UNCHANGED <<plicLine, plicInService, plicPriority, plicEnable, plicHandler>>

\* A device raises or lowers its line.
PlicDevice(s) ==
    /\ plicLine' = IF s \in plicLine THEN plicLine \ {s} ELSE plicLine \cup {s}
    /\ UNCHANGED <<plicPending, plicInService, plicConfig, plicHandler>>

PlicNext ==
    \/ PlicIdle
    \/ \E h \in PlicHarts : PlicClaim(h)
    \/ \E h \in PlicHarts, s \in PlicSources : PlicComplete(h, s)
    \/ \E s \in PlicSources, p \in PlicPriorities : PlicSetPriority(s, p)
    \/ \E h \in PlicHarts, on \in SUBSET PlicSources : PlicSetEnable(h, on)
    \/ \E h \in PlicHarts, p \in PlicPriorities : PlicSetThreshold(h, p)
    \/ \E s \in PlicSources : PlicDevice(s)

PlicSpec == PlicInit /\ [][PlicNext]_plicVars
------------------------------------------------------------------------------
(* Properties. *)

\* While a hart handles a source, no other claim can hand it out: it is held
\* back at its gateway whatever the device, the other harts' claims and
\* completions of other sources, and changes of the configuration do, so no two
\* harts run the handler of one device between two completions.
PlicExclusive ==
    \A s \in PlicSources :
        /\ plicHandler[s] # PlicNobody <=> s \in plicInService
        /\ s \in plicInService => s \notin plicPending
=============================================================================
