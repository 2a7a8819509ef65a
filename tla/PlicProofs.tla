------------------------------ MODULE PlicProofs ------------------------------
(***************************************************************************)
(* The interrupt controller never hands out a source that is being         *)
(* handled: for any number of harts, sources and priorities.               *)
(***************************************************************************)
EXTENDS Plic, TLAPS

HandlerType == plicHandler \in [PlicSources -> PlicHarts \cup {PlicNobody}]

\* PlicExclusive is inductive once the handlers have their type.
PlicInv == HandlerType /\ PlicExclusive

\* The reset state of plic.v: nothing pending, nothing in service.
LEMMA PlicInitially == PlicInit => PlicInv
  BY DEF PlicInit, PlicInv, HandlerType, PlicExclusive

\* What the gateways forward is never in service, so neither are the pending
\* sources once they are joined.
LEMMA RaisedKept ==
    ASSUME PlicInv, NEW s \in PlicSources, s \in plicInService
    PROVE  s \notin plicPending \cup Raised
  BY DEF PlicInv, PlicExclusive, Raised

\* An edge without a claim or a completion keeps the invariant: the idle edge
\* and the writes of priorities, enables and thresholds.
LEMMA GatewayStep ==
    ASSUME PlicInv, plicPending' = plicPending \cup Raised,
           UNCHANGED <<plicInService, plicHandler>>
    PROVE  PlicInv'
  BY RaisedKept DEF PlicInv, HandlerType, PlicExclusive

\* A claim moves the selected source from pending to in service, in one edge.
LEMMA ClaimStep ==
    ASSUME PlicInv, NEW h \in PlicHarts, PlicClaim(h)
    PROVE  PlicInv'
  <1> DEFINE id == Selected(h)
  <1>1. CASE id = 0
    BY <1>1, RaisedKept DEF PlicInv, HandlerType, PlicExclusive, PlicClaim
  <1>2. CASE id # 0
    <2>1. /\ plicPending' = (plicPending \cup Raised) \ {id}
          /\ plicInService' = plicInService \cup {id}
          /\ plicHandler' = [plicHandler EXCEPT ![id] = h]
      BY <1>2 DEF PlicClaim
    <2> HIDE DEF id
    <2>2. HandlerType'
      BY <2>1 DEF PlicInv, HandlerType
    <2>3. ASSUME NEW s \in PlicSources
          PROVE  /\ plicHandler'[s] # PlicNobody <=> s \in plicInService'
                 /\ s \in plicInService' => s \notin plicPending'
      BY <2>1, RaisedKept, PlicAssumption DEF PlicInv, HandlerType, PlicExclusive
    <2> QED
      BY <2>2, <2>3 DEF PlicInv, PlicExclusive
  <1> QED
    BY <1>1, <1>2

\* A completion, by any context the source is enabled for, ends the handling.
LEMMA CompleteStep ==
    ASSUME PlicInv, NEW h \in PlicHarts, NEW c \in PlicSources, PlicComplete(h, c)
    PROVE  PlicInv'
  <1>1. CASE c \in plicEnable[h]
    <2>1. /\ plicPending' = plicPending \cup Raised
          /\ plicInService' = plicInService \ {c}
          /\ plicHandler' = [plicHandler EXCEPT ![c] = PlicNobody]
      BY <1>1 DEF PlicComplete
    <2> QED
      BY <2>1, RaisedKept DEF PlicInv, HandlerType, PlicExclusive
  <1>2. CASE c \notin plicEnable[h]
    BY <1>2, GatewayStep DEF PlicComplete
  <1> QED
    BY <1>1, <1>2

\* Every clock edge keeps the invariant.
LEMMA PlicStep == PlicInv /\ [PlicNext]_plicVars => PlicInv'
  <1> SUFFICES ASSUME PlicInv, [PlicNext]_plicVars
               PROVE  PlicInv'
    OBVIOUS
  <1>1. CASE PlicIdle
    BY <1>1, GatewayStep DEF PlicIdle
  <1>2. ASSUME NEW h \in PlicHarts, PlicClaim(h)
        PROVE  PlicInv'
    BY <1>2, ClaimStep
  <1>3. ASSUME NEW h \in PlicHarts, NEW s \in PlicSources, PlicComplete(h, s)
        PROVE  PlicInv'
    BY <1>3, CompleteStep
  <1>4. ASSUME NEW s \in PlicSources, NEW p \in PlicPriorities, PlicSetPriority(s, p)
        PROVE  PlicInv'
    BY <1>4, GatewayStep DEF PlicSetPriority
  <1>5. ASSUME NEW h \in PlicHarts, NEW on \in SUBSET PlicSources, PlicSetEnable(h, on)
        PROVE  PlicInv'
    BY <1>5, GatewayStep DEF PlicSetEnable
  <1>6. ASSUME NEW h \in PlicHarts, NEW p \in PlicPriorities, PlicSetThreshold(h, p)
        PROVE  PlicInv'
    BY <1>6, GatewayStep DEF PlicSetThreshold
  <1>7. ASSUME NEW s \in PlicSources, PlicDevice(s)
        PROVE  PlicInv'
    BY <1>7 DEF PlicDevice, PlicInv, HandlerType, PlicExclusive
  <1>8. CASE UNCHANGED plicVars
    BY <1>8 DEF plicVars, PlicInv, HandlerType, PlicExclusive
  <1> QED
    BY <1>1, <1>2, <1>3, <1>4, <1>5, <1>6, <1>7, <1>8 DEF PlicNext

\* Between a claim of a source and its completion no claim of any hart returns
\* it, whatever devices and the configuration registers of plic.v do.
THEOREM ClaimExclusive == PlicSpec => []PlicExclusive
  <1>1. PlicInv => PlicExclusive
    BY DEF PlicInv
  <1> QED
    BY <1>1, PlicInitially, PlicStep, PTL DEF PlicSpec
=============================================================================
