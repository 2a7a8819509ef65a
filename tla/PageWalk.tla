------------------------------ MODULE PageWalk ------------------------------
(***************************************************************************)
(* The page-table walker of one hart, rtl/core/mtl/ptw.v, with the part of *)
(* rtl/core/mtl/mtl.v that requests a walk and installs its result: a walk *)
(* of PwLevels dependent PTE reads, the cache of non-leaf PTEs, SFENCE.VMA *)
(* as a completion-tracked barrier that ends in a fence transaction, and   *)
(* the watchdog that abandons a read the fabric does not answer.           *)
(*                                                                         *)
(* A clock edge is one action; its inputs are the record `in`.  One        *)
(* virtual address is followed.  The content of a page table is its        *)
(* version: a PTE, a cached PTE and a translation are known by the oldest  *)
(* version they were made from.  The fabric is external: it takes requests *)
(* in order and answers them in order; a read may be served from an L2     *)
(* line as old as the last fence.                                          *)
(***************************************************************************)
EXTENDS Naturals, Sequences

CONSTANTS
    PwLevels,     \* 3 for Sv39
    PwStores,     \* bound: stores to the page table
    PwSfences,    \* bound: SFENCE.VMA pulses
    PwTimeouts    \* bound: expirations of the watchdog

ASSUME PwAssumption ==
    /\ PwLevels \in Nat \ {0}
    /\ PwStores \in Nat /\ PwSfences \in Nat /\ PwTimeouts \in Nat

VARIABLES
    pwState,      \* state_q
    pwBackend,    \* backend_state_q
    pwLevel,      \* level_q: PwLevels at the root, 1 at the last
    pwSeen,       \* oldest version among the PTEs of this walk
    pwResp,       \* the response registers: "ok", "fault" or "invalidated"
    pwCache,      \* cached non-leaf PTEs: level -> version, 0 for none
    pwPending,    \* shootdown_pending_q
    pwInflight,   \* shootdown_inflight_q
    pwDrain,      \* icx_timeout_drain_q
    pwMiss,       \* miss_active_q and miss_invalidated_q of mtl.v
    pwTlb,        \* the main TLB: version of the installed translation, 0 for none
    pwFabric,     \* external: accepted requests, oldest first
    pwTable,      \* external: version of the table in memory
    pwPosted,     \* external: a store to the table sits in the L1D's posted queue
    pwL2,         \* external: oldest version an L2 line may still hold
    pwNeeded,     \* version the last SFENCE.VMA ordered
    pwShared,     \* a fence was sent while a timed-out read was unanswered
    pwBudget      \* bounds left

pwWalker == <<pwState, pwBackend, pwLevel, pwSeen, pwResp>>
pwVars == <<pwWalker, pwCache, pwPending, pwInflight, pwDrain, pwMiss, pwTlb, pwFabric,
            pwTable, pwPosted, pwL2, pwNeeded, pwShared, pwBudget>>

PwInit ==
    /\ pwState = "idle" /\ pwBackend = "pmp" /\ pwLevel = PwLevels
    /\ pwSeen = 1 /\ pwResp = "ok"
    /\ pwCache = [level \in 1 .. PwLevels |-> 0]
    /\ pwPending = FALSE /\ pwInflight = FALSE /\ pwDrain = FALSE
    /\ pwMiss = [active |-> FALSE, invalidated |-> FALSE]
    /\ pwTlb = 0
    /\ pwFabric = <<>> /\ pwTable = 1 /\ pwPosted = FALSE /\ pwL2 = 1
    /\ pwNeeded = 1 /\ pwShared = FALSE
    /\ pwBudget = [stores |-> PwStores, sfences |-> PwSfences, timeouts |-> PwTimeouts]
------------------------------------------------------------------------------
(* The wires of a cycle, given its inputs. *)

Walking == pwState \in {"walk", "abort"}
ReqReady(in) ==
    /\ pwState = "idle"
    /\ ~in.invalidate /\ ~pwPending /\ ~pwInflight /\ ~pwDrain
StartWalk(in) == in.miss /\ pwTlb = 0 /\ ~pwMiss.active /\ ReqReady(in)
RespValid(in) == pwState = "resp" /\ ~in.invalidate

PmpFire(in) == pwState = "walk" /\ pwBackend = "pmp" /\ ~in.invalidate /\ in.pmp # "wait"
CacheHit == pwState = "walk" /\ pwCache[pwLevel] # 0
CacheHitUse(in) == PmpFire(in) /\ in.pmp = "allow" /\ CacheHit

WalkRequest == Walking /\ pwBackend = "send"
\* Mutant: the fence is sent while a store is still posted.
ShootdownRequestEarly == pwState = "idle" /\ pwPending /\ ~pwInflight

ShootdownRequest == pwState = "idle" /\ pwPending /\ ~pwInflight /\ ~pwPosted
ReqFire(in) == in.accept /\ (ShootdownRequest \/ WalkRequest)
RespReady == pwDrain \/ pwInflight \/ (Walking /\ pwBackend = "wait")
RespFire(in) == in.answer /\ pwFabric # <<>> /\ RespReady
Timeout(in) ==
    /\ in.expire /\ pwBudget.timeouts > 0
    /\ Walking /\ pwBackend \in {"send", "wait"}
    /\ ~ReqFire(in) /\ ~RespFire(in)

InvalidateBusy == pwPending \/ pwInflight

\* The PTE this cycle delivers, from the cache or the fabric.  What a fence
\* response carries as data is no PTE of any table.
PteVersion(in) == IF CacheHitUse(in) THEN pwCache[pwLevel]
                  ELSE IF Head(pwFabric).op = "read" THEN Head(pwFabric).ver ELSE 0
PteReady(in) == (PmpFire(in) /\ in.pmp = "deny") \/ CacheHitUse(in) \/ RespFire(in)
PteError(in) == (PmpFire(in) /\ in.pmp = "deny") \/ (RespFire(in) /\ in.error)
NoPteYet == PwStores + 2   \* younger than every version
Older(v, w) == IF v < w THEN v ELSE w
------------------------------------------------------------------------------
(* The registers at the clock edge. *)

Respond(result) ==
    /\ pwState' = "resp" /\ pwResp' = result
    /\ UNCHANGED <<pwBackend, pwLevel, pwSeen>>
Backend(next) ==
    /\ pwBackend' = next
    /\ UNCHANGED <<pwState, pwLevel, pwSeen, pwResp>>

\* A cycle with invalidate_i: a request that has left is followed to its
\* response, and the response is dropped.
InvalidateWalk(in) ==
    CASE pwState = "walk" /\ pwBackend = "pmp" -> Respond("invalidated")
      [] pwState = "walk" /\ pwBackend = "send" ->
            /\ pwState' = "abort"
            /\ pwBackend' = IF ReqFire(in) THEN "wait" ELSE "send"
            /\ UNCHANGED <<pwLevel, pwSeen, pwResp>>
      [] pwState = "walk" /\ pwBackend = "wait" /\ ~RespFire(in) ->
            /\ pwState' = "abort"
            /\ UNCHANGED <<pwBackend, pwLevel, pwSeen, pwResp>>
      [] pwState = "abort" /\ pwBackend = "send" /\ ReqFire(in) -> Backend("wait")
      [] Walking /\ pwBackend = "wait" /\ RespFire(in) -> Respond("invalidated")
      [] pwState = "resp" -> Respond("invalidated")
      [] OTHER -> UNCHANGED pwWalker

AdmitWalk(in) ==
    IF StartWalk(in)
    THEN /\ pwState' = "walk" /\ pwBackend' = "pmp" /\ pwLevel' = PwLevels
         /\ pwSeen' = NoPteYet /\ UNCHANGED pwResp
    ELSE UNCHANGED pwWalker

WalkStep(in) ==
    IF Timeout(in) THEN Respond("fault")
    ELSE IF PteReady(in)
    THEN IF PteError(in) \/ in.fault THEN Respond("fault")
         ELSE IF pwLevel = 1
         THEN /\ pwState' = "resp" /\ pwResp' = "ok"
              /\ pwSeen' = Older(pwSeen, PteVersion(in))
              /\ UNCHANGED <<pwBackend, pwLevel>>
         ELSE /\ pwLevel' = pwLevel - 1 /\ pwBackend' = "pmp"
              /\ pwSeen' = Older(pwSeen, PteVersion(in))
              /\ UNCHANGED <<pwState, pwResp>>
    ELSE IF pwBackend = "pmp" /\ PmpFire(in) THEN Backend("send")
    ELSE IF ReqFire(in) THEN Backend("wait")
    ELSE UNCHANGED pwWalker

AbortStep(in) ==
    IF Timeout(in) \/ (pwBackend = "wait" /\ RespFire(in)) THEN Respond("invalidated")
    ELSE IF ReqFire(in) THEN Backend("wait")
    ELSE UNCHANGED pwWalker

WalkerEdge(in) ==
    IF in.invalidate THEN InvalidateWalk(in)
    ELSE CASE pwState = "idle" -> AdmitWalk(in)
           [] pwState = "walk" -> WalkStep(in)
           [] pwState = "abort" -> AbortStep(in)
           [] pwState = "resp" -> pwState' = "idle" /\ UNCHANGED <<pwBackend, pwLevel, pwSeen, pwResp>>

\* pte_cache_fill: a non-leaf PTE the fabric returned without an error.
CacheFill(in) ==
    /\ pwState = "walk" /\ RespFire(in) /\ ~CacheHit
    /\ ~in.error /\ ~in.fault /\ pwLevel > 1
CacheEdge(in) ==
    pwCache' = IF in.invalidate THEN [level \in 1 .. PwLevels |-> 0]
               ELSE IF CacheFill(in) THEN [pwCache EXCEPT ![pwLevel] = PteVersion(in)]
               ELSE pwCache

ShootdownEdge(in) ==
    LET sent == ShootdownRequest /\ ReqFire(in)
    IN  /\ pwPending' = (in.invalidate \/ (pwPending /\ ~sent))
        /\ pwInflight' = ((pwInflight /\ ~RespFire(in)) \/ sent)
        /\ pwShared' = (pwShared \/ (sent /\ pwDrain))

\* The tombstone of a read that was accepted and timed out.  The watchdog is
\* only looked at in cycles without an invalidation.
DrainEdge(in) ==
    pwDrain' = \/ pwDrain /\ ~RespFire(in)
               \/ ~in.invalidate /\ Timeout(in) /\ pwBackend = "wait"

\* mtl.v: the miss register and the fill of the main TLB.
MissEdge(in) ==
    /\ pwMiss' = IF RespValid(in) THEN [active |-> FALSE, invalidated |-> FALSE]
                 ELSE [active |-> pwMiss.active \/ StartWalk(in),
                       invalidated |-> pwMiss.invalidated \/ (in.invalidate /\ pwMiss.active)]
    /\ pwTlb' = IF in.invalidate THEN 0
                ELSE IF RespValid(in) /\ pwMiss.active /\ ~pwMiss.invalidated /\ pwResp = "ok"
                THEN pwSeen ELSE pwTlb

\* The fabric: a fence retires the L2 generation of page-table lines.
FabricEdge(in, ver) ==
    LET left == IF RespFire(in) THEN Tail(pwFabric) ELSE pwFabric
        op == IF ShootdownRequest THEN "fence" ELSE "read"
    IN  /\ pwFabric' = IF ReqFire(in) THEN Append(left, [op |-> op, ver |-> ver]) ELSE left
        /\ pwL2' = IF ReqFire(in) /\ op = "fence" THEN pwTable ELSE pwL2

\* The inputs of a cycle; those no register looks at in this state rest.
When(used, set, rest) == IF used THEN set ELSE {rest}
Inputs ==
    [invalidate : When(pwBudget.sfences > 0, BOOLEAN, FALSE),
     miss : When(pwState = "idle", BOOLEAN, FALSE),
     pmp : When(pwState = "walk" /\ pwBackend = "pmp", {"wait", "allow", "deny"}, "wait"),
     accept : When(WalkRequest \/ ShootdownRequest, BOOLEAN, FALSE),
     answer : When(pwFabric # <<>>, BOOLEAN, FALSE),
     error : When(Walking /\ pwBackend = "wait", BOOLEAN, FALSE),
     fault : When(pwState = "walk", BOOLEAN, FALSE),
     expire : When(Walking, BOOLEAN, FALSE)]

PwClock(in, ver) ==
    /\ ver \in pwL2 .. pwTable
    /\ WalkerEdge(in)
    /\ CacheEdge(in)
    /\ ShootdownEdge(in)
    /\ DrainEdge(in)
    /\ MissEdge(in)
    /\ FabricEdge(in, ver)
    /\ pwNeeded' = IF in.invalidate THEN pwTable + (IF pwPosted THEN 1 ELSE 0) ELSE pwNeeded
    /\ pwBudget' = [pwBudget EXCEPT !.sfences = IF in.invalidate THEN @ - 1 ELSE @,
                                    !.timeouts = IF Timeout(in) THEN @ - 1 ELSE @]
    /\ UNCHANGED <<pwTable, pwPosted>>

\* The hart stores to its page table; the store is posted, and becomes visible later.
PwStore ==
    /\ ~pwPosted /\ pwBudget.stores > 0
    /\ pwPosted' = TRUE
    /\ pwBudget' = [pwBudget EXCEPT !.stores = @ - 1]
    /\ UNCHANGED <<pwWalker, pwCache, pwPending, pwInflight, pwDrain, pwMiss, pwTlb, pwFabric,
                   pwTable, pwL2, pwNeeded, pwShared>>

PwStoreVisible ==
    /\ pwPosted
    /\ pwPosted' = FALSE
    /\ pwTable' = pwTable + 1
    /\ UNCHANGED <<pwWalker, pwCache, pwPending, pwInflight, pwDrain, pwMiss, pwTlb, pwFabric,
                   pwL2, pwNeeded, pwShared, pwBudget>>

PwNext ==
    \/ \E in \in Inputs, ver \in pwL2 .. pwTable : PwClock(in, ver)
    \/ PwStore
    \/ PwStoreVisible

PwSpec == PwInit /\ [][PwNext]_pwVars
------------------------------------------------------------------------------
(* Properties. *)

\* Outside the barrier no translation, and no cached PTE the next walk would
\* use, was made from a page table older than the last SFENCE.VMA: not by a
\* walk that was in flight across it, by a cancelled read whose response came
\* late, by an L2 line, or by a store still posted.  It is stated up to the
\* first fence that shares its transaction with a timed-out read.
PwNoStale ==
    ~InvalidateBusy /\ ~pwShared =>
        /\ pwTlb # 0 => pwTlb >= pwNeeded
        /\ \A level \in 1 .. PwLevels : pwCache[level] # 0 => pwCache[level] >= pwNeeded

\* "pending/inflight retain the barrier until the ICX ACQ_REL fence response
\* has been consumed" (rtl/core/mtl/ptw.v:318): no fence is unanswered once the
\* barrier is over.
PwBarrierRetained ==
    ~InvalidateBusy => \A k \in DOMAIN pwFabric : pwFabric[k].op # "fence"
=============================================================================
