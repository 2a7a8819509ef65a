--------------------------- MODULE PageWalkProofs ---------------------------
(***************************************************************************)
(* No translation or cached PTE older than the last SFENCE.VMA is ever     *)
(* used: for any depth of the page table and any number of stores, fences  *)
(* and timeouts.  The argument is an inductive invariant of three parts:   *)
(* what the fabric may hold in each state of the walker, what a pending    *)
(* barrier excludes, and how old the versions are that a walk may still    *)
(* meet.  It holds up to the first fence that shares its transaction with  *)
(* a timed-out read.                                                       *)
(***************************************************************************)
EXTENDS PageWalk, SequenceTheorems, TLAPS

PwRequests == [op : {"read", "fence"}, ver : Nat]

PwTypeOK ==
    /\ pwState \in {"idle", "walk", "abort", "resp"}
    /\ pwBackend \in {"pmp", "send", "wait"}
    /\ pwLevel \in 1 .. PwLevels
    /\ pwSeen \in Nat
    /\ pwResp \in {"ok", "fault", "invalidated"}
    /\ pwCache \in [1 .. PwLevels -> Nat]
    /\ pwPending \in BOOLEAN /\ pwInflight \in BOOLEAN /\ pwDrain \in BOOLEAN
    /\ pwMiss \in [active : BOOLEAN, invalidated : BOOLEAN]
    /\ pwTlb \in Nat
    /\ pwFabric \in Seq(PwRequests)
    /\ pwTable \in Nat /\ pwPosted \in BOOLEAN /\ pwL2 \in Nat
    /\ pwNeeded \in Nat /\ pwShared \in BOOLEAN
    /\ pwBudget \in [stores : Nat, sfences : Nat, timeouts : Nat]

\* The version in memory once the posted store is visible.
Ordered == pwTable + (IF pwPosted THEN 1 ELSE 0)

\* Every version is younger than a line of the L2 may be old, and the version
\* an SFENCE.VMA ordered is in memory or posted.
VersionInv ==
    /\ pwL2 <= pwTable
    /\ pwNeeded <= Ordered
    /\ Ordered + pwBudget.stores = PwStores + 1

AwaitsRead == Walking /\ pwBackend = "wait"
One(op) == Len(pwFabric) = 1 /\ Head(pwFabric).op = op

\* The fabric holds at most one request: the read the walker waits for, a read
\* it gave up, or the fence of the barrier.
FabricInv ==
    /\ AwaitsRead \/ pwDrain => One("read")
    /\ pwInflight => One("fence")
    /\ ~AwaitsRead /\ ~pwDrain /\ ~pwInflight => pwFabric = <<>>
    /\ pwDrain => ~Walking
    /\ pwInflight => pwState = "idle" /\ ~pwDrain

\* A walk has a miss, and an invalidation follows it to the miss: it goes on
\* only to be dropped.
MissInv ==
    /\ pwMiss.active <=> pwState # "idle"
    /\ pwMiss.invalidated => pwState \in {"abort", "resp"}
    /\ pwState = "abort" => pwMiss.invalidated

\* The barrier finds both caches empty and admits nothing that would fill them.
BarrierInv ==
    InvalidateBusy =>
        /\ pwState # "idle" => pwMiss.invalidated
        /\ pwTlb = 0
        /\ \A level \in 1 .. PwLevels : pwCache[level] = 0

\* Once its fence is sent nothing older than the SFENCE.VMA is left: not in the
\* L2, the caches, the walk in progress or the read it waits for.
FreshInv ==
    /\ ~pwPending => pwNeeded <= pwL2
    /\ pwTlb # 0 => pwNeeded <= pwTlb
    /\ \A level \in 1 .. PwLevels : pwCache[level] # 0 => pwNeeded <= pwCache[level]
    /\ pwState = "walk" \/ (pwState = "resp" /\ ~pwMiss.invalidated /\ pwResp = "ok")
          => pwNeeded <= pwSeen
    /\ pwState = "walk" /\ pwBackend = "wait" => pwNeeded <= Head(pwFabric).ver

\* The inductive invariant.
PwInv ==
    /\ PwTypeOK
    /\ VersionInv
    /\ ~pwShared => FabricInv /\ MissInv /\ BarrierInv /\ FreshInv
------------------------------------------------------------------------------
(* The invariant holds at reset and survives a store. *)

\* After reset nothing is cached, waiting or pending.
LEMMA PwInitially == PwInit => PwInv
  <1> SUFFICES ASSUME PwInit
               PROVE  PwInv
    OBVIOUS
  <1> USE DEF PwInit
  <1>1. PwTypeOK
    <2>1. pwFabric \in Seq(PwRequests)
      OBVIOUS
    <2>2. pwBudget \in [stores : Nat, sfences : Nat, timeouts : Nat]
      BY PwAssumption
    <2>3. pwCache \in [1 .. PwLevels -> Nat]
      OBVIOUS
    <2>4. pwMiss \in [active : BOOLEAN, invalidated : BOOLEAN]
      OBVIOUS
    <2>5. pwLevel \in 1 .. PwLevels
      BY PwAssumption
    <2> QED
      BY <2>1, <2>2, <2>3, <2>4, <2>5 DEF PwTypeOK
  <1>2. VersionInv
    BY PwAssumption DEF VersionInv, Ordered
  <1>3. FabricInv
    BY DEF FabricInv, AwaitsRead, Walking
  <1>4. MissInv
    BY DEF MissInv
  <1>5. BarrierInv
    BY DEF BarrierInv, InvalidateBusy
  <1>6. FreshInv
    BY DEF FreshInv
  <1> QED
    BY <1>1, <1>2, <1>3, <1>4, <1>5, <1>6 DEF PwInv

\* A store changes neither the walker nor what was ordered.
LEMMA StoreKeeps ==
    ASSUME PwInv, PwStore \/ PwStoreVisible
    PROVE  PwInv'
  <1>1. /\ UNCHANGED <<pwState, pwBackend, pwLevel, pwSeen, pwResp, pwCache, pwPending,
                       pwInflight, pwDrain, pwMiss, pwTlb, pwFabric, pwL2, pwNeeded, pwShared>>
    BY DEF PwStore, PwStoreVisible, pwWalker
  <1>2. PwTypeOK' /\ VersionInv'
    <2>1. CASE PwStore
      <3>1. pwBudget' \in [stores : Nat, sfences : Nat, timeouts : Nat]
            /\ pwBudget'.stores = pwBudget.stores - 1
        BY <2>1 DEF PwInv, PwTypeOK, PwStore
      <3> QED
        BY <1>1, <2>1, <3>1 DEF PwInv, PwStore, PwTypeOK, VersionInv, Ordered
    <2>2. CASE PwStoreVisible
      <3>1. PwTypeOK'
        <4>1. pwTable' = pwTable + 1 /\ pwPosted' = FALSE /\ pwBudget' = pwBudget
          BY <2>2 DEF PwStoreVisible
        <4>2. pwTable' \in Nat
          BY <4>1 DEF PwInv, PwTypeOK
        <4>3. pwPosted' \in BOOLEAN
          BY <4>1, Zenon
        <4> QED
          BY <1>1, <4>1, <4>2, <4>3, Zenon DEF PwInv, PwTypeOK
      <3>2. VersionInv'
        BY <1>1, <2>2 DEF PwInv, PwStoreVisible, PwTypeOK, VersionInv, Ordered
      <3> QED
        BY <3>1, <3>2
    <2> QED
      BY <2>1, <2>2
  <1>3. ~pwShared' => (FabricInv /\ MissInv /\ BarrierInv /\ FreshInv)'
    BY <1>1 DEF PwInv, FabricInv, MissInv, BarrierInv, FreshInv, AwaitsRead, One, Walking,
                InvalidateBusy
  <1> QED
    BY <1>2, <1>3 DEF PwInv
------------------------------------------------------------------------------
(* A clock edge. *)

\* What the inputs of a cycle are, and when the ones that change a bound occur.
LEMMA InputFacts ==
    ASSUME NEW in \in Inputs
    PROVE  /\ in.invalidate \in BOOLEAN /\ in.miss \in BOOLEAN
           /\ in.accept \in BOOLEAN /\ in.answer \in BOOLEAN
           /\ in.error \in BOOLEAN /\ in.fault \in BOOLEAN /\ in.expire \in BOOLEAN
           /\ in.pmp \in {"wait", "allow", "deny"}
           /\ in.invalidate => pwBudget.sfences > 0
  BY DEF Inputs, When

\* A queue of one request is empty once it is answered,
LEMMA RequestLeft ==
    ASSUME NEW S, NEW s \in Seq(S)
    PROVE  /\ s # <<>> => Tail(s) \in Seq(S) /\ Head(s) \in S
           /\ Len(s) = 1 => s # <<>> /\ Tail(s) = <<>>
  <1>1. s # <<>> => Tail(s) \in Seq(S) /\ Head(s) \in S /\ Len(Tail(s)) = Len(s) - 1
    BY HeadTailProperties
  <1>2. Len(s) = 1 => s # <<>>
    OBVIOUS
  <1>3. ASSUME Len(s) = 1
        PROVE  Tail(s) = <<>>
    <2> DEFINE t == Tail(s)
    <2>1. t \in Seq(S) /\ Len(t) = 0
      BY <1>1, <1>2, <1>3
    <2> HIDE DEF t
    <2>2. t = <<>>
      BY <2>1
    <2> QED
      BY <2>2 DEF t
  <1> QED
    BY <1>1, <1>2, <1>3

\* and an empty one holds a new request alone.
LEMMA RequestSent ==
    ASSUME NEW S, NEW s \in Seq(S), NEW r \in S
    PROVE  /\ Append(s, r) \in Seq(S)
           /\ Len(Append(<<>>, r)) = 1 /\ Head(Append(<<>>, r)) = r
  OBVIOUS

\* The PTE a cycle delivers has a version.
LEMMA PteTyped ==
    ASSUME PwTypeOK, NEW in \in Inputs
    PROVE  /\ CacheHitUse(in) \/ RespFire(in) => PteVersion(in) \in Nat
           /\ NoPteYet \in Nat
  <1>1. pwCache[pwLevel] \in Nat
    BY DEF PwTypeOK
  <1>2. pwFabric # <<>> => Head(pwFabric).ver \in Nat
    <2>1. pwFabric # <<>> => Head(pwFabric) \in PwRequests
      BY RequestLeft DEF PwTypeOK
    <2> QED
      BY <2>1 DEF PwRequests
  <1> QED
    BY <1>1, <1>2, PwAssumption DEF PteVersion, RespFire, NoPteYet

\* Every register keeps its type at a clock edge.
LEMMA ClockTypes ==
    ASSUME PwTypeOK, NEW in \in Inputs, NEW ver \in pwL2 .. pwTable, PwClock(in, ver)
    PROVE  PwTypeOK'
  <1> USE DEF PwTypeOK
  <1>1. /\ pwState' \in {"idle", "walk", "abort", "resp"}
        /\ pwBackend' \in {"pmp", "send", "wait"}
        /\ pwLevel' \in 1 .. PwLevels
        /\ pwSeen' \in Nat
        /\ pwResp' \in {"ok", "fault", "invalidated"}
    <2>1. CASE in.invalidate
      BY <2>1, InputFacts DEF PwClock, WalkerEdge, InvalidateWalk, Respond, Backend, pwWalker
    <2>2. CASE ~in.invalidate /\ pwState = "idle"
      BY <2>2, InputFacts, PteTyped, PwAssumption
         DEF PwClock, WalkerEdge, AdmitWalk, pwWalker
    <2>3. CASE ~in.invalidate /\ pwState = "walk"
      <3>1. WalkStep(in)
        BY <2>3 DEF PwClock, WalkerEdge
      <3>2. CASE Timeout(in) \/ ~PteReady(in)
        BY <3>1, <3>2 DEF WalkStep, Respond, Backend, pwWalker
      <3>3. CASE ~Timeout(in) /\ PteReady(in) /\ (PteError(in) \/ in.fault)
        BY <3>1, <3>3 DEF WalkStep, Respond
      <3>4. CASE ~Timeout(in) /\ PteReady(in) /\ ~(PteError(in) \/ in.fault)
        <4>1. PteVersion(in) \in Nat
          BY <3>4, PteTyped DEF PteReady, PteError
        <4> QED
          BY <3>1, <3>4, <4>1, PwAssumption DEF WalkStep, Older
      <3> QED
        BY <3>2, <3>3, <3>4
    <2>4. CASE ~in.invalidate /\ pwState = "abort"
      BY <2>4 DEF PwClock, WalkerEdge, AbortStep, Respond, Backend, pwWalker
    <2>5. CASE ~in.invalidate /\ pwState = "resp"
      BY <2>5 DEF PwClock, WalkerEdge
    <2> QED
      BY <2>1, <2>2, <2>3, <2>4, <2>5, InputFacts
  <1>2. pwCache' \in [1 .. PwLevels -> Nat]
    BY PteTyped DEF PwClock, CacheEdge, CacheFill
  <1>3. pwPending' \in BOOLEAN /\ pwInflight' \in BOOLEAN /\ pwShared' \in BOOLEAN
        /\ pwDrain' \in BOOLEAN
    BY DEF PwClock, ShootdownEdge, DrainEdge
  <1>4. pwMiss' \in [active : BOOLEAN, invalidated : BOOLEAN]
    BY DEF PwClock, MissEdge
  <1>5. pwTlb' \in Nat
    BY DEF PwClock, MissEdge
  <1>6. pwFabric' \in Seq(PwRequests) /\ pwL2' \in Nat
    <2>1. ver \in Nat
      OBVIOUS
    <2>2. (IF RespFire(in) THEN Tail(pwFabric) ELSE pwFabric) \in Seq(PwRequests)
      BY RequestLeft DEF RespFire
    <2> QED
      BY <2>1, <2>2, RequestSent DEF PwClock, FabricEdge, PwRequests
  <1>7. /\ pwTable' \in Nat /\ pwPosted' \in BOOLEAN /\ pwNeeded' \in Nat
        /\ pwBudget' \in [stores : Nat, sfences : Nat, timeouts : Nat]
    <2>1. pwBudget.sfences \in Nat /\ pwBudget.timeouts \in Nat /\ pwBudget.stores \in Nat
      OBVIOUS
    <2>2. (IF in.invalidate THEN pwBudget.sfences - 1 ELSE pwBudget.sfences) \in Nat
      BY <2>1, InputFacts
    <2>3. (IF Timeout(in) THEN pwBudget.timeouts - 1 ELSE pwBudget.timeouts) \in Nat
      BY <2>1 DEF Timeout
    <2>4. pwBudget' = [pwBudget EXCEPT !.sfences = IF in.invalidate THEN @ - 1 ELSE @,
                                       !.timeouts = IF Timeout(in) THEN @ - 1 ELSE @]
      BY DEF PwClock
    <2>5. pwBudget' \in [stores : Nat, sfences : Nat, timeouts : Nat]
      BY <2>1, <2>2, <2>3, <2>4
    <2>6. pwTable' \in Nat /\ pwPosted' \in BOOLEAN
      BY DEF PwClock
    <2>7. pwNeeded' \in Nat
      BY DEF PwClock
    <2> QED
      BY <2>5, <2>6, <2>7
  <1> QED
    BY <1>1, <1>2, <1>3, <1>4, <1>5, <1>6, <1>7

\* A clock edge orders no version that is not in memory or posted.
LEMMA ClockVersions ==
    ASSUME PwTypeOK, VersionInv, NEW in \in Inputs, NEW ver \in pwL2 .. pwTable,
           PwClock(in, ver)
    PROVE  VersionInv'
  BY InputFacts DEF PwTypeOK, VersionInv, Ordered, PwClock, FabricEdge

\* What an edge does to the wait for a read: a walk begins only from idle, and
\* waits from the acceptance of its read until it is answered or times out.
LEMMA WalkerMoves ==
    ASSUME PwTypeOK, FabricInv, NEW in \in Inputs, WalkerEdge(in)
    PROVE  /\ Walking' => Walking \/ StartWalk(in)
           /\ ~in.invalidate /\ Timeout(in) => ~Walking'
           /\ pwState = "idle" => pwState' = IF StartWalk(in) THEN "walk" ELSE "idle"
           /\ StartWalk(in) => pwState' = "walk" /\ pwBackend' = "pmp"
           /\ AwaitsRead' <=> \/ WalkRequest /\ ReqFire(in)
                              \/ AwaitsRead /\ ~RespFire(in) /\ (in.invalidate \/ ~Timeout(in))
  <1>1. /\ in.invalidate => ~StartWalk(in)
        /\ StartWalk(in) => pwState = "idle"
        /\ Walking => ~pwDrain /\ ~pwInflight /\ ~ShootdownRequest
        /\ WalkRequest /\ ReqFire(in) => ~RespFire(in) /\ ~Timeout(in) /\ ~PmpFire(in)
        /\ AwaitsRead => ~WalkRequest /\ ~PmpFire(in) /\ pwBackend = "wait" /\ ~ReqFire(in)
        /\ RespFire(in) /\ Walking => AwaitsRead
        /\ ReqFire(in) /\ Walking => WalkRequest
        /\ Timeout(in) => Walking /\ ~ReqFire(in) /\ ~RespFire(in)
        /\ Walking <=> pwState \in {"walk", "abort"}
        /\ WalkRequest <=> Walking /\ pwBackend = "send"
        /\ PmpFire(in) => pwState = "walk" /\ pwBackend = "pmp"
    BY DEF StartWalk, ReqReady, FabricInv, Walking, ShootdownRequest, WalkRequest, ReqFire,
           RespFire, RespReady, Timeout, AwaitsRead, PmpFire
  <1>2. CASE in.invalidate
    BY <1>1, <1>2 DEF PwTypeOK, WalkerEdge, InvalidateWalk, Respond, Backend, pwWalker,
                      AwaitsRead, Walking
  <1>3. CASE ~in.invalidate /\ pwState = "idle"
    BY <1>1, <1>3 DEF PwTypeOK, WalkerEdge, AdmitWalk, pwWalker, AwaitsRead, Walking
  <1>4. CASE ~in.invalidate /\ pwState = "walk"
    BY <1>1, <1>4 DEF PwTypeOK, WalkerEdge, WalkStep, Respond, Backend, pwWalker, AwaitsRead,
                      Walking, PteReady, CacheHitUse
  <1>5. CASE ~in.invalidate /\ pwState = "abort"
    BY <1>1, <1>5 DEF PwTypeOK, WalkerEdge, AbortStep, Respond, Backend, pwWalker, AwaitsRead,
                      Walking
  <1>6. CASE ~in.invalidate /\ pwState = "resp"
    BY <1>1, <1>6 DEF PwTypeOK, WalkerEdge, AwaitsRead, Walking
  <1> QED
    BY <1>2, <1>3, <1>4, <1>5, <1>6, InputFacts DEF PwTypeOK

\* What an edge does to the state of the walk: it ends in a response that is
\* taken in a cycle without invalidation, and an invalidation leaves no walk.
LEMMA WalkerStates ==
    ASSUME PwTypeOK, NEW in \in Inputs, WalkerEdge(in)
    PROVE  /\ RespValid(in) => pwState' = "idle"
           /\ pwState # "idle" /\ ~RespValid(in) => pwState' # "idle"
           /\ in.invalidate /\ pwState # "idle" => pwState' \in {"abort", "resp"}
           /\ pwState \in {"abort", "resp"} /\ ~RespValid(in) => pwState' \in {"abort", "resp"}
           /\ pwState' = "abort" => in.invalidate \/ pwState = "abort"
           /\ pwState' \in {"idle", "walk", "abort", "resp"}
  <1>1. RespValid(in) <=> pwState = "resp" /\ ~in.invalidate
    BY DEF RespValid
  <1>2. in.invalidate => ~StartWalk(in)
    BY DEF StartWalk, ReqReady
  <1>3. CASE in.invalidate
    BY <1>1, <1>3 DEF PwTypeOK, WalkerEdge, InvalidateWalk, Respond, Backend, pwWalker, Walking
  <1>4. CASE ~in.invalidate /\ pwState = "idle"
    BY <1>1, <1>4 DEF PwTypeOK, WalkerEdge, AdmitWalk, pwWalker
  <1>5. CASE ~in.invalidate /\ pwState = "walk"
    BY <1>1, <1>5 DEF PwTypeOK, WalkerEdge, WalkStep, Respond, Backend, pwWalker
  <1>6. CASE ~in.invalidate /\ pwState = "abort"
    BY <1>1, <1>6 DEF PwTypeOK, WalkerEdge, AbortStep, Respond, Backend, pwWalker
  <1>7. CASE ~in.invalidate /\ pwState = "resp"
    BY <1>1, <1>7 DEF PwTypeOK, WalkerEdge
  <1> QED
    BY <1>3, <1>4, <1>5, <1>6, <1>7, InputFacts DEF PwTypeOK

\* The fabric still holds at most the one request its state calls for.
LEMMA ClockFabric ==
    ASSUME PwInv, ~pwShared, ~pwShared', NEW in \in Inputs, NEW ver \in pwL2 .. pwTable,
           PwClock(in, ver)
    PROVE  FabricInv'
  <1> DEFINE Request(op) == [op |-> op, ver |-> ver]
  <1>1. PwTypeOK /\ FabricInv /\ WalkerEdge(in) /\ FabricEdge(in, ver)
        /\ ShootdownEdge(in) /\ DrainEdge(in)
    BY DEF PwInv, PwClock
  <1>2. /\ Walking' => Walking \/ StartWalk(in)
        /\ ~in.invalidate /\ Timeout(in) => ~Walking'
        /\ pwState = "idle" => pwState' = IF StartWalk(in) THEN "walk" ELSE "idle"
        /\ StartWalk(in) => pwState' = "walk" /\ pwBackend' = "pmp"
        /\ AwaitsRead' <=> \/ WalkRequest /\ ReqFire(in)
                           \/ AwaitsRead /\ ~RespFire(in) /\ (in.invalidate \/ ~Timeout(in))
    BY <1>1, WalkerMoves
  <1>3. pwFabric \in Seq(PwRequests) /\ Request("read") \in PwRequests
        /\ Request("fence") \in PwRequests
    BY <1>1 DEF PwTypeOK, PwRequests
  <1>4. StartWalk(in) => pwState = "idle" /\ ~pwPending /\ ~pwInflight /\ ~pwDrain
    BY DEF StartWalk, ReqReady
  <1>5. /\ Walking <=> pwState \in {"walk", "abort"}
        /\ AwaitsRead <=> Walking /\ pwBackend = "wait"
        /\ WalkRequest <=> Walking /\ pwBackend = "send"
        /\ ReqFire(in) => ShootdownRequest \/ WalkRequest
        /\ ShootdownRequest => pwState = "idle" /\ pwPending /\ ~pwInflight
        /\ RespFire(in) => pwDrain \/ pwInflight \/ AwaitsRead
        /\ Timeout(in) => Walking /\ ~ReqFire(in) /\ ~RespFire(in)
    BY DEF Walking, AwaitsRead, WalkRequest, ReqFire, ShootdownRequest, RespFire, RespReady,
           Timeout
  <1>6. /\ pwInflight' <=> (pwInflight /\ ~RespFire(in)) \/ (ShootdownRequest /\ ReqFire(in))
        /\ ShootdownRequest /\ ReqFire(in) => ~pwDrain
        /\ pwDrain' <=> \/ pwDrain /\ ~RespFire(in)
                        \/ ~in.invalidate /\ Timeout(in) /\ pwBackend = "wait"
    BY <1>1 DEF ShootdownEdge, DrainEdge
  <1>7. CASE ReqFire(in)
    <2>1. pwFabric = <<>> /\ ~RespFire(in)
      BY <1>1, <1>5, <1>6, <1>7 DEF FabricInv, RespFire
    <2>2. pwFabric' = Append(<<>>, Request(IF ShootdownRequest THEN "fence" ELSE "read"))
      BY <1>1, <1>7, <2>1 DEF FabricEdge
    <2>3. CASE ShootdownRequest
      <3>1. One("fence")'
        BY <1>3, <2>2, <2>3, RequestSent DEF One
      <3> QED
        BY <1>1, <1>2, <1>4, <1>5, <1>6, <1>7, <2>3, <3>1 DEF FabricInv
    <2>4. CASE ~ShootdownRequest
      <3>1. One("read")'
        BY <1>3, <2>2, <2>4, RequestSent DEF One
      <3> QED
        BY <1>1, <1>2, <1>4, <1>5, <1>6, <1>7, <2>1, <2>4, <3>1 DEF FabricInv
    <2> QED
      BY <2>3, <2>4
  <1>8. CASE ~ReqFire(in) /\ RespFire(in)
    <2>1. Len(pwFabric) = 1
      BY <1>1, <1>5, <1>8 DEF FabricInv, One
    <2>2. pwFabric' = <<>>
      BY <1>1, <1>3, <1>8, <2>1, RequestLeft DEF FabricEdge
    <2> QED
      BY <1>1, <1>2, <1>4, <1>5, <1>6, <1>8, <2>2 DEF FabricInv
  <1>9. CASE ~ReqFire(in) /\ ~RespFire(in)
    <2>1. pwFabric' = pwFabric
      BY <1>1, <1>9 DEF FabricEdge
    <2> QED
      BY <1>1, <1>2, <1>4, <1>5, <1>6, <1>9, <2>1 DEF FabricInv, One
  <1> QED
    BY <1>7, <1>8, <1>9

\* The miss follows its walk, and an invalidation marks both.
LEMMA ClockMiss ==
    ASSUME PwInv, ~pwShared, NEW in \in Inputs, NEW ver \in pwL2 .. pwTable, PwClock(in, ver)
    PROVE  MissInv'
  <1>1. PwTypeOK /\ FabricInv /\ MissInv /\ WalkerEdge(in) /\ MissEdge(in)
    BY DEF PwInv, PwClock
  <1>2. /\ RespValid(in) => pwMiss'.active = FALSE /\ pwMiss'.invalidated = FALSE
        /\ ~RespValid(in) =>
              /\ pwMiss'.active <=> pwMiss.active \/ StartWalk(in)
              /\ pwMiss'.invalidated <=> pwMiss.invalidated \/ (in.invalidate /\ pwMiss.active)
    BY <1>1 DEF MissEdge
  <1>3. pwState = "idle" => pwState' = IF StartWalk(in) THEN "walk" ELSE "idle"
    BY <1>1, WalkerMoves
  <1>4. (RespValid(in) => ~in.invalidate) /\ (StartWalk(in) => pwState = "idle")
    BY DEF RespValid, StartWalk, ReqReady
  <1> QED
    BY <1>1, <1>2, <1>3, <1>4, WalkerStates DEF MissInv

\* A barrier starts with empty caches and nothing refills them before its end.
LEMMA ClockBarrier ==
    ASSUME PwInv, ~pwShared, NEW in \in Inputs, NEW ver \in pwL2 .. pwTable, PwClock(in, ver)
    PROVE  BarrierInv'
  <1> SUFFICES ASSUME InvalidateBusy'
               PROVE  /\ pwState' # "idle" => pwMiss'.invalidated
                      /\ pwTlb' = 0
                      /\ \A level \in 1 .. PwLevels : pwCache'[level] = 0
    BY DEF BarrierInv
  <1>1. PwTypeOK /\ FabricInv /\ MissInv /\ BarrierInv /\ WalkerEdge(in) /\ MissEdge(in)
        /\ CacheEdge(in) /\ ShootdownEdge(in)
    BY DEF PwInv, PwClock
  <1>2. ~RespValid(in) =>
           (pwMiss'.invalidated <=> pwMiss.invalidated \/ (in.invalidate /\ pwMiss.active))
    BY <1>1 DEF MissEdge
  <1>3. pwState = "idle" => pwState' = IF StartWalk(in) THEN "walk" ELSE "idle"
    BY <1>1, WalkerMoves
  <1>4. /\ RespValid(in) => ~in.invalidate /\ pwState = "resp" /\ pwState' = "idle"
        /\ StartWalk(in) => ~in.invalidate /\ ~InvalidateBusy
    BY <1>1, WalkerStates DEF RespValid, StartWalk, ReqReady, InvalidateBusy
  <1>5. CASE in.invalidate
    BY <1>1, <1>2, <1>3, <1>4, <1>5 DEF MissInv, MissEdge, CacheEdge
  <1>6. CASE ~in.invalidate
    <2>1. InvalidateBusy
      BY <1>1, <1>6 DEF InvalidateBusy, ShootdownEdge, ShootdownRequest
    <2>2. pwTlb = 0 /\ (pwState # "idle" => pwMiss.invalidated)
          /\ \A level \in 1 .. PwLevels : pwCache[level] = 0
      BY <1>1, <2>1 DEF BarrierInv
    <2>3. pwTlb' = 0
      BY <1>1, <1>4, <1>6, <2>2 DEF MissEdge
    <2>4. pwCache' = pwCache
      BY <1>1, <1>6, <2>2 DEF CacheEdge, CacheFill, MissInv
    <2> QED
      BY <1>2, <1>3, <1>4, <2>1, <2>2, <2>3, <2>4
  <1> QED
    BY <1>5, <1>6

\* Nothing older than the last SFENCE.VMA enters a cache, a walk or the read it
\* waits for.
LEMMA ClockFresh ==
    ASSUME PwInv, ~pwShared, ~pwShared', NEW in \in Inputs, NEW ver \in pwL2 .. pwTable,
           PwClock(in, ver)
    PROVE  FreshInv'
  <1>1. PwTypeOK /\ VersionInv /\ FabricInv /\ MissInv /\ BarrierInv /\ FreshInv
        /\ WalkerEdge(in) /\ MissEdge(in) /\ CacheEdge(in) /\ ShootdownEdge(in)
        /\ FabricEdge(in, ver)
        /\ pwNeeded' = IF in.invalidate THEN Ordered ELSE pwNeeded
    BY DEF PwInv, PwClock, Ordered
  <1>2. /\ pwNeeded \in Nat /\ pwL2 \in Nat /\ pwTable \in Nat /\ pwSeen \in Nat /\ ver \in Nat
        /\ pwL2 <= pwTable /\ pwL2 <= ver
        /\ pwNeeded <= NoPteYet /\ NoPteYet \in Nat
        /\ ~pwPosted => pwNeeded <= pwTable
    BY <1>1, PwAssumption DEF PwTypeOK, VersionInv, Ordered, NoPteYet
  <1>3. PwTypeOK'
    BY <1>1, ClockTypes
  <1>4. /\ RespValid(in) => pwState = "resp"
        /\ StartWalk(in) => pwState = "idle" /\ ~in.invalidate
    BY DEF RespValid, StartWalk, ReqReady
  <1>5. pwState = "walk" => ~pwPending /\ pwNeeded <= pwL2
    BY <1>1 DEF BarrierInv, MissInv, FreshInv, InvalidateBusy
  \* A PTE that this cycle delivers to a walk is young enough.
  <1>6. pwState = "walk" /\ (CacheHitUse(in) \/ RespFire(in))
            => pwNeeded <= PteVersion(in) /\ PteVersion(in) \in Nat
    <2>1. CASE CacheHitUse(in)
      BY <1>1, <2>1 DEF PteVersion, CacheHitUse, CacheHit, FreshInv, PwTypeOK
    <2>2. CASE ~CacheHitUse(in) /\ RespFire(in) /\ pwState = "walk"
      <3>1. AwaitsRead
        BY <1>1, <2>2 DEF RespFire, RespReady, FabricInv, AwaitsRead, Walking
      <3>2. Head(pwFabric).op = "read" /\ pwNeeded <= Head(pwFabric).ver
        BY <1>1, <2>2, <3>1 DEF FabricInv, FreshInv, One, AwaitsRead
      <3> QED
        BY <1>1, <2>2, <3>2, PteTyped DEF PteVersion
    <2> QED
      BY <2>1, <2>2
  <1>7. ~pwPending' => pwNeeded' <= pwL2'
    <2> SUFFICES ASSUME ~pwPending'
                 PROVE  pwNeeded' <= pwL2'
      OBVIOUS
    <2>1. pwNeeded' = pwNeeded /\ (pwPending => ShootdownRequest /\ ReqFire(in))
      BY <1>1 DEF ShootdownEdge
    <2>2. CASE ShootdownRequest /\ ReqFire(in)
      BY <1>1, <1>2, <2>1, <2>2 DEF FabricEdge, ShootdownRequest
    <2>3. CASE ~(ShootdownRequest /\ ReqFire(in))
      BY <1>1, <1>2, <2>1, <2>3 DEF FabricEdge, FreshInv
    <2> QED
      BY <2>2, <2>3
  <1>8. pwTlb' # 0 => pwNeeded' <= pwTlb'
    BY <1>1, <1>4 DEF MissEdge, FreshInv
  <1>9. \A level \in 1 .. PwLevels : pwCache'[level] # 0 => pwNeeded' <= pwCache'[level]
    <2> SUFFICES ASSUME NEW level \in 1 .. PwLevels, pwCache'[level] # 0
                 PROVE  pwNeeded' <= pwCache'[level]
      OBVIOUS
    <2>1. ~in.invalidate
      BY <1>1 DEF CacheEdge
    <2>2. CASE CacheFill(in)
      BY <1>1, <1>6, <2>1, <2>2 DEF CacheEdge, CacheFill, FreshInv, PwTypeOK
    <2>3. CASE ~CacheFill(in)
      BY <1>1, <2>1, <2>3 DEF CacheEdge, FreshInv
    <2> QED
      BY <2>2, <2>3
  <1>10. pwState' = "walk" \/ (pwState' = "resp" /\ ~pwMiss'.invalidated /\ pwResp' = "ok")
             => ~in.invalidate /\ pwNeeded' <= pwSeen'
    <2> SUFFICES ASSUME \/ pwState' = "walk"
                        \/ pwState' = "resp" /\ ~pwMiss'.invalidated /\ pwResp' = "ok"
                 PROVE  ~in.invalidate /\ pwNeeded' <= pwSeen'
      OBVIOUS
    <2>1. ~in.invalidate
      <3>1. in.invalidate /\ pwState = "idle" => pwState' = "idle"
        BY <1>1, <1>4, WalkerMoves
      <3>2. in.invalidate /\ pwState # "idle" => pwState' # "walk" /\ pwMiss'.invalidated
        BY <1>1, WalkerStates DEF MissEdge, MissInv, RespValid
      <3> QED
        BY <3>1, <3>2
    <2>2. pwNeeded' = pwNeeded
      BY <1>1, <2>1
    <2>3. CASE pwState = "idle"
      BY <1>1, <1>2, <2>1, <2>2, <2>3 DEF WalkerEdge, AdmitWalk, pwWalker
    <2>4. CASE pwState = "walk"
      <3>1. WalkStep(in) /\ pwNeeded <= pwSeen
        BY <1>1, <2>1, <2>4 DEF WalkerEdge, FreshInv
      <3>2. CASE ~Timeout(in) /\ PteReady(in) /\ ~(PteError(in) \/ in.fault)
        <4>1. pwNeeded <= PteVersion(in) /\ PteVersion(in) \in Nat
          BY <1>6, <2>4, <3>2 DEF PteReady, PteError
        <4>2. pwSeen' = Older(pwSeen, PteVersion(in))
          BY <3>1, <3>2 DEF WalkStep
        <4> QED
          BY <1>2, <2>1, <2>2, <3>1, <4>1, <4>2 DEF Older
      <3>3. CASE Timeout(in) \/ ~PteReady(in) \/ PteError(in) \/ in.fault
        BY <2>1, <2>2, <3>1, <3>3 DEF WalkStep, Respond, Backend, pwWalker
      <3> QED
        BY <3>2, <3>3
    <2>5. CASE pwState = "abort"
      <3>1. pwMiss'.invalidated
        BY <1>1, <1>4, <2>5 DEF MissInv, MissEdge
      <3> QED
        BY <1>1, <2>5, <3>1, WalkerStates DEF RespValid
    <2>6. CASE pwState = "resp"
      BY <1>1, <2>1, <2>6, WalkerStates DEF RespValid
    <2> QED
      BY <1>1, <2>3, <2>4, <2>5, <2>6 DEF PwTypeOK
  <1>11. pwState' = "walk" /\ pwBackend' = "wait" => pwNeeded' <= Head(pwFabric').ver
    <2> SUFFICES ASSUME pwState' = "walk", pwBackend' = "wait"
                 PROVE  pwNeeded' <= Head(pwFabric').ver
      OBVIOUS
    <2>1. AwaitsRead' /\ ~in.invalidate /\ pwNeeded' = pwNeeded
      BY <1>1, <1>10 DEF AwaitsRead, Walking
    <2>2. ~StartWalk(in) /\ pwState = "walk"
      BY <1>1, <1>10, WalkerMoves, WalkerStates DEF PwTypeOK
    <2>3. CASE WalkRequest /\ ReqFire(in)
      <3>1. pwFabric = <<>> /\ ~ShootdownRequest /\ ~RespFire(in)
        BY <1>1, <2>2, <2>3 DEF WalkRequest, FabricInv, AwaitsRead, Walking, ShootdownRequest,
                                RespFire
      <3>2. pwFabric' = Append(<<>>, [op |-> "read", ver |-> ver])
        BY <1>1, <2>3, <3>1 DEF FabricEdge
      <3>3. Head(pwFabric') = [op |-> "read", ver |-> ver]
        BY <3>2
      <3> QED
        BY <1>2, <1>5, <2>1, <2>2, <3>3
    <2>4. CASE ~(WalkRequest /\ ReqFire(in))
      <3>1. AwaitsRead /\ ~RespFire(in)
        BY <1>1, <2>1, <2>4, WalkerMoves
      <3>2. pwFabric' = pwFabric
        BY <1>1, <3>1 DEF FabricEdge, ReqFire, WalkRequest, ShootdownRequest, AwaitsRead, Walking
      <3> QED
        BY <1>1, <2>1, <2>2, <3>1, <3>2 DEF FreshInv, AwaitsRead
    <2> QED
      BY <2>3, <2>4
  <1> QED
    BY <1>7, <1>8, <1>9, <1>10, <1>11 DEF FreshInv
------------------------------------------------------------------------------
(* The theorems. *)

\* Every step of every agent keeps the inductive invariant.
LEMMA PwStep == PwInv /\ [PwNext]_pwVars => PwInv'
  <1> SUFFICES ASSUME PwInv, [PwNext]_pwVars
               PROVE  PwInv'
    OBVIOUS
  <1>1. ASSUME NEW in \in Inputs, NEW ver \in pwL2 .. pwTable, PwClock(in, ver)
        PROVE  PwInv'
    <2>1. PwTypeOK' /\ VersionInv'
      BY <1>1, ClockTypes, ClockVersions DEF PwInv
    <2>2. pwShared => pwShared'
      BY <1>1 DEF PwClock, ShootdownEdge
    <2>3. ~pwShared' => (FabricInv /\ MissInv /\ BarrierInv /\ FreshInv)'
      BY <1>1, <2>2, ClockFabric, ClockMiss, ClockBarrier, ClockFresh
    <2> QED
      BY <2>1, <2>3 DEF PwInv
  <1>2. CASE PwStore \/ PwStoreVisible
    BY <1>2, StoreKeeps
  <1>3. CASE UNCHANGED pwVars
    BY <1>3 DEF pwVars, pwWalker, PwInv, PwTypeOK, VersionInv, Ordered, FabricInv, MissInv,
                BarrierInv, FreshInv, AwaitsRead, One, Walking, InvalidateBusy
  <1> QED
    BY <1>1, <1>2, <1>3 DEF PwNext

\* The walker, its PTE cache, the barrier and the miss register of mtl.v keep
\* the invariant in every reachable state.
THEOREM PwInvariant == PwSpec => []PwInv
  BY PwInitially, PwStep, PTL DEF PwSpec

\* Outside the barrier no translation and no cached PTE was made from a table
\* older than the last SFENCE.VMA (ptw.v:280-330, mtl.v's miss_invalidated_q).
THEOREM NoStaleTranslation == PwSpec => []PwNoStale
  <1>1. PwInv => PwNoStale
    BY DEF PwInv, PwNoStale, FreshInv, PwTypeOK
  <1> QED
    BY <1>1, PwInvariant, PTL

\* The comment of ptw.v:318 is true up to the first fence that shares its
\* transaction with a timed-out read: the barrier is retained until the fence
\* has been answered.
THEOREM BarrierRetained == PwSpec => [](~pwShared => PwBarrierRetained)
  <1>1. PwInv => (~pwShared => PwBarrierRetained)
    <2> SUFFICES ASSUME PwInv, ~pwShared, ~InvalidateBusy, NEW k \in DOMAIN pwFabric
                 PROVE  pwFabric[k].op # "fence"
      BY DEF PwBarrierRetained
    <2>1. pwFabric \in Seq(PwRequests) /\ FabricInv
      BY DEF PwInv, PwTypeOK
    <2>2. pwFabric # <<>>
      BY <2>1
    <2>3. Len(pwFabric) = 1 /\ Head(pwFabric).op = "read"
      BY <2>1, <2>2 DEF FabricInv, One, InvalidateBusy
    <2>4. k = 1 /\ Head(pwFabric) = pwFabric[1]
      BY <2>1, <2>3
    <2> QED
      BY <2>3, <2>4
  <1> QED
    BY <1>1, PwInvariant, PTL
=============================================================================
