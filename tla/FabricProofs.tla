---------------------------- MODULE FabricProofs ----------------------------
(***************************************************************************)
(* Lemmas about the parts that both coherence homes are made of: the snoop  *)
(* filter, the probe tracker with its endpoints, and the private caches.    *)
(***************************************************************************)
EXTENDS SnoopFilter, ProbeTracker, PrivateCache,
        WellFoundedInduction, SequenceTheorems, TLAPS

-----------------------------------------------------------------------------
(* The directory.                                                            *)

\* A nonempty set of naturals has a least element ...
LEMMA LeastNat ==
    ASSUME NEW S \in SUBSET Nat, S # {}
    PROVE  \E w \in S : \A x \in S : w <= x
<1> DEFINE Less == {p \in Nat \X Nat : p[1] < p[2]}
<1>1. IsWellFoundedOn(Less, Nat)
  BY NatLessThanWellFounded DEF OpToRel
<1>2. PICK w \in S : \A x \in S : ~(<<x, w>> \in Less)
  <2> HIDE DEF Less
  <2> QED BY <1>1, WFMin
<1>3. ASSUME NEW x \in S PROVE ~(x < w)
  <2>1. <<x, w>> \in Nat \X Nat /\ <<x, w>>[1] = x /\ <<x, w>>[2] = w
    OBVIOUS
  <2> QED BY <2>1, <1>2, Zenon
<1> QED
  BY <1>3

\* ... and a bounded one has a greatest.
LEMMA GreatestNat ==
    ASSUME NEW n \in Nat, NEW S \in SUBSET (1 .. n), S # {}
    PROVE  \E w \in S : \A x \in S : x <= w
<1> DEFINE T == {n - x : x \in S}
<1>1. \A x \in S : n - x \in Nat
  OBVIOUS
<1>2. T \in SUBSET Nat /\ T # {}
  BY <1>1, Zenon
<1>3. PICK t \in T : \A y \in T : t <= y
  <2> HIDE DEF T
  <2> QED BY <1>2, LeastNat
<1>4. PICK w \in S : t = n - w
  BY <1>3
<1>5. \A x \in S : n - w <= n - x
  BY <1>3, <1>4
<1> QED
  BY <1>5

\* So the CHOOSE of LookupWay and VictimWay is the first way that the scan of
\* snoop_filter.v:207-268 finds.
LEMMA LeastWay ==
    ASSUME NEW S \in SUBSET Ways, S # {}
    PROVE  (CHOOSE w \in S : \A x \in S : w <= x) \in S
<1>1. S \in SUBSET Nat
  BY GeometryAssumption DEF Ways
<1> QED
  BY <1>1, LeastNat, Zenon

\* What a lookup returns is a way of the set, a matching one on a hit.
LEMMA LookupWays ==
    ASSUME DirectoryTypeOK, NEW l \in Lines
    PROVE  /\ LookupHit(l) => LookupWay(l) \in MatchingWays(l)
           /\ MatchingWays(l) \subseteq Ways
           /\ VictimWay(SetOf[l]) \in Ways
<1>1. MatchingWays(l) \subseteq Ways
  BY DEF MatchingWays
<1>2. LookupHit(l) => LookupWay(l) \in MatchingWays(l)
  BY <1>1, LeastWay DEF LookupHit, LookupWay
<1>3. InvalidWays(SetOf[l]) \subseteq Ways
  BY DEF InvalidWays
<1>4. replace[SetOf[l]] \in Ways
  BY GeometryAssumption DEF DirectoryTypeOK
<1>5. VictimWay(SetOf[l]) \in Ways
  BY <1>3, <1>4, LeastWay DEF VictimWay
<1> QED
  BY <1>1, <1>2, <1>5

\* Only the D-sharers of one entry change.
SharersMerged(l, w, addD, clearD) ==
    \A s \in Sets : \A x \in Ways :
        /\ dir'[s][x].valid = dir[s][x].valid
        /\ dir'[s][x].line = dir[s][x].line
        /\ (s = SetOf[l] /\ x = w) =>
              dir'[s][x].d = (dir[s][x].d \cup addD) \ clearD
        /\ ~(s = SetOf[l] /\ x = w) => dir'[s][x].d = dir[s][x].d

\* A merge write changes the sharers of one entry and nothing else.
LEMMA MergeWrite ==
    ASSUME DirectoryTypeOK, NEW l \in Lines, NEW w \in Ways,
           NEW addI \in SUBSET Harts, NEW addD \in SUBSET Harts,
           NEW clearD \in SUBSET Harts,
           DirectoryMerge(l, w, addI, addD, clearD)
    PROVE  DirectoryTypeOK' /\ SharersMerged(l, w, addD, clearD)
<1> DEFINE e == dir[SetOf[l]][w]
<1>1. SetOf[l] \in Sets
  BY GeometryAssumption
<1>2. e \in Entries
  BY <1>1 DEF DirectoryTypeOK
<1> DEFINE f == [e EXCEPT !.i = @ \cup addI, !.d = (@ \cup addD) \ clearD]
<1>3. f \in Entries /\ f.valid = e.valid /\ f.line = e.line
      /\ f.d = (e.d \cup addD) \ clearD
  BY <1>2 DEF Entries
<1>4. dir' = [dir EXCEPT ![SetOf[l]][w] = f]
  BY DEF DirectoryMerge
<1> HIDE DEF f
<1>5. /\ DirectoryTypeOK'
      /\ \A s \in Sets : \A x \in Ways :
            dir'[s][x] = IF s = SetOf[l] /\ x = w THEN f ELSE dir[s][x]
  <2> HIDE DEF e
  <2>1. DirectoryTypeOK'
    BY <1>1, <1>3, <1>4 DEF DirectoryMerge, DirectoryTypeOK
  <2> QED BY <1>1, <1>4, <2>1 DEF DirectoryTypeOK
<1> QED
  BY <1>3, <1>5 DEF SharersMerged

\* An allocation replaces one entry by a fresh one without sharers.
LEMMA AllocateWrite ==
    ASSUME DirectoryTypeOK, NEW l \in Lines, NEW w \in Ways,
           DirectoryAllocate(l, w)
    PROVE  /\ DirectoryTypeOK'
           /\ \A s \in Sets : \A x \in Ways :
                 dir'[s][x] = IF s = SetOf[l] /\ x = w
                              THEN [valid |-> TRUE, line |-> l,
                                    i |-> {}, d |-> {}]
                              ELSE dir[s][x]
<1>1. SetOf[l] \in Sets
  BY GeometryAssumption
<1>2. [valid |-> TRUE, line |-> l, i |-> {}, d |-> {}] \in Entries
  BY DEF Entries
<1>3. (IF w = WAYS - 1 THEN 0 ELSE w + 1) \in Ways
  BY GeometryAssumption DEF Ways
<1> QED
  BY <1>1, <1>2, <1>3 DEF DirectoryAllocate, DirectoryTypeOK

\* The write of an entry with its sharers: the pointer moves, or it stays.
LEMMA EntryWrite ==
    ASSUME DirectoryTypeOK, NEW l \in Lines, NEW w \in Ways,
           NEW i \in SUBSET Harts, NEW d \in SUBSET Harts,
           DirectoryAllocateFor(l, w, i, d) \/ DirectoryOverwrite(l, w, i, d)
    PROVE  /\ DirectoryTypeOK'
           /\ \A s \in Sets : \A x \in Ways :
                 dir'[s][x] = IF s = SetOf[l] /\ x = w
                              THEN [valid |-> TRUE, line |-> l,
                                    i |-> i, d |-> d]
                              ELSE dir[s][x]
<1> DEFINE e == [valid |-> TRUE, line |-> l, i |-> i, d |-> d]
<1>1. SetOf[l] \in Sets
  BY GeometryAssumption
<1>2. e \in Entries
  BY DEF Entries
<1>3. (IF w = WAYS - 1 THEN 0 ELSE w + 1) \in Ways
  BY GeometryAssumption DEF Ways
<1>4. dir' = [dir EXCEPT ![SetOf[l]][w] = e]
  BY DEF DirectoryAllocateFor, DirectoryOverwrite
<1>5. replace' \in [Sets -> Ways]
  BY <1>1, <1>3
     DEF DirectoryAllocateFor, DirectoryOverwrite, DirectoryTypeOK
<1> HIDE DEF e
<1>6. DirectoryTypeOK'
      /\ \A s \in Sets : \A x \in Ways :
            dir'[s][x] = IF s = SetOf[l] /\ x = w THEN e ELSE dir[s][x]
  BY <1>1, <1>2, <1>4, <1>5 DEF DirectoryTypeOK
<1> QED
  BY <1>6 DEF e

-----------------------------------------------------------------------------
(* Types.                                                                    *)

LEMMA SomeLine == (CHOOSE l \in Lines : TRUE) \in Lines
  BY LinesAssumption
\* Out of reset.
LEMMA InitFabricType ==
    ASSUME DirectoryInit, ProbeInit, PrivateInit
    PROVE  DirectoryTypeOK /\ ProbeTypeOK /\ PrivateTypeOK
<1> USE SomeLine, HartsAssumption, LinesAssumption, ValuesAssumption,
        GeometryAssumption, ProbeIdsAssumption
<1>1. DirectoryTypeOK
  BY DEF DirectoryInit, DirectoryTypeOK, InvalidEntry, Entries
<1>2. ProbeTypeOK
  BY DEF ProbeInit, ProbeTypeOK, TrackerRegisters, EndpointSlots, ProbeId,
         CacheMasks
<1>3. PrivateTypeOK
  BY DEF PrivateInit, PrivateTypeOK, DataOrAbsent, FreeMshr, Mshrs, NoMarked,
         Marked, MarkedStates
<1> QED
  BY <1>1, <1>2, <1>3

\* A step of a private cache keeps the types of the private caches.
LEMMA AllocateMshrType ==
    ASSUME PrivateTypeOK, NEW h \in Harts, NEW l \in Lines, AllocateMshr(h, l)
    PROVE  mshr' \in [Harts -> Mshrs]
<1>1. BufferedTo(h, l) \subseteq DOMAIN stores[h] /\ stores[h] \in Seq(StoreEntries)
  BY DEF PrivateTypeOK, BufferedTo
<1>2. StoreOverlay(h, l) \in DataOrAbsent
  <2>1. CASE BufferedTo(h, l) = {}
    BY <2>1 DEF StoreOverlay, DataOrAbsent
  <2>2. CASE BufferedTo(h, l) # {}
    <3> DEFINE B == BufferedTo(h, l)
               n == CHOOSE k \in B : \A m \in B : m <= k
    <3>1. Len(stores[h]) \in Nat /\ B \in SUBSET (1 .. Len(stores[h]))
      BY <1>1
    <3>2. n \in B
      <4> HIDE DEF B
      <4> QED BY <3>1, <2>2, GreatestNat DEF B
    <3>3. stores[h][n] \in StoreEntries
      BY <3>1, <3>2, <1>1
    <3> QED BY <3>3, <2>2 DEF StoreOverlay, DataOrAbsent, StoreEntries
  <2> QED BY <2>1, <2>2
<1> QED
  BY <1>2, ValuesAssumption DEF AllocateMshr, PrivateTypeOK, Mshrs

LEMMA MshrTypes ==
    /\ FreeMshr \in Mshrs /\ NoMarked \in Marked
    /\ \A m \in Mshrs : AfterBarrier(m) \in Mshrs
    /\ \A m \in Mshrs, l \in Lines : AfterSnoop(m, l) \in Mshrs
<1>1. FreeMshr \in Mshrs /\ NoMarked \in Marked
  BY SomeLine, ValuesAssumption
     DEF FreeMshr, Mshrs, NoMarked, Marked, MarkedStates, DataOrAbsent
<1>2. \A m \in Mshrs : AfterBarrier(m) \in Mshrs
  BY DEF AfterBarrier, Mshrs
<1> QED
  BY <1>1, <1>2 DEF AfterSnoop

\* A step of an L1D or an L1I keeps the types of the private caches.
LEMMA AccessType ==
    ASSUME PrivateTypeOK, NEW h \in Harts, NEW blocked,
           L1DAccess(h, blocked) \/ L1IAccess(h)
    PROVE  PrivateTypeOK'
<1>1. ASSUME NEW l \in Lines, LoadMiss(h, l) PROVE PrivateTypeOK'
  BY <1>1, AllocateMshrType DEF LoadMiss, PrivateTypeOK
<1>2. ASSUME NEW l \in Lines, NEW v \in Values, Store(h, l, v)
      PROVE  PrivateTypeOK'
  <2>1. [line |-> l, data |-> v] \in StoreEntries
    BY DEF StoreEntries
  <2>2. stores' \in [Harts -> Seq(StoreEntries)]
    BY <1>2, <2>1 DEF Store, PrivateTypeOK
  <2>3. dcache' \in [Harts -> [Lines -> DataOrAbsent]]
    BY <1>2 DEF Store, PrivateTypeOK, DataOrAbsent
  <2>4. mshr' \in [Harts -> Mshrs]
    BY <1>2 DEF Store, PrivateTypeOK, Mshrs, DataOrAbsent
  <2> QED BY <1>2, <2>2, <2>3, <2>4 DEF Store, PrivateTypeOK
<1>3. ASSUME NEW victim, FillInstall(h, victim) PROVE PrivateTypeOK'
  <2>1. mshr' \in [Harts -> Mshrs]
    <3>1. [mshr[h] EXCEPT !.state = "filled"] \in Mshrs
      BY DEF PrivateTypeOK, Mshrs
    <3> QED BY <1>3, <3>1, MshrTypes DEF FillInstall, PrivateTypeOK
  <2>2. mshr[h].data \in DataOrAbsent /\ mshr[h].overlay \in DataOrAbsent
        /\ Absent \in DataOrAbsent
    BY DEF PrivateTypeOK, Mshrs, DataOrAbsent
  <2>3. dcache' \in [Harts -> [Lines -> DataOrAbsent]]
    BY <1>3, <2>2 DEF FillInstall, PrivateTypeOK
  <2> QED BY <1>3, <2>1, <2>3 DEF FillInstall, PrivateTypeOK
<1>4. ASSUME NEW st \in MarkedStates, NEW l \in Lines, NEW v \in Values,
             BeginMarked(h, st, l, v)
      PROVE  PrivateTypeOK'
  <2>1. mshr' \in [Harts -> Mshrs]
    BY <1>4, MshrTypes DEF BeginMarked, PrivateTypeOK
  <2>2. marked' \in [Harts -> Marked]
    BY <1>4 DEF BeginMarked, PrivateTypeOK, Marked
  <2> QED BY <1>4, <2>1, <2>2 DEF BeginMarked, PrivateTypeOK
<1>5. CASE \E l \in Lines : BeginLR(h, l)
  BY <1>4, <1>5, ValuesAssumption DEF BeginLR, MarkedStates
<1>6. CASE \E l \in Lines, v \in Values : BeginSC(h, l, v)
  BY <1>4, <1>6 DEF BeginSC, MarkedStates
<1>7. CASE BeginFence(h)
  BY <1>4, <1>7, SomeLine, ValuesAssumption DEF BeginFence, MarkedStates
<1>8. CASE LRHit(h)
  <2>1. dcache[h][marked[h].line] \in Values
    BY <1>8 DEF LRHit, PrivateTypeOK, Marked, DataOrAbsent
  <2> QED BY <1>8, <2>1, MshrTypes DEF LRHit, PrivateTypeOK
<1>9. CASE LRMiss(h)
  <2>1. marked[h].line \in Lines
    BY DEF PrivateTypeOK, Marked
  <2> QED BY <1>9, <2>1, AllocateMshrType DEF LRMiss, PrivateTypeOK
<1>10. CASE LRFill(h)
  <2>1. mshr[h].data \in Values
    BY DEF PrivateTypeOK, Mshrs
  <2> QED BY <1>10, <2>1, MshrTypes DEF LRFill, PrivateTypeOK
<1>11. CASE SelfInvalidate(h)
  <2>1. dcache' \in [Harts -> [Lines -> DataOrAbsent]]
    BY <1>11 DEF SelfInvalidate, PrivateTypeOK, DataOrAbsent
  <2>2. marked' \in [Harts -> Marked]
    BY <1>11 DEF SelfInvalidate, PrivateTypeOK, Marked, MarkedStates
  <2> QED BY <1>11, <2>1, <2>2 DEF SelfInvalidate, PrivateTypeOK
<1>12. CASE L1IAccess(h)
  BY <1>12 DEF L1IAccess, FetchMiss, FenceI, PrivateTypeOK
<1> QED
  BY <1>1, <1>2, <1>3, <1>5, <1>6, <1>7, <1>8, <1>9, <1>10, <1>11, <1>12
     DEF L1DAccess

LEMMA SnoopType ==
    ASSUME PrivateTypeOK, NEW h \in Harts, NEW l \in Lines,
           SnoopInvalidate(h, l)
    PROVE  PrivateTypeOK'
<1>1. mshr' \in [Harts -> Mshrs]
  BY MshrTypes DEF SnoopInvalidate, PrivateTypeOK
<1>2. dcache' \in [Harts -> [Lines -> DataOrAbsent]]
  BY DEF SnoopInvalidate, PrivateTypeOK, DataOrAbsent
<1> QED
  BY <1>1, <1>2 DEF SnoopInvalidate, PrivateTypeOK

\* A handshake of the probe fabric keeps its types.
LEMMA ProbeStepType ==
    ASSUME ProbeTypeOK, NEW h \in Harts
    PROVE  /\ ProbeIssue(h) => ProbeTypeOK'
           /\ ProbeTimeout(h) => ProbeTypeOK'
           /\ ProbeAck(h) => ProbeTypeOK'
           /\ EndpointInvalidated(h) /\ UNCHANGED <<tracker, probe_error>>
                 => ProbeTypeOK'
<1>1. ASSUME ProbeIssue(h) PROVE ProbeTypeOK'
  <2>1. tracker' \in TrackerRegisters
    BY <1>1 DEF ProbeIssue, ProbeTypeOK, TrackerRegisters
  <2> DEFINE i == "D" \in tracker.mask
             r == "D" \notin tracker.mask
             e == [invalidate |-> i, response |-> r, id |-> tracker.id,
                   line |-> tracker.line]
  <2>2. i \in BOOLEAN /\ r \in BOOLEAN
    OBVIOUS
  <2>3. endpoint' = [endpoint EXCEPT ![h] = e]
    BY <1>1 DEF ProbeIssue
  <2>4. e \in EndpointSlots
    <3> HIDE DEF i, r
    <3> QED BY <2>2 DEF ProbeTypeOK, TrackerRegisters, EndpointSlots
  <2> HIDE DEF e
  <2> QED BY <1>1, <2>1, <2>3, <2>4 DEF ProbeIssue, ProbeTypeOK
<1>2. ProbeTimeout(h) => ProbeTypeOK'
  BY DEF ProbeTimeout, ProbeTypeOK
<1>3. ASSUME ProbeAck(h) PROVE ProbeTypeOK'
  <2>1. endpoint' \in [Harts -> EndpointSlots]
    BY <1>3 DEF ProbeAck, ProbeTypeOK, EndpointSlots
  <2>2. CASE AckAccepted(h)
    <3> DEFINE ack == tracker.ack \ {h}
               complete == tracker.issue = {} /\ ack = {}
    <3>1. tracker' = [tracker EXCEPT !.ack = ack, !.busy = ~complete,
                                     !.done = complete]
      BY <1>3, <2>2 DEF ProbeAck
    <3>2. ack \in SUBSET Harts /\ complete \in BOOLEAN
      BY DEF ProbeTypeOK, TrackerRegisters
    <3> HIDE DEF ack, complete
    <3> QED BY <1>3, <2>1, <2>2, <3>1, <3>2
            DEF ProbeAck, ProbeTypeOK, TrackerRegisters
  <2>3. CASE ~AckAccepted(h)
    BY <1>3, <2>1, <2>3 DEF ProbeAck, ProbeTypeOK
  <2> QED BY <2>2, <2>3
<1>4. ASSUME EndpointInvalidated(h), UNCHANGED <<tracker, probe_error>>
      PROVE  ProbeTypeOK'
  <2>1. [endpoint[h] EXCEPT !.invalidate = FALSE, !.response = TRUE]
           \in EndpointSlots
    BY DEF ProbeTypeOK, EndpointSlots
  <2> QED BY <1>4, <2>1 DEF EndpointInvalidated, ProbeTypeOK
<1> QED
  BY <1>1, <1>2, <1>3, <1>4
\* A response keeps the types; the one that pops a store finds one.
LEMMA ResponseType ==
    ASSUME PrivateTypeOK, NEW c \in Commands, NEW error \in BOOLEAN,
           NEW data \in Values, Response(c, error, data),
           c.source = "DCACHE" /\ c.op = "WRITE" /\ c.cacheable =>
              stores[c.hart] # << >>
    PROVE  PrivateTypeOK'
<1> DEFINE h == c.hart
<1>1. h \in Harts /\ c.line \in Lines
  BY DEF Commands
<1> HIDE DEF h
<1>2. CASE FetchResponse(h, c.line, error)
  BY <1>1, <1>2, LinesAssumption DEF FetchResponse, PrivateTypeOK
<1>3. CASE StoreResponse(h) /\ stores[h] # << >>
  <2>1. Tail(stores[h]) \in Seq(StoreEntries)
    BY <1>1, <1>3 DEF PrivateTypeOK
  <2> QED BY <1>1, <1>3, <2>1 DEF StoreResponse, PrivateTypeOK
<1>4. CASE FillResponse(h, error, data)
  <2>1. mshr[h] \in Mshrs
    BY <1>1 DEF PrivateTypeOK
  <2>2. [mshr[h] EXCEPT !.state = "need", !.reissue = FALSE] \in Mshrs
        /\ [mshr[h] EXCEPT !.state = "complete", !.data = data] \in Mshrs
    BY <2>1 DEF Mshrs
  <2>3. mshr' \in [Harts -> Mshrs]
    BY <1>1, <1>4, <2>2, MshrTypes DEF FillResponse, PrivateTypeOK
  <2>4. marked' \in [Harts -> Marked]
    BY <1>1, <1>4, MshrTypes DEF FillResponse, PrivateTypeOK
  <2> QED BY <1>4, <2>3, <2>4 DEF FillResponse, PrivateTypeOK
<1>5. CASE MarkedResponse(h, c.op, error)
  <2>1. [marked[h] EXCEPT !.state = "lr_lookup"] \in Marked
    BY <1>1 DEF PrivateTypeOK, Marked, MarkedStates
  <2> QED BY <1>1, <1>5, <2>1, MshrTypes DEF MarkedResponse, PrivateTypeOK
<1>6. CASE UNCHANGED privateVars
  BY <1>6 DEF privateVars, PrivateTypeOK
<1> QED
  BY <1>2, <1>3, <1>4, <1>5, <1>6 DEF Response, h

-----------------------------------------------------------------------------
(* Holders: a copy appears only with the response to a fill.                 *)

\* At most hart h loses line l; nothing else changes hands.
Drops(h, l) ==
    \A g \in Harts, x \in Lines :
        HoldsD(g, x)' <=> (HoldsD(g, x) /\ ~(g = h /\ x = l))

SameHolders == \A g \in Harts, x \in Lines : HoldsD(g, x)' <=> HoldsD(g, x)
\* An L1D access takes at most one copy away from its own hart.
LEMMA AccessHolders ==
    ASSUME PrivateTypeOK, NEW h \in Harts, NEW blocked, L1DAccess(h, blocked)
    PROVE  \E l \in Lines \cup {NoLine} : Drops(h, l)
<1>0. /\ mshr \in [Harts -> Mshrs] /\ marked \in [Harts -> Marked]
      /\ dcache \in [Harts -> [Lines -> DataOrAbsent]]
      /\ Absent \notin Values /\ NoLine \notin Lines
  BY ValuesAssumption, LinesAssumption DEF PrivateTypeOK
<1>1. SameHolders => Drops(h, NoLine)
  BY <1>0 DEF SameHolders, Drops
<1>2. ASSUME NEW l \in Lines, LoadMiss(h, l) PROVE SameHolders
  <2>1. UNCHANGED dcache /\ mshr[h].state = "free" /\ mshr'[h].state = "need"
        /\ \A g \in Harts : g # h => mshr'[g] = mshr[g]
    BY <1>0, <1>2 DEF LoadMiss, AllocateMshr
  <2> QED BY <2>1 DEF SameHolders, HoldsD
<1>3. ASSUME NEW l \in Lines, NEW v \in Values, Store(h, l, v)
      PROVE  SameHolders
  <2>1. \A g \in Harts : /\ mshr'[g].state = mshr[g].state
                         /\ mshr'[g].line = mshr[g].line
    BY <1>0, <1>3 DEF Store, Mshrs
  <2>2. \A g \in Harts, x \in Lines :
           dcache'[g][x] = Absent <=> dcache[g][x] = Absent
    BY <1>0, <1>3 DEF Store
  <2> QED BY <2>1, <2>2 DEF SameHolders, HoldsD
<1>4. ASSUME NEW victim \in Lines \cup {NoLine}, FillInstall(h, victim)
      PROVE  Drops(h, victim)
  <2> DEFINE m == mshr[h].line
  <2>1. /\ mshr[h].state = "complete"
        /\ mshr'[h].state \in {"free", "filled"}
        /\ \A g \in Harts : g # h =>
              mshr'[g] = mshr[g] /\ dcache'[g] = dcache[g]
        /\ m \in Lines /\ victim # m
    BY <1>0, <1>4 DEF FillInstall, FreeMshr, Mshrs
  <2>2. mshr[h].data # Absent
    BY <1>0 DEF Mshrs
  <2>3. /\ dcache'[h][m] # Absent
        /\ \A x \in Lines : x # m =>
              dcache'[h][x] = IF x = victim THEN Absent ELSE dcache[h][x]
    BY <1>0, <1>4, <2>1, <2>2 DEF FillInstall
  <2> HIDE DEF m
  <2>4. \A x \in Lines : HoldsD(h, x)' <=> (HoldsD(h, x) /\ x # victim)
    BY <2>1, <2>3 DEF HoldsD, m
  <2>5. \A g \in Harts, x \in Lines : g # h => (HoldsD(g, x)' <=> HoldsD(g, x))
    BY <2>1 DEF HoldsD
  <2> QED BY <2>4, <2>5 DEF Drops
<1>5. ASSUME NEW st, NEW l, NEW v, BeginMarked(h, st, l, v)
      PROVE  \E x \in Lines \cup {NoLine} : Drops(h, x)
  <2> DEFINE m == mshr[h].line
  <2>1. /\ UNCHANGED dcache
        /\ \A g \in Harts : g # h => mshr'[g] = mshr[g]
        /\ mshr'[h].state # "complete"
        /\ m \in Lines
    BY <1>0, <1>5 DEF BeginMarked, AfterBarrier, Mshrs
  <2>2. CASE mshr[h].state = "complete" /\ dcache[h][m] = Absent
    <3>1. Drops(h, m)
      BY <2>1, <2>2 DEF Drops, HoldsD
    <3> QED BY <2>1, <3>1
  <2>3. CASE ~(mshr[h].state = "complete" /\ dcache[h][m] = Absent)
    <3>1. SameHolders
      BY <2>1, <2>3 DEF SameHolders, HoldsD
    <3> QED BY <1>1, <3>1
  <2> QED BY <2>2, <2>3
<1>6. CASE LRHit(h) \/ LRFill(h)
  <2>1. /\ UNCHANGED dcache
        /\ \A g \in Harts : g # h => mshr'[g] = mshr[g]
        /\ mshr'[h] = mshr[h] \/ (mshr[h].state = "filled"
                                  /\ mshr'[h].state = "free")
    BY <1>0, <1>6 DEF LRHit, LRFill, FreeMshr
  <2>2. SameHolders
    BY <2>1 DEF SameHolders, HoldsD
  <2> QED BY <1>1, <2>2
<1>7. ASSUME LRMiss(h) PROVE SameHolders
  <2>1. UNCHANGED dcache /\ mshr[h].state = "free" /\ mshr'[h].state = "need"
        /\ \A g \in Harts : g # h => mshr'[g] = mshr[g]
    BY <1>0, <1>7 DEF LRMiss, AllocateMshr
  <2> QED BY <2>1 DEF SameHolders, HoldsD
<1>8. ASSUME SelfInvalidate(h) PROVE Drops(h, marked[h].line)
  BY <1>0, <1>8 DEF SelfInvalidate, Drops, HoldsD, Marked
<1>9. marked[h].line \in Lines
  BY <1>0 DEF Marked
<1> QED
  BY <1>1, <1>2, <1>3, <1>4, <1>5, <1>6, <1>7, <1>8, <1>9
     DEF L1DAccess, BeginLR, BeginSC, BeginFence
\* A completed snoop takes the line, and the data of a miss on it, away.
LEMMA SnoopedHolders ==
    ASSUME PrivateTypeOK, NEW h \in Harts, NEW l \in Lines,
           SnoopInvalidate(h, l)
    PROVE  Drops(h, l)
<1>1. /\ mshr \in [Harts -> Mshrs]
      /\ dcache \in [Harts -> [Lines -> DataOrAbsent]]
  BY DEF PrivateTypeOK
<1>3. /\ \A g \in Harts, x \in Lines :
            dcache'[g][x] = IF g = h /\ x = l THEN Absent ELSE dcache[g][x]
      /\ \A g \in Harts : g # h => mshr'[g] = mshr[g]
      /\ mshr'[h] = AfterSnoop(mshr[h], l)
  BY <1>1 DEF SnoopInvalidate
<1>4. /\ mshr[h].line # l => mshr'[h] = mshr[h]
      /\ mshr[h].line = l => mshr'[h].state # "complete"
  BY <1>1, <1>3 DEF AfterSnoop, AfterBarrier, Mshrs
<1>5. mshr'[h].line = mshr[h].line
  BY <1>1, <1>3 DEF AfterSnoop, AfterBarrier, Mshrs
<1> QED
  BY <1>1, <1>3, <1>4, <1>5 DEF Drops, HoldsD

-----------------------------------------------------------------------------
(* Values: what the private copies of a line are worth.  v[l] is the value   *)
(* of line l at the coherence point, whatever the home keeps it in.  All of  *)
(* it rests on the L1D serving no miss on a line it has a buffered store to: *)
(* with OverlayFills a fill may install a store that is already overwritten. *)

Hits(s, l) == {n \in DOMAIN s : s[n].line = l}

\* The view of a line through a buffer, over what lies below it.
Seen(s, l, base) ==
    IF Hits(s, l) = {} THEN base
    ELSE s[CHOOSE n \in Hits(s, l) : \A m \in Hits(s, l) : m <= n].data

\* What an overlaid read of the hart finds is that view of its buffer.
LEMMA ViewSeen ==
    ASSUME NEW h, NEW l, NEW base
    PROVE  /\ BufferedTo(h, l) = Hits(stores[h], l)
           /\ (IF BufferedTo(h, l) = {} THEN base ELSE StoreOverlay(h, l))
                 = Seen(stores[h], l, base)
           /\ BufferedTo(h, l) = {} => StoreOverlay(h, l) = Absent
<1>1. BufferedTo(h, l) = Hits(stores[h], l)
  BY DEF Hits, BufferedTo
<1> QED
  BY <1>1 DEF Seen, StoreOverlay

\* The view is that of the youngest store to the line.
LEMMA SeenYoungest ==
    ASSUME NEW s \in Seq(StoreEntries), NEW l, NEW base, NEW n \in Hits(s, l),
           \A m \in Hits(s, l) : m <= n
    PROVE  Seen(s, l, base) = s[n].data
<1> DEFINE H == Hits(s, l)
           k == CHOOSE x \in H : \A m \in H : m <= x
<1>1. H \subseteq Nat
  BY DEF Hits
<1>2. k \in H /\ \A m \in H : m <= k
  <2>1. \E x \in H : \A m \in H : m <= x
    OBVIOUS
  <2> QED
    BY <2>1
<1>3. k = n
  BY <1>1, <1>2
<1> QED
  BY <1>3 DEF Seen

\* With a store to the line in the buffer, what lies below does not matter.
LEMMA SeenAbove ==
    ASSUME NEW s, NEW l, NEW b, NEW c, Hits(s, l) # {}
    PROVE  Seen(s, l, b) = Seen(s, l, c)
  BY DEF Seen

\* A buffer that holds stores to a line has a youngest one.
LEMMA SomeYoungest ==
    ASSUME NEW s \in Seq(StoreEntries), NEW l, Hits(s, l) # {}
    PROVE  \E n \in Hits(s, l) : \A m \in Hits(s, l) : m <= n
<1>1. Hits(s, l) \in SUBSET (1 .. Len(s)) /\ Len(s) \in Nat
  BY DEF Hits
<1> QED
  BY <1>1, GreatestNat

\* A store that enters a buffer is what the hart sees of its line, and no
\* other line looks different.
LEMMA SeenAppend ==
    ASSUME NEW s \in Seq(StoreEntries), NEW e \in StoreEntries, NEW base
    PROVE  /\ Seen(Append(s, e), e.line, base) = e.data
           /\ \A l : l # e.line => /\ Hits(Append(s, e), l) = Hits(s, l)
                                   /\ Seen(Append(s, e), l, base) = Seen(s, l, base)
<1> DEFINE t == Append(s, e)
<1>1. /\ t \in Seq(StoreEntries) /\ Len(s) \in Nat
      /\ DOMAIN t = 1 .. Len(s) + 1 /\ DOMAIN s = 1 .. Len(s)
      /\ t[Len(s) + 1] = e /\ \A n \in 1 .. Len(s) : t[n] = s[n]
  OBVIOUS
<1> HIDE DEF t
<1>2. Len(s) + 1 \in Hits(t, e.line) /\ \A m \in Hits(t, e.line) : m <= Len(s) + 1
  BY <1>1 DEF Hits
<1>3. Seen(t, e.line, base) = e.data
  BY <1>1, <1>2, SeenYoungest
<1>4. ASSUME NEW l, l # e.line
      PROVE  Hits(t, l) = Hits(s, l) /\ Seen(t, l, base) = Seen(s, l, base)
  <2>1. Hits(t, l) = Hits(s, l)
    BY <1>1, <1>4 DEF Hits
  <2>2. CASE Hits(s, l) = {}
    BY <2>1, <2>2 DEF Seen
  <2>3. CASE Hits(s, l) # {}
    <3>1. PICK n \in Hits(s, l) : \A m \in Hits(s, l) : m <= n
      BY <2>3, SomeYoungest
    <3>2. Seen(s, l, base) = s[n].data /\ Seen(t, l, base) = t[n].data
      BY <1>1, <2>1, <3>1, SeenYoungest
    <3>3. t[n] = s[n]
      BY <1>1 DEF Hits
    <3> QED
      BY <2>1, <3>2, <3>3
  <2> QED
    BY <2>2, <2>3
<1> QED
  BY <1>3, <1>4 DEF t

\* The oldest store leaves the buffer: its line looks the same over memory
\* that has taken the store, the others over the memory they had.
LEMMA SeenTail ==
    ASSUME NEW s \in Seq(StoreEntries), s # << >>, NEW l, NEW base
    PROVE  /\ Hits(s, l) = {} => Hits(Tail(s), l) = {}
           /\ Head(s).line # l => Seen(Tail(s), l, base) = Seen(s, l, base)
           /\ Head(s).line = l => Seen(Tail(s), l, Head(s).data) = Seen(s, l, base)
<1> DEFINE t == Tail(s)
<1>1. /\ t \in Seq(StoreEntries) /\ Len(s) \in Nat \ {0}
      /\ DOMAIN t = 1 .. Len(s) - 1 /\ DOMAIN s = 1 .. Len(s)
      /\ s[1] = Head(s) /\ \A n \in 1 .. Len(s) - 1 : t[n] = s[n + 1]
  OBVIOUS
<1> HIDE DEF t
<1>2. \A n \in Hits(t, l) : n + 1 \in Hits(s, l) /\ t[n] = s[n + 1]
  BY <1>1 DEF Hits
<1>3. \A n \in Hits(s, l) : n # 1 => n - 1 \in Hits(t, l)
  <2>1. ASSUME NEW n \in Hits(s, l), n # 1 PROVE n - 1 \in Hits(t, l)
    <3>1. n \in 1 .. Len(s) /\ s[n].line = l
      BY <1>1 DEF Hits
    <3>2. n - 1 \in 1 .. Len(s) - 1 /\ (n - 1) + 1 = n
      BY <1>1, <2>1, <3>1
    <3>3. t[n - 1] = s[n]
      BY <1>1, <3>2
    <3> QED
      BY <1>1, <3>1, <3>2, <3>3 DEF Hits
  <2> QED
    BY <2>1
<1>4. \A n \in Hits(s, l) : n \in 1 .. Len(s)
  BY <1>1 DEF Hits
<1>5. ASSUME Hits(t, l) # {}, NEW b
      PROVE  Seen(t, l, b) = Seen(s, l, base)
  <2>1. PICK n \in Hits(t, l) : \A m \in Hits(t, l) : m <= n
    BY <1>1, <1>5, SomeYoungest
  <2>2. Seen(t, l, b) = t[n].data
    BY <1>1, <2>1, SeenYoungest
  <2>3. n \in 1 .. Len(s) - 1
    BY <1>1 DEF Hits
  <2>4. \A m \in Hits(s, l) : m <= n + 1
    <3>1. ASSUME NEW m \in Hits(s, l), m # 1 PROVE m <= n + 1
      <4>1. m - 1 <= n
        BY <1>3, <2>1, <3>1
      <4> QED
        BY <1>4, <2>3, <4>1
    <3>2. 1 <= n + 1
      BY <2>3
    <3> QED
      BY <3>1, <3>2
  <2>5. Seen(s, l, base) = s[n + 1].data
    BY <1>2, <2>4, SeenYoungest
  <2> QED
    BY <1>2, <2>2, <2>5
<1>6. ASSUME Hits(t, l) = {}
      PROVE  /\ Head(s).line # l => Hits(s, l) = {}
             /\ Head(s).line = l => Seen(s, l, base) = Head(s).data
  <2>1. \A n \in Hits(s, l) : n = 1
    BY <1>3, <1>6
  <2>2. Head(s).line # l => Hits(s, l) = {}
    BY <1>1, <2>1 DEF Hits
  <2>3. ASSUME Head(s).line = l PROVE Seen(s, l, base) = Head(s).data
    <3>1. 1 \in Hits(s, l) /\ \A m \in Hits(s, l) : m <= 1
      BY <1>1, <2>1, <2>3 DEF Hits
    <3> QED
      BY <1>1, <3>1, SeenYoungest
  <2> QED
    BY <2>2, <2>3
<1>7. Hits(s, l) = {} => Hits(t, l) = {}
  BY <1>2
<1>8. Head(s).line # l => Seen(t, l, base) = Seen(s, l, base)
  BY <1>5, <1>6 DEF Seen
<1>9. Head(s).line = l => Seen(t, l, Head(s).data) = Seen(s, l, base)
  <2>1. Hits(t, l) = {} => Seen(t, l, Head(s).data) = Head(s).data
    BY DEF Seen
  <2> QED
    BY <1>5, <1>6, <2>1
<1> QED
  BY <1>7, <1>8, <1>9 DEF t

\* The copies of one hart: the value of the line, or that of the hart's own
\* youngest store.
CleanCopy(h, v) ==
    \A l \in Lines : dcache[h][l] # Absent =>
        dcache[h][l] = Seen(stores[h], l, v[l])

\* The store buffer drained before an LR was sent, and takes no store until
\* the LR is answered.
LrDrained(h) == marked[h].state = "lr_lookup" => stores[h] = << >>

\* A miss has no store to its line to respect.
MissApart(h) ==
    mshr[h].state # "free" =>
        mshr[h].overlay = Absent /\ Hits(stores[h], mshr[h].line) = {}

\* Completed miss data is the value of the line, and what an LR waits to take
\* from its miss is what the array holds.
MissCurrent(h, v) ==
    /\ mshr[h].state = "complete" => mshr[h].data = v[mshr[h].line]
    /\ mshr[h].state = "filled" =>
          /\ marked[h].state = "lr_lookup"
          /\ dcache[h][mshr[h].line] = mshr[h].data

\* The miss of an LR is on the line it reserved.
LrMissOwn(h) ==
    marked[h].state = "lr_lookup" /\ mshr[h].state # "free" =>
        mshr[h].line = marked[h].line

CacheValue(h, v) ==
    /\ CleanCopy(h, v) /\ LrDrained(h) /\ MissApart(h)
    /\ MissCurrent(h, v) /\ LrMissOwn(h)

\* A step that does not touch what a hart holds.
HartSame(h) ==
    /\ stores'[h] = stores[h] /\ mshr'[h] = mshr[h] /\ marked'[h] = marked[h]
    /\ dcache'[h] = dcache[h] /\ lr_value'[h] = lr_value[h]

LEMMA CacheFrame ==
    ASSUME NEW h, NEW v, HartSame(h), CacheValue(h, v)
    PROVE  CacheValue(h, v)'
  BY DEF HartSame, CacheValue, CleanCopy, LrDrained, MissApart, MissCurrent,
         LrMissOwn

\* The registers of one hart.
LEMMA CacheTypes ==
    ASSUME PrivateTypeOK, NEW h \in Harts
    PROVE  /\ mshr[h] \in Mshrs /\ marked[h] \in Marked
           /\ stores[h] \in Seq(StoreEntries)
           /\ mshr \in [Harts -> Mshrs] /\ marked \in [Harts -> Marked]
           /\ stores \in [Harts -> Seq(StoreEntries)]
           /\ dcache \in [Harts -> [Lines -> DataOrAbsent]]
           /\ lr_value \in [Harts -> Values]
           /\ marked[h].line \in Lines /\ mshr[h].line \in Lines
           /\ mshr[h].data # Absent
  BY ValuesAssumption DEF PrivateTypeOK, Mshrs, Marked

\* A line changes that the hart neither holds, but under its own store, nor is
\* about to install.
LEMMA CacheWritten ==
    ASSUME NEW h, NEW v, NEW w, CacheValue(h, v), mshr[h].line \in Lines,
           \A l \in Lines :
              \/ w[l] = v[l]
              \/ /\ dcache[h][l] # Absent => Hits(stores[h], l) # {}
                 /\ ~(mshr[h].state = "complete" /\ mshr[h].line = l)
    PROVE  CacheValue(h, w)
<1>1. CleanCopy(h, w)
  <2> SUFFICES ASSUME NEW l \in Lines, dcache[h][l] # Absent
               PROVE  dcache[h][l] = Seen(stores[h], l, w[l])
    BY DEF CleanCopy
  <2>1. dcache[h][l] = Seen(stores[h], l, v[l])
    BY DEF CacheValue, CleanCopy
  <2> QED BY <2>1, SeenAbove
<1>2. MissCurrent(h, w)
  BY DEF CacheValue, MissCurrent
<1> QED
  BY <1>1, <1>2 DEF CacheValue

\* What an access of hart h leaves of its marked access and of the value of its
\* last LR: the lookup of an LR ends with the value of the line, or a marked
\* access begins or loses its own copy.
MarkedMoves(h, v) ==
    \/ /\ marked[h].state = "lr_lookup" /\ marked'[h].state = "idle"
       /\ lr_value'[h] = v[marked[h].line]
    \/ /\ lr_value'[h] = lr_value[h]
       /\ \/ marked'[h] = marked[h]
          \/ /\ marked[h].state \in {"idle", "sc_invalidate"}
             /\ marked'[h].state \in {"lr_reserve", "sc_invalidate", "fence", "sc_send"}

\* A store joins the end of the buffer while no marked access is in progress,
\* and no miss begins while the home has one to serve.
AccessMoves(h, v) ==
    /\ \A g \in Harts \ {h} : HartSame(g)
    /\ \/ stores'[h] = stores[h]
       \/ /\ marked[h].state = "idle"
          /\ \E e \in StoreEntries : stores'[h] = Append(stores[h], e)
    /\ marked[h].state \notin {"idle", "lr_lookup"} /\ mshr[h].state = "free"
          => mshr'[h].state = "free"
    /\ MarkedMoves(h, v)

\* A step that drops copies and completed miss data of a hart, and may begin or
\* move on a marked access.
LEMMA CacheDrops ==
    ASSUME NEW h, NEW v, CacheValue(h, v),
           stores'[h] = stores[h],
           \A l \in Lines : dcache'[h][l] \in {dcache[h][l], Absent},
           mshr'[h].line = mshr[h].line, mshr'[h].overlay = mshr[h].overlay,
           mshr'[h].data = mshr[h].data,
           \/ /\ mshr'[h] = mshr[h]
              /\ mshr[h].state = "filled" =>
                    dcache'[h][mshr[h].line] = dcache[h][mshr[h].line]
           \/ mshr[h].state # "free" /\ mshr'[h].state \in {"need", "issued"},
           \/ marked'[h] = marked[h]
           \/ /\ marked[h].state \in {"idle", "sc_invalidate"}
              /\ marked'[h].state # "lr_lookup"
    PROVE  CacheValue(h, v)'
<1>1. CleanCopy(h, v)'
  BY DEF CacheValue, CleanCopy
<1>2. MissApart(h)' /\ LrDrained(h)' /\ LrMissOwn(h)'
  BY DEF CacheValue, MissApart, LrDrained, LrMissOwn
<1>3. MissCurrent(h, v)'
  BY DEF CacheValue, MissCurrent
<1> QED
  BY <1>1, <1>2, <1>3 DEF CacheValue

\* The states a barrier leaves a miss in.
LEMMA BarrierDrops ==
    ASSUME NEW m \in Mshrs
    PROVE  LET n == AfterBarrier(m)
           IN  /\ n.line = m.line /\ n.overlay = m.overlay /\ n.data = m.data
               /\ \/ n = m /\ m.state # "filled"
                  \/ m.state # "free" /\ n.state \in {"need", "issued"}
  BY DEF AfterBarrier, Mshrs

\* A demand load misses on a line without a buffered store.
LEMMA LoadMissValue ==
    ASSUME ~OverlayFills, PrivateTypeOK, NEW h \in Harts, NEW l \in Lines,
           NEW v, CacheValue(h, v), LoadMiss(h, l)
    PROVE  CacheValue(h, v)' /\ AccessMoves(h, v)
<1>1. /\ marked[h].state = "idle" /\ Hits(stores[h], l) = {}
      /\ UNCHANGED <<dcache, stores, marked, lr_value>>
      /\ mshr' = [mshr EXCEPT ![h] = [state |-> "need", line |-> l, data |-> InitValue,
                                      overlay |-> Absent, reissue |-> FALSE]]
  BY ViewSeen DEF LoadMiss, AllocateMshr
<1>2. /\ mshr'[h].state = "need" /\ mshr'[h].line = l /\ mshr'[h].overlay = Absent
      /\ \A g \in Harts \ {h} : mshr'[g] = mshr[g]
  BY <1>1, CacheTypes
<1>3. CacheValue(h, v)'
  BY <1>1, <1>2
     DEF CacheValue, CleanCopy, LrDrained, MissApart, MissCurrent, LrMissOwn
<1> QED
  BY <1>1, <1>2, <1>3 DEF AccessMoves, MarkedMoves, HartSame

\* A store enters the buffer and a resident line with the same value.
LEMMA StoreValue ==
    ASSUME ~OverlayFills, PrivateTypeOK, NEW h \in Harts, NEW l \in Lines,
           NEW d \in Values, NEW v, CacheValue(h, v), Store(h, l, d)
    PROVE  CacheValue(h, v)' /\ AccessMoves(h, v)
<1> DEFINE e == [line |-> l, data |-> d]
<1>1. /\ marked[h].state = "idle" /\ ~MissOn(h, l)
      /\ UNCHANGED <<mshr, marked, lr_value>>
      /\ stores' = [stores EXCEPT ![h] = Append(@, e)]
      /\ dcache' = IF dcache[h][l] = Absent THEN dcache ELSE [dcache EXCEPT ![h][l] = d]
  BY DEF Store
<1>2. /\ stores'[h] = Append(stores[h], e) /\ \A g \in Harts \ {h} : stores'[g] = stores[g]
      /\ \A g \in Harts \ {h} : dcache'[g] = dcache[g]
      /\ \A x \in Lines : x # l => dcache'[h][x] = dcache[h][x]
      /\ dcache[h][l] # Absent => dcache'[h][l] = d
      /\ dcache[h][l] = Absent => dcache'[h][l] = Absent
  BY <1>1, CacheTypes
<1>3. e \in StoreEntries /\ e.line = l /\ e.data = d /\ stores[h] \in Seq(StoreEntries)
  BY CacheTypes DEF StoreEntries
<1> HIDE DEF e
<1>4. ASSUME NEW b
      PROVE  /\ Seen(stores'[h], l, b) = d
             /\ \A x : x # l => /\ Hits(stores'[h], x) = Hits(stores[h], x)
                                /\ Seen(stores'[h], x, b) = Seen(stores[h], x, b)
  <2>1. /\ Seen(Append(stores[h], e), e.line, b) = e.data
        /\ \A x : x # e.line =>
              /\ Hits(Append(stores[h], e), x) = Hits(stores[h], x)
              /\ Seen(Append(stores[h], e), x, b) = Seen(stores[h], x, b)
    BY <1>3, SeenAppend
  <2> QED
    BY <1>2, <1>3, <2>1
<1>5. CleanCopy(h, v)'
  <2> SUFFICES ASSUME NEW x \in Lines, dcache'[h][x] # Absent
               PROVE  dcache'[h][x] = Seen(stores'[h], x, v[x])
    BY DEF CleanCopy
  <2>1. CASE x = l
    BY <1>2, <1>4, <2>1
  <2>2. CASE x # l
    <3>1. Seen(stores'[h], x, v[x]) = Seen(stores[h], x, v[x])
      BY <1>4, <2>2
    <3> QED
      BY <1>2, <2>2, <3>1 DEF CacheValue, CleanCopy
  <2> QED
    BY <2>1, <2>2
<1>6. MissApart(h)'
  <2>1. ASSUME mshr[h].state # "free" PROVE Hits(stores'[h], mshr[h].line) = {}
    <3>1. mshr[h].line # l
      BY <1>1, <2>1 DEF MissOn
    <3> QED
      BY <1>4, <2>1, <3>1 DEF CacheValue, MissApart
  <2> QED
    BY <1>1, <2>1 DEF CacheValue, MissApart
<1>7. LrDrained(h)' /\ MissCurrent(h, v)' /\ LrMissOwn(h)'
  BY <1>1 DEF CacheValue, LrDrained, MissCurrent, LrMissOwn
<1> QED
  BY <1>1, <1>2, <1>3, <1>5, <1>6, <1>7
     DEF CacheValue, AccessMoves, MarkedMoves, HartSame

\* The completed miss is written to the array with the value of its line.
LEMMA FillValue ==
    ASSUME PrivateTypeOK, NEW h \in Harts, NEW victim, NEW v,
           CacheValue(h, v), FillInstall(h, victim)
    PROVE  CacheValue(h, v)' /\ AccessMoves(h, v)
<1> DEFINE m == mshr[h]
<1>1. /\ m.state = "complete" /\ m \in Mshrs
      /\ UNCHANGED <<stores, marked, lr_value>>
      /\ m.overlay = Absent /\ Hits(stores[h], m.line) = {} /\ m.data = v[m.line]
  BY CacheTypes DEF FillInstall, CacheValue, MissApart, MissCurrent
<1>2. /\ m.line \in Lines
      /\ dcache'[h][m.line] = m.data
      /\ \A l \in Lines : l # m.line => dcache'[h][l] \in {dcache[h][l], Absent}
      /\ \A g \in Harts \ {h} : dcache'[g] = dcache[g] /\ mshr'[g] = mshr[g]
  BY <1>1, CacheTypes DEF FillInstall
<1>3. \/ mshr'[h] = [m EXCEPT !.state = "filled"] /\ marked[h].state = "lr_lookup"
      \/ mshr'[h] = FreeMshr /\ marked[h].state # "lr_lookup"
  BY CacheTypes DEF FillInstall
<1>4. \/ /\ mshr'[h].state = "filled" /\ marked[h].state = "lr_lookup"
         /\ mshr'[h].line = m.line /\ mshr'[h].data = m.data /\ mshr'[h].overlay = m.overlay
      \/ mshr'[h].state = "free" /\ marked[h].state # "lr_lookup"
  BY <1>1, <1>3 DEF Mshrs, FreeMshr
<1> HIDE DEF m
<1>5. CleanCopy(h, v)'
  <2> SUFFICES ASSUME NEW l \in Lines, dcache'[h][l] # Absent
               PROVE  dcache'[h][l] = Seen(stores[h], l, v[l])
    BY <1>1 DEF CleanCopy
  <2>1. CASE l = m.line
    BY <1>1, <1>2, <2>1 DEF Seen
  <2>2. CASE l # m.line
    BY <1>2, <2>2 DEF CacheValue, CleanCopy
  <2> QED
    BY <2>1, <2>2
<1>6. MissApart(h)' /\ LrDrained(h)' /\ MissCurrent(h, v)' /\ LrMissOwn(h)'
  BY <1>1, <1>2, <1>4
     DEF m, CacheValue, MissApart, LrDrained, MissCurrent, LrMissOwn
<1> QED
  BY <1>1, <1>2, <1>4, <1>5, <1>6
     DEF m, CacheValue, AccessMoves, MarkedMoves, HartSame

\* The cached lookup of an LR: a hit returns the copy, a miss asks for the
\* line, and the fill returns what it wrote.
LEMMA LrValue ==
    ASSUME PrivateTypeOK, NEW h \in Harts, NEW v, CacheValue(h, v),
           LRHit(h) \/ LRMiss(h) \/ LRFill(h)
    PROVE  CacheValue(h, v)' /\ AccessMoves(h, v)
<1> DEFINE m == marked[h].line
<1>0. /\ marked[h].state = "lr_lookup" /\ stores[h] = << >> /\ m \in Lines
      /\ UNCHANGED <<dcache, stores>>
      /\ \A l, b : Seen(stores[h], l, b) = b /\ Hits(stores[h], l) = {}
  <2>1. marked[h].state = "lr_lookup" /\ stores[h] = << >> /\ UNCHANGED <<dcache, stores>>
    BY DEF LRHit, LRMiss, LRFill, CacheValue, LrDrained
  <2>2. \A l : Hits(stores[h], l) = {}
    BY <2>1 DEF Hits
  <2> QED
    BY <2>1, <2>2, CacheTypes DEF Seen
<1>1. CleanCopy(h, v)'
  BY <1>0 DEF CacheValue, CleanCopy
<1>2. CASE LRMiss(h)
  <2>1. /\ mshr'[h].state = "need" /\ mshr'[h].line = m /\ mshr'[h].overlay = Absent
        /\ UNCHANGED <<marked, lr_value>> /\ \A g \in Harts \ {h} : HartSame(g)
    BY <1>0, <1>2, CacheTypes, ViewSeen DEF LRMiss, AllocateMshr, HartSame
  <2>2. CacheValue(h, v)'
    BY <1>0, <1>1, <2>1 DEF CacheValue, MissApart, LrDrained, MissCurrent, LrMissOwn
  <2> QED
    BY <1>0, <2>1, <2>2 DEF AccessMoves, MarkedMoves
<1>3. CASE LRHit(h) \/ LRFill(h)
  <2>1. /\ mshr'[h].state = "free" /\ marked'[h] = NoMarked
        /\ \A g \in Harts \ {h} : HartSame(g)
    BY <1>3, CacheTypes DEF LRHit, LRFill, HartSame, FreeMshr
  <2>2. lr_value'[h] = v[m]
    <3>1. CASE LRHit(h)
      BY <1>0, <3>1, CacheTypes DEF LRHit, CacheValue, CleanCopy
    <3>2. CASE LRFill(h)
      <4>1. /\ lr_value'[h] = mshr[h].data /\ mshr[h].line = m
            /\ dcache[h][m] = mshr[h].data
        BY <1>0, <3>2, CacheTypes DEF LRFill, CacheValue, MissCurrent, LrMissOwn
      <4> QED
        BY <1>0, <4>1, CacheTypes DEF CacheValue, CleanCopy
    <3> QED
      BY <1>3, <3>1, <3>2
  <2>3. CacheValue(h, v)'
    BY <1>1, <2>1 DEF CacheValue, LrDrained, MissApart, MissCurrent, LrMissOwn, NoMarked
  <2> QED
    BY <1>0, <2>1, <2>2, <2>3 DEF AccessMoves, MarkedMoves, NoMarked
<1> QED
  BY <1>2, <1>3

\* The steps of an L1D that only take away.
LEMMA BeginValue ==
    ASSUME PrivateTypeOK, NEW h \in Harts, NEW v, CacheValue(h, v),
           \/ \E st \in {"lr_reserve", "sc_invalidate", "fence"} : \E l, d :
                 BeginMarked(h, st, l, d)
           \/ SelfInvalidate(h)
    PROVE  CacheValue(h, v)' /\ AccessMoves(h, v)
<1>0. mshr[h] \in Mshrs
  BY CacheTypes
<1>1. ASSUME NEW st \in {"lr_reserve", "sc_invalidate", "fence"}, NEW l, NEW d,
             BeginMarked(h, st, l, d)
      PROVE  CacheValue(h, v)' /\ AccessMoves(h, v)
  <2>1. /\ UNCHANGED <<dcache, stores, lr_value>>
        /\ mshr'[h] = AfterBarrier(mshr[h])
        /\ marked[h].state = "idle" /\ marked'[h].state = st
        /\ \A g \in Harts \ {h} : HartSame(g)
    BY <1>1, CacheTypes DEF BeginMarked, HartSame
  <2>2. CacheValue(h, v)'
    BY <1>0, <2>1, BarrierDrops, CacheDrops
  <2> QED
    BY <2>1, <2>2 DEF AccessMoves, MarkedMoves
<1>2. CASE SelfInvalidate(h)
  <2>1. /\ UNCHANGED <<mshr, stores, lr_value>> /\ mshr[h].state = "free"
        /\ marked[h].state = "sc_invalidate" /\ marked'[h].state = "sc_send"
        /\ \A g \in Harts \ {h} : HartSame(g)
        /\ \A l \in Lines : dcache'[h][l] \in {dcache[h][l], Absent}
    BY <1>2, CacheTypes DEF SelfInvalidate, HartSame, Marked
  <2>2. CacheValue(h, v)'
    BY <2>1, CacheDrops
  <2> QED
    BY <2>1, <2>2 DEF AccessMoves, MarkedMoves
<1> QED
  BY <1>1, <1>2

\* Every access of an L1D keeps the values of the hart.
LEMMA AccessValue ==
    ASSUME ~OverlayFills, PrivateTypeOK, NEW h \in Harts, NEW blocked, NEW v,
           CacheValue(h, v), L1DAccess(h, blocked)
    PROVE  CacheValue(h, v)' /\ AccessMoves(h, v)
<1>1. CASE \E l \in Lines : LoadMiss(h, l)
  BY <1>1, LoadMissValue
<1>2. CASE \E l \in Lines, d \in Values : Store(h, l, d)
  BY <1>2, StoreValue
<1>3. CASE LRHit(h) \/ LRMiss(h) \/ LRFill(h)
  BY <1>3, LrValue
<1>4. CASE \E victim \in Lines \cup {NoLine} : FillInstall(h, victim)
  BY <1>4, FillValue
<1>5. CASE \/ \E l \in Lines : BeginLR(h, l)
           \/ \E l \in Lines, d \in Values : BeginSC(h, l, d)
           \/ BeginFence(h)
  <2>1. \E st \in {"lr_reserve", "sc_invalidate", "fence"} : \E l, d : BeginMarked(h, st, l, d)
    BY <1>5 DEF BeginLR, BeginSC, BeginFence
  <2> QED BY <2>1, BeginValue
<1>6. CASE SelfInvalidate(h)
  BY <1>6, BeginValue
<1> QED
  BY <1>1, <1>2, <1>3, <1>4, <1>5, <1>6 DEF L1DAccess

\* A snoop takes away the line and the miss data it finds for it.
LEMMA SnoopValue ==
    ASSUME PrivateTypeOK, NEW h \in Harts, NEW l \in Lines, NEW v,
           CacheValue(h, v), SnoopInvalidate(h, l)
    PROVE  /\ CacheValue(h, v)'
           /\ \A g \in Harts \ {h} : HartSame(g)
           /\ mshr[h].state = "free" => mshr'[h].state = "free"
<1>0. mshr[h] \in Mshrs
  BY CacheTypes
<1>1. /\ UNCHANGED <<marked, stores, lr_value>> /\ mshr'[h] = AfterSnoop(mshr[h], l)
      /\ \A g \in Harts \ {h} : HartSame(g)
      /\ \A x \in Lines : dcache'[h][x] \in {dcache[h][x], Absent}
      /\ \A x \in Lines : x # l => dcache'[h][x] = dcache[h][x]
  BY CacheTypes DEF SnoopInvalidate, HartSame
<1>2. CASE mshr[h].line # l
  <2>1. mshr'[h] = mshr[h] /\ mshr[h].line \in Lines
    BY <1>0, <1>1, <1>2 DEF AfterSnoop, Mshrs
  <2> QED
    BY <1>1, <1>2, <2>1, CacheDrops
<1>3. CASE mshr[h].line = l
  <2>1. mshr'[h] = AfterBarrier(mshr[h])
    BY <1>1, <1>3 DEF AfterSnoop
  <2>2. CacheValue(h, v)'
    BY <1>0, <1>1, <2>1, BarrierDrops, CacheDrops
  <2>3. mshr[h].state = "free" => mshr'[h].state = "free"
    BY <2>1 DEF AfterBarrier
  <2> QED
    BY <1>1, <2>2, <2>3
<1> QED
  BY <1>2, <1>3

\* A store that is answered leaves the buffer; the line has its value by now,
\* if the hart holds it.
LEMMA StoreAnswer ==
    ASSUME PrivateTypeOK, NEW h \in Harts, NEW v, CacheValue(h, v),
           StoreResponse(h), stores[h] # << >>,
           LET e == Head(stores[h])
           IN  dcache[h][e.line] # Absent => v[e.line] = e.data
    PROVE  /\ CacheValue(h, v)'
           /\ \A g \in Harts \ {h} : HartSame(g)
           /\ stores'[h] = Tail(stores[h])
           /\ UNCHANGED <<dcache, mshr, marked, lr_value>>
<1> DEFINE s == stores[h]
<1>1. s \in Seq(StoreEntries) /\ s # << >>
  BY CacheTypes
<1>2. /\ UNCHANGED <<dcache, mshr, marked, lr_value>> /\ stores'[h] = Tail(s)
      /\ \A g \in Harts \ {h} : stores'[g] = stores[g]
  BY CacheTypes DEF StoreResponse
<1>3. dcache[h][Head(s).line] # Absent => v[Head(s).line] = Head(s).data
  OBVIOUS
<1> HIDE DEF s
<1>4. ASSUME NEW l, NEW b
      PROVE  /\ Hits(s, l) = {} => Hits(Tail(s), l) = {}
             /\ Head(s).line # l => Seen(Tail(s), l, b) = Seen(s, l, b)
             /\ Head(s).line = l => Seen(Tail(s), l, Head(s).data) = Seen(s, l, b)
  BY <1>1, SeenTail
<1>5. CleanCopy(h, v)'
  <2> SUFFICES ASSUME NEW l \in Lines, dcache[h][l] # Absent
               PROVE  dcache[h][l] = Seen(Tail(s), l, v[l])
    BY <1>2 DEF CleanCopy
  <2>1. Seen(Tail(s), l, v[l]) = Seen(s, l, v[l])
    BY <1>3, <1>4
  <2> QED
    BY <2>1 DEF s, CacheValue, CleanCopy
<1>6. MissApart(h)'
  BY <1>2, <1>4 DEF s, CacheValue, MissApart
<1>7. LrDrained(h)' /\ MissCurrent(h, v)' /\ LrMissOwn(h)'
  BY <1>1, <1>2 DEF s, CacheValue, LrDrained, MissCurrent, LrMissOwn
<1> QED
  BY <1>2, <1>5, <1>6, <1>7 DEF s, CacheValue, HartSame

\* A miss that is answered takes the value of the line, asks again or gives up.
LEMMA FillAnswer ==
    ASSUME PrivateTypeOK, NEW h \in Harts, NEW v, CacheValue(h, v),
           NEW error \in BOOLEAN, NEW data, FillResponse(h, error, data),
           mshr[h].state = "issued",
           ~error => data = v[mshr[h].line]
    PROVE  /\ CacheValue(h, v)'
           /\ \A g \in Harts \ {h} : HartSame(g)
           /\ UNCHANGED <<dcache, stores, lr_value>>
           /\ \/ mshr[h].reissue /\ mshr'[h].state = "need" /\ marked'[h] = marked[h]
              \/ /\ ~error /\ mshr'[h].state = "complete" /\ marked'[h] = marked[h]
                 /\ mshr'[h].line = mshr[h].line
              \/ /\ error /\ mshr'[h].state = "free"
                 /\ \/ marked'[h] = marked[h] /\ marked[h].state # "lr_lookup"
                    \/ marked[h].state = "lr_lookup" /\ marked'[h].state = "idle"
<1> DEFINE m == mshr[h]
<1>1. m \in Mshrs
  BY CacheTypes
<1>2. /\ UNCHANGED <<dcache, stores, lr_value>>
      /\ \A g \in Harts \ {h} : HartSame(g)
  BY CacheTypes DEF FillResponse, HartSame
<1>3. CleanCopy(h, v)'
  BY <1>2 DEF CacheValue, CleanCopy
<1>4. CASE m.reissue \/ ~error
  <2>1. /\ marked'[h] = marked[h]
        /\ mshr'[h] = IF m.reissue THEN [m EXCEPT !.state = "need", !.reissue = FALSE]
                      ELSE [m EXCEPT !.state = "complete", !.data = data]
    BY <1>4, CacheTypes DEF FillResponse
  <2>2. /\ mshr'[h].line = m.line /\ mshr'[h].overlay = m.overlay
        /\ \/ m.reissue /\ mshr'[h].state = "need"
           \/ mshr'[h].state = "complete" /\ mshr'[h].data = data /\ ~error
    BY <1>1, <1>4, <2>1 DEF Mshrs
  <2> HIDE DEF m
  <2>3. MissApart(h)' /\ LrDrained(h)' /\ LrMissOwn(h)' /\ MissCurrent(h, v)'
    BY <1>2, <2>1, <2>2
       DEF m, CacheValue, MissApart, LrDrained, LrMissOwn, MissCurrent
  <2> QED
    BY <1>2, <1>3, <2>1, <2>2, <2>3 DEF m, CacheValue
<1>5. CASE ~m.reissue /\ error
  <2>1. /\ mshr'[h].state = "free"
        /\ marked'[h] = IF marked[h].state = "lr_lookup" THEN NoMarked ELSE marked[h]
    BY <1>5, CacheTypes DEF FillResponse, FreeMshr
  <2>2. CacheValue(h, v)'
    BY <1>2, <1>3, <2>1
       DEF CacheValue, LrDrained, MissApart, MissCurrent, LrMissOwn, NoMarked
  <2> QED
    BY <1>2, <1>5, <2>1, <2>2 DEF NoMarked
<1> QED
  BY <1>4, <1>5

\* A granted LR goes on to its lookup; every other marked access is over.
LEMMA MarkedAnswer ==
    ASSUME PrivateTypeOK, NEW h \in Harts, NEW v, CacheValue(h, v),
           NEW op, NEW error \in BOOLEAN, MarkedResponse(h, op, error),
           marked[h].state # "lr_lookup",
           op = "LR" /\ ~error => stores[h] = << >> /\ mshr[h].state = "free"
    PROVE  /\ CacheValue(h, v)'
           /\ \A g \in Harts \ {h} : HartSame(g)
           /\ UNCHANGED <<dcache, stores, mshr, lr_value>>
           /\ IF op = "LR" /\ ~error
              THEN marked'[h].state = "lr_lookup" /\ marked'[h].line = marked[h].line
              ELSE marked'[h].state = "idle"
<1>1. /\ UNCHANGED <<dcache, stores, lr_value, mshr>>
      /\ marked'[h] = IF op = "LR" /\ ~error
                      THEN [marked[h] EXCEPT !.state = "lr_lookup"] ELSE NoMarked
      /\ \A g \in Harts \ {h} : HartSame(g)
  BY CacheTypes DEF MarkedResponse, HartSame
<1>2. IF op = "LR" /\ ~error
      THEN marked'[h].state = "lr_lookup" /\ marked'[h].line = marked[h].line
      ELSE marked'[h].state = "idle"
  BY <1>1, CacheTypes DEF Marked, NoMarked
<1>3. CleanCopy(h, v)' /\ MissApart(h)'
  BY <1>1 DEF CacheValue, CleanCopy, MissApart
<1>4. MissCurrent(h, v)'
  BY <1>1 DEF CacheValue, MissCurrent
<1>5. LrDrained(h)' /\ LrMissOwn(h)'
  BY <1>1, <1>2 DEF CacheValue, LrDrained, LrMissOwn
<1> QED
  BY <1>1, <1>2, <1>3, <1>4, <1>5 DEF CacheValue
=============================================================================
