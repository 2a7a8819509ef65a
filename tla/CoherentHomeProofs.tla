------------------------- MODULE CoherentHomeProofs -------------------------
(***************************************************************************)
(* Proofs about CoherentHome, for every number of harts, lines, values,     *)
(* directory sets and ways, probe identities and store-buffer depth.        *)
(***************************************************************************)
EXTENDS CoherentHome, FabricProofs

-----------------------------------------------------------------------------
(* Types.                                                                    *)

LEMMA InitType == Init => TypeOK
<1> SUFFICES ASSUME Init PROVE TypeOK
  OBVIOUS
<1> USE SomeLine, HartsAssumption, LinesAssumption, ValuesAssumption,
        GeometryAssumption, ProbeIdsAssumption
<1>1. DirectoryTypeOK /\ ProbeTypeOK /\ PrivateTypeOK
  BY InitFabricType DEF Init
<1>2. HomeTypeOK
  <2>1. (CHOOSE h \in Harts : TRUE) \in Harts
    OBVIOUS
  <2>2. 0 \in Ways /\ 0 \in ProbeId
    BY DEF Ways, ProbeId
  <2> QED BY <2>1, <2>2 DEF Init, HomeInit, HomeTypeOK, States, Commands,
                             Sources, Ops, CacheMasks
<1> QED
  BY <1>1, <1>2 DEF TypeOK

\* Capturing a command keeps the types of the home.
LEMMA CaptureType ==
    ASSUME HomeTypeOK, NEW c \in Commands, Capture(c)
    PROVE  HomeTypeOK'
  BY ValuesAssumption DEF HomeTypeOK, Capture, Commands, States

LEMMA CommandType ==
    ASSUME NEW h \in Harts, NEW source \in Sources, NEW op \in Ops,
           NEW l \in Lines, NEW v \in Values
    PROVE  Command(h, source, op, l, v) \in Commands
  BY DEF Command, Commands

\* Accepting a command changes the home, and of the private caches at most the
\* state of the miss that is issued.
LEMMA AcceptType ==
    ASSUME TypeOK, NEW h \in Harts, Accept(h)
    PROVE  TypeOK'
<1> USE DEF TypeOK, Sources, Ops
<1>1. ASSUME NEW c \in Commands, Capture(c), PrivateTypeOK'
      PROVE  TypeOK'
  <2>1. HomeTypeOK'
    BY <1>1, CaptureType
  <2>2. DirectoryTypeOK' /\ ProbeTypeOK'
    BY <1>1 DEF Capture, directoryVars, probeVars, DirectoryTypeOK, ProbeTypeOK
  <2> QED BY <1>1, <2>1, <2>2
<1>2. (UNCHANGED privateVars) => PrivateTypeOK'
  BY DEF privateVars, PrivateTypeOK
<1>3. CASE AcceptStore(h)
  <2>1. Head(stores[h]) \in StoreEntries
    BY <1>3 DEF AcceptStore, PrivateTypeOK
  <2> QED BY <1>1, <1>2, <1>3, <2>1, CommandType DEF AcceptStore, StoreEntries
<1>4. CASE AcceptFill(h)
  <2>1. mshr[h].line \in Lines
    BY DEF PrivateTypeOK, Mshrs
  <2>2. PrivateTypeOK'
    BY <1>4 DEF AcceptFill, PrivateTypeOK, Mshrs
  <2> QED BY <1>1, <1>4, <2>1, <2>2, CommandType, ValuesAssumption
          DEF AcceptFill
<1>5. ASSUME NEW st, NEW op \in Ops, AcceptMarked(h, st, op) PROVE TypeOK'
  <2>1. marked[h].line \in Lines /\ marked[h].data \in Values
    BY DEF PrivateTypeOK, Marked
  <2> QED BY <1>1, <1>2, <1>5, <2>1, CommandType DEF AcceptMarked
<1>6. CASE AcceptLR(h) \/ AcceptSC(h) \/ AcceptFence(h)
  BY <1>5, <1>6 DEF AcceptLR, AcceptSC, AcceptFence
<1>7. CASE AcceptFetch(h)
  <2>1. fetch[h] \in Lines
    BY <1>7 DEF AcceptFetch, PrivateTypeOK
  <2> QED BY <1>1, <1>2, <1>7, <2>1, CommandType, ValuesAssumption
          DEF AcceptFetch
<1>8. ASSUME NEW op \in Ops, NEW l \in Lines, AcceptPtw(h, op, l) PROVE TypeOK'
  BY <1>1, <1>2, <1>8, CommandType, ValuesAssumption DEF AcceptPtw
<1>9. ASSUME NEW op \in Ops, NEW l \in Lines, NEW v \in Values,
             AcceptDevice(h, op, l, v)
      PROVE  TypeOK'
  BY <1>1, <1>2, <1>9, CommandType DEF AcceptDevice
<1>10. ASSUME NEW op \in Ops, NEW l \in Lines,
              NEW err \in {"command", "wdata"}, AcceptMalformed(h, op, l, err)
       PROVE  TypeOK'
  <2>1. Command(h, "LEGACY", op, l, InitValue) \in Commands
    BY CommandType, ValuesAssumption
  <2>2. [Command(h, "LEGACY", op, l, InitValue) EXCEPT !.err = err] \in Commands
    BY <2>1 DEF Commands
  <2> QED BY <1>1, <1>2, <1>10, <2>2 DEF AcceptMalformed
<1> QED
  BY <1>3, <1>4, <1>6, <1>7, <1>8, <1>9, <1>10 DEF Accept

\* What an unchanged component keeps.
LEMMA UnchangedTypes ==
    /\ DirectoryTypeOK /\ UNCHANGED directoryVars => DirectoryTypeOK'
    /\ ProbeTypeOK /\ UNCHANGED probeVars => ProbeTypeOK'
    /\ PrivateTypeOK /\ UNCHANGED privateVars => PrivateTypeOK'
    /\ HomeTypeOK /\ UNCHANGED homeVars => HomeTypeOK'
  BY DEF directoryVars, probeVars, privateVars, homeVars, DirectoryTypeOK,
         ProbeTypeOK, PrivateTypeOK, HomeTypeOK

\* Every outcome of the lookup keeps the types.
LEMMA LookupType == TypeOK /\ Lookup => TypeOK'
<1> SUFFICES ASSUME TypeOK, Lookup PROVE TypeOK'
  OBVIOUS
<1>1. req.line \in Lines /\ req.hart \in Harts /\ SetOf[req.line] \in Sets
  BY GeometryAssumption DEF TypeOK, HomeTypeOK, Commands
<1>2. DirectoryTypeOK
  BY DEF TypeOK
<1>3. ASSUME NEW next \in States, LookupDone(next), entry' \in Ways,
             probe' \in [targets: SUBSET Harts, mask: CacheMasks, line: Lines]
      PROVE  TypeOK'
  <2>1. reservation' \in [Harts -> Lines \cup {NoLine}]
    BY <1>3 DEF LookupDone, ReservationAfterLookup, TypeOK, HomeTypeOK
  <2>2. resp' \in [data: Values, error: BOOLEAN, sc_success: BOOLEAN]
    <3> DEFINE b == req.op = "SC" /\ ScReservationMatch
    <3>1. b \in BOOLEAN
      OBVIOUS
    <3>2. resp' = [resp EXCEPT !.sc_success = b]
      BY <1>3 DEF LookupDone
    <3> HIDE DEF b
    <3> QED BY <3>1, <3>2 DEF TypeOK, HomeTypeOK
  <2>3. HomeTypeOK'
    BY <1>3, <2>1, <2>2 DEF LookupDone, TypeOK, HomeTypeOK
  <2> QED BY <1>3, <2>3, UnchangedTypes DEF LookupDone, TypeOK
<1>4. entry \in Ways /\ probe \in [targets: SUBSET Harts, mask: CacheMasks, line: Lines]
  BY DEF TypeOK, HomeTypeOK
<1>5. CASE LookupScFail
  BY <1>3, <1>4, <1>5 DEF LookupScFail, States
<1>6. CASE LookupFillHit
  <2>1. entry' \in Ways
    BY <1>1, <1>2, <1>6, LookupWays DEF LookupFillHit
  <2> QED BY <1>3, <1>4, <1>6, <2>1 DEF LookupFillHit, States
<1>7. CASE LookupFillEvict
  <2>1. FillVictimWay \in Ways
    BY <1>1, <1>2, LookupWays DEF FillVictimWay
  <2>2. FillVictim \in Entries
    BY <1>1, <1>2, <2>1 DEF FillVictim, DirectoryTypeOK
  <2>3. VictimSharers \in SUBSET Harts /\ FillVictim.line \in Lines
    BY <2>2 DEF VictimSharers, Entries
  <2> DEFINE mask == {x \in {"I", "D"} :
                         \/ x = "I" /\ FillVictim.i # {}
                         \/ x = "D" /\ FillVictim.d # {}}
  <2>4. mask \in CacheMasks
    BY DEF CacheMasks
  <2>5. probe' = [targets |-> VictimSharers, mask |-> mask,
                  line |-> FillVictim.line]
    BY <1>7 DEF LookupFillEvict
  <2> HIDE DEF mask
  <2>6. probe' \in [targets: SUBSET Harts, mask: CacheMasks, line: Lines]
    BY <2>3, <2>4, <2>5
  <2> QED BY <1>3, <1>7, <2>1, <2>6 DEF LookupFillEvict, States
<1>8. CASE LookupFillAllocate
  <2>1. FillVictimWay \in Ways
    BY <1>1, <1>2, LookupWays DEF FillVictimWay
  <2> QED BY <1>3, <1>4, <1>8, <2>1 DEF LookupFillAllocate, States
<1>9. CASE LookupWriteProbe
  <2>1. LookupHit(req.line)
    BY <1>9 DEF LookupWriteProbe, WriteProbeTargets
  <2>2. LookupWay(req.line) \in Ways
    BY <1>1, <1>2, <2>1, LookupWays
  <2>3. dir[SetOf[req.line]][LookupWay(req.line)] \in Entries
    BY <1>1, <1>2, <2>2 DEF DirectoryTypeOK
  <2>4. WriteProbeTargets \in SUBSET Harts
    BY <2>3 DEF WriteProbeTargets, Entries
  <2>5. probe' \in [targets: SUBSET Harts, mask: CacheMasks, line: Lines]
    BY <1>1, <1>9, <2>4 DEF LookupWriteProbe, CacheMasks
  <2> QED BY <1>3, <1>9, <2>2, <2>5 DEF LookupWriteProbe, States
<1>10. CASE LookupScClear
  <2>1. entry' \in Ways
    BY <1>1, <1>2, <1>10, LookupWays DEF LookupScClear
  <2>2. probe' \in [targets: SUBSET Harts, mask: CacheMasks, line: Lines]
    BY <1>4, <1>10 DEF LookupScClear
  <2> QED BY <1>3, <1>10, <2>1, <2>2 DEF LookupScClear, States
<1>11. CASE LookupBypass
  BY <1>3, <1>4, <1>11 DEF LookupBypass, States
<1> QED
  BY <1>5, <1>6, <1>7, <1>8, <1>9, <1>10, <1>11 DEF Lookup

\* The requester's reaction to the response keeps its types.
LEMMA RespondType == TypeOK /\ StoreServed /\ Respond => TypeOK'
<1> SUFFICES ASSUME TypeOK, StoreServed, Respond PROVE TypeOK'
  OBVIOUS
<1> DEFINE h == req.hart
<1>1. h \in Harts /\ req.line \in Lines /\ resp.data \in Values
  BY DEF TypeOK, HomeTypeOK, Commands
<1> HIDE DEF h
<1>2. FetchResponse(h, req.line, resp.error) => PrivateTypeOK'
  BY <1>1 DEF FetchResponse, TypeOK, PrivateTypeOK
<1>3. ASSUME StoreResponse(h), stores[h] # << >> PROVE PrivateTypeOK'
  <2>1. Tail(stores[h]) \in Seq(StoreEntries)
    BY <1>1, <1>3 DEF TypeOK, PrivateTypeOK
  <2> QED BY <1>1, <1>3, <2>1 DEF StoreResponse, TypeOK, PrivateTypeOK
<1>4. ASSUME FillResponse(h, resp.error, resp.data) PROVE PrivateTypeOK'
  <2>1. mshr' \in [Harts -> Mshrs]
    <3>1. mshr[h] \in Mshrs
      BY <1>1 DEF TypeOK, PrivateTypeOK
    <3>2. [mshr[h] EXCEPT !.state = "need", !.reissue = FALSE] \in Mshrs
      BY <3>1 DEF Mshrs
    <3>3. [mshr[h] EXCEPT !.state = "complete", !.data = resp.data] \in Mshrs
      BY <1>1, <3>1 DEF Mshrs
    <3> QED BY <1>4, <3>2, <3>3, MshrTypes
            DEF FillResponse, TypeOK, PrivateTypeOK
  <2>2. marked' \in [Harts -> Marked]
    BY <1>4, MshrTypes DEF FillResponse, TypeOK, PrivateTypeOK
  <2> QED BY <1>4, <2>1, <2>2 DEF FillResponse, TypeOK, PrivateTypeOK
<1>5. ASSUME MarkedResponse(h, req.op, resp.error) PROVE PrivateTypeOK'
  <2>1. [marked[h] EXCEPT !.state = "lr_lookup"] \in Marked
    BY <1>1 DEF TypeOK, PrivateTypeOK, Marked, MarkedStates
  <2> QED BY <1>5, <2>1, MshrTypes DEF MarkedResponse, TypeOK, PrivateTypeOK
<1>6. PrivateTypeOK'
  BY <1>2, <1>3, <1>4, <1>5, UnchangedTypes
     DEF Respond, Response, privateVars, h, TypeOK, StoreServed
<1>7. HomeTypeOK'
  BY DEF Respond, TypeOK, HomeTypeOK, States
<1> QED
  BY <1>6, <1>7, UnchangedTypes DEF Respond, TypeOK

\* A step of the home other than a lookup or a response keeps the types.
LEMMA HomeStepType == TypeOK /\ StoreServed /\ HomeStep => TypeOK'
<1> SUFFICES ASSUME TypeOK, StoreServed, HomeStep PROVE TypeOK'
  OBVIOUS
<1> USE UnchangedTypes DEF TypeOK
<1>1. req.line \in Lines /\ req.hart \in Harts /\ entry \in Ways
      /\ probe.targets \in SUBSET Harts
  BY DEF HomeTypeOK, Commands
<1>2. CASE WaitWdata
  BY <1>2 DEF WaitWdata, HomeTypeOK, States
<1>3. CASE DirLookup
  BY <1>3 DEF DirLookup, HomeTypeOK, States
<1>4. CASE ProbeStart
  <2>1. (next_probe_id + 1) % ProbeIds \in ProbeId
    BY ProbeIdsAssumption DEF HomeTypeOK, ProbeId
  <2>2. HomeTypeOK'
    BY <1>4, <2>1 DEF ProbeStart, HomeTypeOK, States
  <2>3. ProbeTypeOK'
    BY <1>4 DEF ProbeStart, TrackerStart, HomeTypeOK, ProbeTypeOK,
                TrackerRegisters
  <2> QED BY <1>4, <2>2, <2>3 DEF ProbeStart
<1>5. CASE ProbeDone
  <2>1. HomeTypeOK'
    BY <1>5 DEF ProbeDone, HomeTypeOK, States
  <2>2. ProbeTypeOK'
    BY <1>5 DEF ProbeDone, TrackerDone, ProbeTypeOK, TrackerRegisters
  <2> QED BY <1>5, <2>1, <2>2 DEF ProbeDone
<1>6. ASSUME NEW next \in States, DirectoryStep(next), DirectoryTypeOK'
      PROVE  TypeOK'
  <2>1. HomeTypeOK'
    BY <1>6 DEF DirectoryStep, HomeTypeOK
  <2> QED BY <1>6, <2>1 DEF DirectoryStep
<1>7. CASE DirAllocate
  BY <1>1, <1>6, <1>7, AllocateWrite DEF DirAllocate, States
<1>8. CASE DirClear
  <2>1. (IF req.op = "SC" THEN Harts ELSE probe.targets) \in SUBSET Harts
    BY <1>1
  <2>2. DirectoryTypeOK'
    BY <1>1, <1>8, <2>1, MergeWrite DEF DirClear
  <2> QED BY <1>6, <1>8, <2>2 DEF DirClear, States
<1>9. CASE DirRecord
  <2>1. /\ (IF req.source = "ICACHE" THEN {req.hart} ELSE {}) \in SUBSET Harts
        /\ (IF req.source = "DCACHE" THEN {req.hart} ELSE {}) \in SUBSET Harts
    BY <1>1
  <2>2. DirectoryTypeOK'
    BY <1>1, <1>9, <2>1, MergeWrite DEF DirRecord
  <2> QED BY <1>6, <1>9, <2>2 DEF DirRecord, States
<1>10. CASE L2Request
  BY <1>10 DEF L2Request, HomeTypeOK, States
<1>11. CASE L2Wdata
  BY <1>11 DEF L2Wdata, HomeTypeOK, States
<1>12. CASE L2Response
  <2>1. PICK error \in BOOLEAN :
           /\ L2Access(error)
           /\ resp' = [resp EXCEPT !.data = l2[req.line], !.error = error]
           /\ reservation' = IF req.op = "LR" /\ ~error
                             THEN [reservation EXCEPT ![req.hart] = req.line]
                             ELSE reservation
           /\ state' = IF RequestPrivateFill /\ ~error THEN "DIR_RECORD"
                                                       ELSE "RESP"
    BY <1>12 DEF L2Response
  <2>2. l2' \in [Lines -> Values]
    BY <2>1 DEF L2Access, HomeTypeOK, Commands
  <2>3. resp' \in [data: Values, error: BOOLEAN, sc_success: BOOLEAN]
    BY <1>1, <2>1 DEF HomeTypeOK
  <2>4. HomeTypeOK'
    BY <1>1, <1>12, <2>1, <2>2, <2>3 DEF L2Response, HomeTypeOK, States
  <2> QED BY <1>12, <2>4 DEF L2Response
<1> QED
  BY <1>2, <1>3, <1>4, <1>5, <1>7, <1>8, <1>9, <1>10, <1>11, <1>12,
     LookupType, RespondType DEF HomeStep

\* Every step keeps every type.
LEMMA NextType == TypeOK /\ StoreServed /\ [Next]_vars => TypeOK'
<1> SUFFICES ASSUME TypeOK, StoreServed, [Next]_vars PROVE TypeOK'
  OBVIOUS
<1>1. CASE HomeStep
  BY <1>1, HomeStepType
<1>2. CASE RejectBurst
  BY <1>2, UnchangedTypes DEF RejectBurst, TypeOK, HomeTypeOK
<1>3. ASSUME NEW h \in Harts, Accept(h) PROVE TypeOK'
  BY <1>3, AcceptType
<1>4. ASSUME NEW h \in Harts, ProbeStep(h) PROVE TypeOK'
  BY <1>4, UnchangedTypes, ProbeStepType DEF ProbeStep, TypeOK
<1>5. ASSUME NEW h \in Harts, InvalidateL1D(h) PROVE TypeOK'
  <2>1. endpoint[h].line \in Lines
    BY DEF TypeOK, ProbeTypeOK, EndpointSlots
  <2> QED BY <1>5, <2>1, UnchangedTypes, ProbeStepType, SnoopType
          DEF InvalidateL1D, TypeOK
<1>6. ASSUME NEW h \in Harts, L1DStep(h) PROVE TypeOK'
  BY <1>6, UnchangedTypes, AccessType DEF L1DStep, TypeOK
<1>7. ASSUME NEW h \in Harts, L1IStep(h) PROVE TypeOK'
  BY <1>7, UnchangedTypes, AccessType DEF L1IStep, TypeOK
<1>8. CASE UNCHANGED vars
  BY <1>8, UnchangedTypes DEF vars, TypeOK
<1> QED
  BY <1>1, <1>2, <1>3, <1>4, <1>5, <1>6, <1>7, <1>8 DEF Next

-----------------------------------------------------------------------------
(* The requesters: what waits is what the home serves.                       *)

LEMMA InitRequester == Init => RequesterInv
<1> SUFFICES ASSUME Init PROVE RequesterInv
  OBVIOUS
<1>1. StoreServed /\ Served /\ ServedMarked
  BY DEF Init, HomeInit, StoreServed, Served, ServedMarked
<1>2. ScQuiet
  BY DEF Init, PrivateInit, NoMarked, ScQuiet
<1>3. DevicesUncached
  BY LinesAssumption
     DEF Init, HomeInit, PrivateInit, NoMarked, FreeMshr, DevicesUncached
<1> QED
  BY <1>1, <1>2, <1>3 DEF RequesterInv

\* It is enough that the accesses in service stay what they are, that a hart
\* with a pending SC gains no copy, and that no device line is cached.
LEMMA RequesterFrame ==
    ASSUME TypeOK, RequesterInv, UNCHANGED <<state, req>>,
           \A g \in Harts : stores[g] # << >> =>
              stores'[g] # << >> /\ Head(stores'[g]) = Head(stores[g]),
           \A g \in Harts : mshr[g].state = "issued" =>
              mshr'[g].state = "issued" /\ mshr'[g].line = mshr[g].line,
           \A g \in Harts : marked[g].state \in {"lr_reserve", "sc_send"} =>
              marked'[g].state = marked[g].state
              /\ marked'[g].line = marked[g].line,
           \A g \in Harts : marked'[g].state = "sc_send" =>
              mshr'[g].state = "free" /\ dcache'[g][marked'[g].line] = Absent,
           \A g \in Harts : mshr'[g].state # "free" =>
              mshr'[g].line \notin DeviceLines,
           \A g \in Harts : marked'[g].state \notin {"idle", "fence"} =>
              marked'[g].line \notin DeviceLines,
           \A g \in Harts, l \in DeviceLines : dcache'[g][l] = Absent
    PROVE  RequesterInv'
<1>1. req.hart \in Harts
  BY DEF TypeOK, HomeTypeOK, Commands
<1>2. StoreServed'
  BY <1>1 DEF RequesterInv, StoreServed
<1>3. Served'
  BY <1>1 DEF RequesterInv, Served
<1>4. ServedMarked'
  BY <1>1 DEF RequesterInv, ServedMarked
<1>5. ScQuiet'
  BY DEF ScQuiet
<1>6. DevicesUncached'
  BY DEF RequesterInv, DevicesUncached
<1> QED
  BY <1>2, <1>3, <1>4, <1>5, <1>6 DEF RequesterInv

\* What holds of the private caches before the step.
LEMMA RequesterFacts ==
    ASSUME RequesterInv, TypeOK
    PROVE  /\ \A g \in Harts : marked[g].state = "sc_send" =>
                 mshr[g].state = "free" /\ dcache[g][marked[g].line] = Absent
           /\ \A g \in Harts : mshr[g].state # "free" =>
                 mshr[g].line \notin DeviceLines
           /\ \A g \in Harts : marked[g].state \notin {"idle", "fence"} =>
                 marked[g].line \notin DeviceLines
           /\ \A g \in Harts, l \in DeviceLines : dcache[g][l] = Absent
           /\ DeviceLines \subseteq Lines
           /\ mshr \in [Harts -> Mshrs] /\ marked \in [Harts -> Marked]
           /\ dcache \in [Harts -> [Lines -> DataOrAbsent]]
           /\ stores \in [Harts -> Seq(StoreEntries)]
  BY LinesAssumption DEF RequesterInv, ScQuiet, DevicesUncached, TypeOK,
                         PrivateTypeOK

\* An access of the L1D leaves the issued miss and a pending SC alone.
LEMMA L1DRequester ==
    ASSUME TypeOK, RequesterInv, NEW h \in Harts, L1DStep(h)
    PROVE  RequesterInv'
<1> USE RequesterFacts
<1>0. UNCHANGED <<state, req>>
  BY DEF L1DStep, L1DAccess, homeVars
<1>1. ASSUME NEW l \in Lines, LoadMiss(h, l) PROVE RequesterInv'
  <2>1. /\ l \notin DeviceLines /\ marked[h].state = "idle"
        /\ mshr[h].state = "free" /\ UNCHANGED <<dcache, stores, marked>>
    BY <1>1, AccessAssumption DEF LoadMiss
  <2>2. mshr'[h].state = "need" /\ mshr'[h].line = l
        /\ \A g \in Harts : g # h => mshr'[g] = mshr[g]
    BY <1>1 DEF LoadMiss, AllocateMshr
  <2> QED BY <1>0, <2>1, <2>2, RequesterFrame
<1>2. ASSUME NEW l \in Lines, NEW v \in Values, Store(h, l, v)
      PROVE  RequesterInv'
  <2>1. l \notin DeviceLines /\ marked[h].state = "idle" /\ UNCHANGED marked
    BY <1>2, AccessAssumption DEF Store
  <2>2. \A g \in Harts : /\ mshr'[g].state = mshr[g].state
                         /\ mshr'[g].line = mshr[g].line
    BY <1>2 DEF Store, Mshrs
  <2>3. \A g \in Harts, x \in Lines :
           (g # h \/ x # l \/ dcache[g][x] = Absent)
              => dcache'[g][x] = dcache[g][x]
    BY <1>2 DEF Store
  <2>4. ASSUME NEW g \in Harts, stores[g] # << >>
        PROVE  stores'[g] # << >> /\ Head(stores'[g]) = Head(stores[g])
    <3> DEFINE e == [line |-> l, data |-> v]
    <3>1. e \in StoreEntries
      BY DEF StoreEntries
    <3>2. stores' = [stores EXCEPT ![h] = Append(@, e)]
      BY <1>2 DEF Store
    <3> HIDE DEF e
    <3>3. stores[g] \in Seq(StoreEntries)
      OBVIOUS
    <3>4. /\ Append(stores[g], e) # << >>
          /\ Head(Append(stores[g], e)) = Head(stores[g])
      BY <2>4, <3>1, <3>3, AppendProperties
    <3> QED BY <2>4, <3>2, <3>4
  <2>5. \A g \in Harts, x \in DeviceLines : dcache'[g][x] = Absent
    BY <2>1, <2>3
  <2>6. \A g \in Harts : marked'[g].state = "sc_send" =>
           mshr'[g].state = "free" /\ dcache'[g][marked'[g].line] = Absent
    <3>1. \A g \in Harts : marked[g].line \in Lines
      BY DEF Marked
    <3> QED BY <2>1, <2>2, <2>3, <3>1
  <2> QED BY <1>0, <2>1, <2>2, <2>4, <2>5, <2>6, RequesterFrame
<1>3. ASSUME NEW victim, FillInstall(h, victim) PROVE RequesterInv'
  <2>1. /\ mshr[h].state = "complete"
        /\ mshr'[h].state \in {"free", "filled"}
        /\ mshr'[h].state = "filled" => mshr'[h].line = mshr[h].line
        /\ \A g \in Harts : g # h => mshr'[g] = mshr[g]
    BY <1>3 DEF FillInstall, FreeMshr, Mshrs
  <2>2. /\ \A g \in Harts : g # h => dcache'[g] = dcache[g]
        /\ \A l \in Lines : l # mshr[h].line =>
              dcache'[h][l] \in {Absent, dcache[h][l]}
        /\ UNCHANGED <<stores, marked>>
    BY <1>3 DEF FillInstall
  <2>3. mshr[h].line \notin DeviceLines /\ marked[h].state # "sc_send"
    BY <2>1
  <2>4. \A g \in Harts, x \in DeviceLines : dcache'[g][x] = Absent
    BY <2>2, <2>3
  <2> QED BY <1>0, <2>1, <2>2, <2>3, <2>4, RequesterFrame
<1>4. ASSUME NEW st \in MarkedStates, NEW l \in Lines, NEW v \in Values,
             st = "fence" \/ (l \notin DeviceLines /\ st # "sc_send"),
             BeginMarked(h, st, l, v)
      PROVE  RequesterInv'
  <2>1. marked[h].state = "idle" /\ UNCHANGED <<dcache, stores>>
    BY <1>4 DEF BeginMarked
  <2>2. marked'[h].state = st /\ marked'[h].line = l
        /\ \A g \in Harts : g # h => marked'[g] = marked[g]
    BY <1>4 DEF BeginMarked
  <2>3. \A g \in Harts :
           /\ mshr'[g].line = mshr[g].line
           /\ mshr[g].state \in {"free", "issued"}
                 => mshr'[g].state = mshr[g].state
           /\ mshr[g].state # "free" => mshr'[g].state # "free"
    BY <1>4 DEF BeginMarked, AfterBarrier, Mshrs
  <2> QED BY <1>0, <1>4, <2>1, <2>2, <2>3, RequesterFrame
<1>5. CASE \E l \in Lines : BeginLR(h, l)
  BY <1>4, <1>5, ValuesAssumption, AccessAssumption DEF BeginLR, MarkedStates
<1>6. CASE \E l \in Lines, v \in Values : BeginSC(h, l, v)
  BY <1>4, <1>6, AccessAssumption DEF BeginSC, MarkedStates
<1>7. CASE BeginFence(h)
  BY <1>4, <1>7, SomeLine, ValuesAssumption DEF BeginFence, MarkedStates
<1>8. CASE LRHit(h) \/ LRFill(h)
  <2>1. /\ marked[h].state = "lr_lookup" /\ marked'[h].state = "idle"
        /\ \A g \in Harts : g # h => marked'[g] = marked[g]
        /\ UNCHANGED <<dcache, stores>>
    BY <1>8 DEF LRHit, LRFill, NoMarked
  <2>2. /\ \A g \in Harts : g # h => mshr'[g] = mshr[g]
        /\ mshr'[h] = mshr[h] \/ (mshr[h].state = "filled"
                                  /\ mshr'[h].state = "free")
    BY <1>8 DEF LRHit, LRFill, FreeMshr
  <2> QED BY <1>0, <2>1, <2>2, RequesterFrame
<1>9. CASE LRMiss(h)
  <2>1. marked[h].state = "lr_lookup" /\ mshr[h].state = "free"
        /\ UNCHANGED <<dcache, stores, marked>>
    BY <1>9 DEF LRMiss
  <2>2. mshr'[h].state = "need" /\ mshr'[h].line = marked[h].line
        /\ \A g \in Harts : g # h => mshr'[g] = mshr[g]
    BY <1>9 DEF LRMiss, AllocateMshr
  <2> QED BY <1>0, <2>1, <2>2, RequesterFrame
<1>10. CASE SelfInvalidate(h)
  <2>1. marked[h].state = "sc_invalidate" /\ mshr[h].state = "free"
        /\ UNCHANGED <<stores, mshr>>
    BY <1>10 DEF SelfInvalidate
  <2>2. /\ dcache'[h][marked[h].line] = Absent
        /\ \A g \in Harts, l \in Lines : dcache'[g][l] \in {Absent, dcache[g][l]}
    BY <1>10 DEF SelfInvalidate, Marked
  <2>3. /\ marked'[h].state = "sc_send"
        /\ \A g \in Harts : /\ marked'[g].line = marked[g].line
                            /\ g # h => marked'[g] = marked[g]
    BY <1>10 DEF SelfInvalidate, Marked
  <2>4. \A g \in Harts : marked[g].line \in Lines
    BY DEF Marked
  <2>5. \A g \in Harts, x \in DeviceLines : dcache'[g][x] = Absent
    BY <2>2
  <2>6. \A g \in Harts : marked'[g].state = "sc_send" =>
           mshr'[g].state = "free" /\ dcache'[g][marked'[g].line] = Absent
    <3> SUFFICES ASSUME NEW g \in Harts, marked'[g].state = "sc_send"
                 PROVE  mshr'[g].state = "free"
                        /\ dcache'[g][marked'[g].line] = Absent
      OBVIOUS
    <3>1. CASE g = h
      BY <2>1, <2>2, <2>3, <3>1
    <3>2. CASE g # h
      <4>1. mshr[g].state = "free" /\ dcache[g][marked[g].line] = Absent
        BY <2>3, <3>2
      <4> QED BY <2>1, <2>2, <2>3, <2>4, <4>1
    <3> QED BY <3>1, <3>2
  <2>7. \A g \in Harts : marked'[g].state \notin {"idle", "fence"} =>
           marked'[g].line \notin DeviceLines
    BY <2>1, <2>3
  <2> QED BY <1>0, <2>1, <2>3, <2>5, <2>6, <2>7, RequesterFrame
<1> QED
  BY <1>1, <1>2, <1>3, <1>5, <1>6, <1>7, <1>8, <1>9, <1>10 DEF L1DStep, L1DAccess

\* A snoop that the L1D completes does too.
LEMMA SnoopRequester ==
    ASSUME TypeOK, RequesterInv, NEW h \in Harts, InvalidateL1D(h)
    PROVE  RequesterInv'
<1> USE RequesterFacts
<1> DEFINE l == endpoint[h].line
<1>1. l \in Lines /\ UNCHANGED <<state, req, stores, marked>>
  BY DEF InvalidateL1D, SnoopInvalidate, homeVars, TypeOK, ProbeTypeOK,
         EndpointSlots
<1>2. SnoopInvalidate(h, l)
  BY DEF InvalidateL1D
<1> HIDE DEF l
<1>3. \A g \in Harts, x \in Lines : dcache'[g][x] \in {Absent, dcache[g][x]}
  BY <1>1, <1>2 DEF SnoopInvalidate
<1>4. \A g \in Harts :
         /\ mshr'[g].line = mshr[g].line
         /\ mshr[g].state \in {"free", "issued"}
               => mshr'[g].state = mshr[g].state
         /\ mshr[g].state # "free" => mshr'[g].state # "free"
  BY <1>1, <1>2 DEF SnoopInvalidate, AfterSnoop, AfterBarrier, Mshrs
<1>5. \A g \in Harts, x \in DeviceLines : dcache'[g][x] = Absent
  BY <1>3
<1>6. \A g \in Harts : marked[g].line \in Lines
  BY DEF Marked
<1>7. \A g \in Harts : marked'[g].state = "sc_send" =>
         mshr'[g].state = "free" /\ dcache'[g][marked'[g].line] = Absent
  BY <1>1, <1>3, <1>4, <1>6
<1> QED
  BY <1>1, <1>4, <1>5, <1>7, RequesterFrame

\* Capturing a command makes it the one in service.
LEMMA CaptureRequester ==
    ASSUME TypeOK, RequesterInv, NEW c \in Commands, Capture(c),
           UNCHANGED <<dcache, stores, marked>>,
           \A g \in Harts :
              /\ mshr'[g].state = "free" <=> mshr[g].state = "free"
              /\ mshr'[g].line = mshr[g].line,
           c.source = "DCACHE" /\ c.cacheable =>
              /\ c.line \notin DeviceLines
              /\ c.op = "READ" => /\ mshr'[c.hart].state = "issued"
                                  /\ mshr'[c.hart].line = c.line
              /\ c.op = "WRITE" =>
                    /\ stores[c.hart] # << >>
                    /\ Head(stores[c.hart]) = [line |-> c.line, data |-> c.data],
           c.op \in {"LR", "SC"} =>
              /\ c.cacheable
              /\ marked[c.hart].line = c.line
              /\ marked[c.hart].state =
                    IF c.op = "LR" THEN "lr_reserve" ELSE "sc_send",
           OpWrites(c.op) /\ ~c.cacheable => c.line \in DeviceLines
    PROVE  RequesterInv'
<1> USE RequesterFacts
<1>1. req' = c
  BY DEF Capture
<1>2. ScQuiet'
  BY DEF ScQuiet
<1>3. DevicesUncached'
  BY <1>1 DEF DevicesUncached
<1>4. StoreServed' /\ Served' /\ ServedMarked'
  BY <1>1 DEF StoreServed, Served, ServedMarked
<1> QED
  BY <1>2, <1>3, <1>4 DEF RequesterInv

LEMMA AcceptRequester ==
    ASSUME TypeOK, RequesterInv, NEW h \in Harts, Accept(h)
    PROVE  RequesterInv'
<1> USE RequesterFacts DEF Command, OpWrites
<1>1. CASE AcceptStore(h)
  <2>1. Head(stores[h]) \in StoreEntries
    BY <1>1 DEF AcceptStore
  <2> DEFINE s == Head(stores[h])
             c == Command(h, "DCACHE", "WRITE", s.line, s.data)
  <2>2. /\ s = [line |-> s.line, data |-> s.data]
        /\ s.line \in Lines /\ s.data \in Values
    BY <2>1 DEF StoreEntries
  <2>3. c \in Commands
    BY <2>2, CommandType DEF Sources, Ops
  <2>4. Capture(c) /\ UNCHANGED <<dcache, stores, marked, mshr>>
        /\ stores[h] # << >>
    BY <1>1 DEF AcceptStore, privateVars
  <2> QED BY <2>2, <2>3, <2>4, CaptureRequester
<1>2. CASE AcceptFill(h)
  <2> DEFINE c == Command(h, "DCACHE", "READ", mshr[h].line, InitValue)
  <2>1. mshr[h].line \in Lines
    BY DEF Mshrs
  <2>2. c \in Commands
    BY <2>1, CommandType, ValuesAssumption DEF Sources, Ops
  <2>3. Capture(c) /\ UNCHANGED <<dcache, stores, marked>>
    BY <1>2 DEF AcceptFill
  <2>4. /\ mshr[h].state = "need" /\ mshr'[h].state = "issued"
        /\ \A g \in Harts : /\ mshr'[g].line = mshr[g].line
                            /\ g # h => mshr'[g] = mshr[g]
    BY <1>2 DEF AcceptFill, Mshrs
  <2> QED BY <2>2, <2>3, <2>4, CaptureRequester
<1>3. ASSUME NEW op \in {"LR", "SC", "FENCE"}, NEW st,
             AcceptMarked(h, st, op),
             op = "LR" => st = "lr_reserve", op = "SC" => st = "sc_send"
      PROVE  RequesterInv'
  <2> DEFINE c == Command(h, "DCACHE", op, marked[h].line, marked[h].data)
  <2>1. marked[h].line \in Lines /\ marked[h].data \in Values
    BY DEF Marked
  <2>2. c \in Commands
    BY <2>1, CommandType DEF Sources, Ops
  <2>3. Capture(c) /\ UNCHANGED <<dcache, stores, marked, mshr>>
        /\ marked[h].state = st
    BY <1>3 DEF AcceptMarked, privateVars
  <2> QED BY <1>3, <2>2, <2>3, CaptureRequester
<1>4. CASE AcceptLR(h) \/ AcceptSC(h) \/ AcceptFence(h)
  BY <1>3, <1>4 DEF AcceptLR, AcceptSC, AcceptFence
<1>5. ASSUME NEW c \in Commands, Capture(c), UNCHANGED privateVars,
             c.source = "DCACHE" => ~c.cacheable, c.op \notin {"LR", "SC"},
             OpWrites(c.op) /\ ~c.cacheable => c.line \in DeviceLines
      PROVE  RequesterInv'
  <2>1. UNCHANGED <<dcache, stores, marked, mshr>>
    BY <1>5 DEF privateVars
  <2> QED BY <1>5, <2>1, CaptureRequester
<1>6. CASE AcceptFetch(h)
  <2> DEFINE c == Command(h, "ICACHE", "READ", fetch[h], InitValue)
  <2>1. fetch[h] \in Lines
    BY <1>6 DEF AcceptFetch, TypeOK, PrivateTypeOK
  <2>2. c \in Commands
    BY <2>1, CommandType, ValuesAssumption DEF Sources, Ops
  <2> QED BY <1>5, <1>6, <2>2 DEF AcceptFetch
<1>7. ASSUME NEW op \in Ops, NEW l \in Lines, AcceptPtw(h, op, l)
      PROVE  RequesterInv'
  <2> DEFINE c == Command(h, "PTW", op, l, InitValue)
  <2>1. c \in Commands
    BY CommandType, ValuesAssumption DEF Sources
  <2> QED BY <1>5, <1>7, <2>1 DEF AcceptPtw
<1>8. ASSUME NEW op \in Ops, NEW l \in Lines, NEW v \in Values,
             AcceptDevice(h, op, l, v)
      PROVE  RequesterInv'
  <2> DEFINE c == Command(h, "DCACHE", op, l, v)
  <2>1. c \in Commands
    BY CommandType DEF Sources
  <2> QED BY <1>5, <1>8, <2>1 DEF AcceptDevice
<1>9. ASSUME NEW op \in Ops, NEW l \in Lines,
             NEW err \in {"command", "wdata"}, AcceptMalformed(h, op, l, err)
      PROVE  RequesterInv'
  <2> DEFINE b == Command(h, "LEGACY", op, l, InitValue)
             c == [b EXCEPT !.err = err]
  <2>1. b \in Commands
    BY CommandType, ValuesAssumption DEF Sources
  <2>2. /\ c \in Commands /\ c.source = "LEGACY" /\ c.op = op /\ c.line = l
        /\ c.cacheable <=> (op # "FENCE" /\ l \notin DeviceLines)
    BY <2>1 DEF Commands
  <2>3. Capture(c) /\ UNCHANGED privateVars /\ op \in {"READ", "WRITE"}
    BY <1>9 DEF AcceptMalformed
  <2> HIDE DEF c
  <2> QED BY <1>5, <2>2, <2>3
<1> QED
  BY <1>1, <1>2, <1>4, <1>6, <1>7, <1>8, <1>9 DEF Accept

\* A response ends the access it answers.
LEMMA RespondRequester ==
    ASSUME TypeOK, RequesterInv, Respond
    PROVE  RequesterInv'
<1> USE RequesterFacts
<1> DEFINE h == req.hart
<1>1. h \in Harts /\ state # "IDLE" /\ state' = "IDLE"
  BY DEF Respond, TypeOK, HomeTypeOK, Commands
<1>2. StoreServed' /\ Served' /\ ServedMarked'
  BY <1>1 DEF StoreServed, Served, ServedMarked
<1>3. ASSUME \A g \in Harts : g # h =>
                mshr'[g] = mshr[g] /\ marked'[g] = marked[g],
             marked'[h].state # "sc_send",
             mshr'[h].state # "free" => /\ mshr[h].state # "free"
                                        /\ mshr'[h].line = mshr[h].line,
             marked'[h].state \notin {"idle", "fence"} =>
                /\ marked[h].state \notin {"idle", "fence"}
                /\ marked'[h].line = marked[h].line,
             UNCHANGED dcache
      PROVE  RequesterInv'
  <2>1. ScQuiet'
    BY <1>3 DEF ScQuiet
  <2>2. DevicesUncached'
    BY <1>1, <1>3 DEF DevicesUncached
  <2> QED BY <1>2, <2>1, <2>2 DEF RequesterInv
<1>4. ASSUME UNCHANGED <<dcache, mshr, marked>> PROVE RequesterInv'
  <2>1. ScQuiet' /\ DevicesUncached'
    BY <1>1, <1>4 DEF ScQuiet, DevicesUncached
  <2> QED BY <1>2, <2>1 DEF RequesterInv
<1>5. CASE FetchResponse(h, req.line, resp.error) \/ StoreResponse(h) \/ UNCHANGED privateVars
  BY <1>4, <1>5 DEF FetchResponse, StoreResponse, privateVars
<1>6. CASE FillResponse(h, resp.error, resp.data) /\ req.source = "DCACHE" /\ req.cacheable
           /\ req.op = "READ"
  <2>1. mshr[h].state = "issued"
    BY <1>1, <1>6 DEF RequesterInv, Served
  <2>2. /\ \A g \in Harts : g # h =>
              mshr'[g] = mshr[g] /\ marked'[g] = marked[g]
        /\ mshr'[h].state # "free" => mshr'[h].line = mshr[h].line
        /\ marked'[h] \in {NoMarked, marked[h]}
        /\ UNCHANGED dcache
    BY <1>1, <1>6 DEF FillResponse, Mshrs, FreeMshr
  <2> QED BY <1>1, <1>3, <2>1, <2>2 DEF NoMarked
<1>7. CASE MarkedResponse(h, req.op, resp.error) /\ req.op \in {"LR", "SC", "FENCE"}
  <2>1. req.op = "LR" => marked[h].state = "lr_reserve"
    BY <1>1, <1>7 DEF RequesterInv, ServedMarked
  <2>2. /\ \A g \in Harts : g # h => marked'[g] = marked[g]
        /\ \/ marked'[h] = NoMarked
           \/ /\ req.op = "LR"
              /\ marked'[h].state = "lr_lookup"
              /\ marked'[h].line = marked[h].line
        /\ UNCHANGED <<dcache, mshr>>
    BY <1>1, <1>7 DEF MarkedResponse, Marked
  <2> QED BY <1>1, <1>3, <2>1, <2>2 DEF NoMarked
<1> QED
  BY <1>5, <1>6, <1>7 DEF Respond, Response, privateVars

\* Every step keeps what the home relies on from the requesters.
LEMMA NextRequester == TypeOK /\ RequesterInv /\ [Next]_vars => RequesterInv'
<1> SUFFICES ASSUME TypeOK, RequesterInv, [Next]_vars PROVE RequesterInv'
  OBVIOUS
<1>1. ASSUME UNCHANGED <<req, dcache, stores, mshr, marked>>,
             state' # "IDLE" => state # "IDLE"
      PROVE  RequesterInv'
  BY <1>1 DEF RequesterInv, StoreServed, Served, ServedMarked, ScQuiet,
              DevicesUncached
<1>2. CASE HomeStep /\ ~Respond
  <2>1. UNCHANGED <<req, privateVars>> /\ state # "IDLE"
    BY <1>2 DEF HomeStep, WaitWdata, DirLookup, Lookup, LookupScFail,
        LookupFillHit, LookupFillEvict, LookupFillAllocate, LookupWriteProbe,
        LookupScClear, LookupBypass, LookupDone, ProbeStart, ProbeDone,
        DirAllocate, DirClear, DirRecord, DirectoryStep, L2Request, L2Wdata,
        L2Response
  <2> QED BY <1>1, <2>1 DEF privateVars
<1>3. CASE RejectBurst \/ UNCHANGED vars
  BY <1>1, <1>3 DEF RejectBurst, vars, privateVars, homeVars
<1>4. ASSUME NEW h \in Harts, ProbeStep(h) \/ L1IStep(h) PROVE RequesterInv'
  <2>1. UNCHANGED <<req, state, dcache, stores, mshr, marked>>
    BY <1>4 DEF ProbeStep, L1IStep, L1IAccess, FetchMiss, FenceI, homeVars, privateVars
  <2> QED BY <1>1, <2>1
<1> QED
  BY <1>2, <1>3, <1>4, L1DRequester, SnoopRequester, AcceptRequester,
     RespondRequester DEF Next

\* Every register keeps its type (coherent_protocol.v:149-178), for every
\* geometry of the home.
THEOREM TypeCorrect == Spec => []TypeOK
<1>1. Init => TypeOK /\ RequesterInv
  BY InitType, InitRequester
<1>2. TypeOK /\ RequesterInv /\ [Next]_vars => (TypeOK /\ RequesterInv)'
  BY NextType, NextRequester DEF RequesterInv
<1> QED
  BY <1>1, <1>2, PTL DEF Spec

-----------------------------------------------------------------------------
(* Holders: a copy appears only with the response to a fill.                 *)

\* An L1D access takes at most one copy away from its own hart.
LEMMA L1DHolders ==
    ASSUME TypeOK, NEW h \in Harts, L1DStep(h)
    PROVE  \E l \in Lines \cup {NoLine} : Drops(h, l)
  BY AccessHolders DEF L1DStep, TypeOK

\* A completed snoop takes the line, and the data of a miss on it, away.
LEMMA SnoopHolders ==
    ASSUME TypeOK, NEW h \in Harts, InvalidateL1D(h)
    PROVE  Drops(h, endpoint[h].line) /\ endpoint[h].line \in Lines
<1>1. endpoint[h].line \in Lines
  BY DEF TypeOK, ProbeTypeOK, EndpointSlots
<1> QED
  BY <1>1, SnoopedHolders DEF InvalidateL1D, TypeOK

\* The response to a fill makes its requester a holder of its line.
LEMMA RespondHolders ==
    ASSUME TypeOK, RequesterInv, Respond
    PROVE  \/ SameHolders
           \/ /\ RequestPrivateFill /\ req.source = "DCACHE" /\ ~resp.error
              /\ \A g \in Harts, x \in Lines :
                    HoldsD(g, x)' <=>
                       (HoldsD(g, x) \/ (g = req.hart /\ x = req.line))
<1> DEFINE h == req.hart
<1>1. h \in Harts /\ req.line \in Lines /\ state # "IDLE"
      /\ mshr \in [Harts -> Mshrs]
  BY DEF Respond, TypeOK, HomeTypeOK, PrivateTypeOK, Commands
<1>2. CASE UNCHANGED <<dcache, mshr>>
  BY <1>2 DEF SameHolders, HoldsD
<1>3. CASE FillResponse(h, resp.error, resp.data) /\ req.source = "DCACHE" /\ req.cacheable
           /\ req.op = "READ"
  <2>1. mshr[h].state = "issued" /\ mshr[h].line = req.line
    BY <1>1, <1>3 DEF RequesterInv, Served
  <2>2. UNCHANGED dcache /\ \A g \in Harts : g # h => mshr'[g] = mshr[g]
    BY <1>1, <1>3 DEF FillResponse
  <2>3. CASE mshr[h].reissue \/ resp.error
    <3>1. mshr'[h].state # "complete"
      BY <1>1, <1>3, <2>3 DEF FillResponse, Mshrs, FreeMshr
    <3> QED BY <2>1, <2>2, <3>1 DEF SameHolders, HoldsD
  <2>4. CASE ~mshr[h].reissue /\ ~resp.error
    <3>1. mshr'[h].state = "complete" /\ mshr'[h].line = req.line
      BY <1>1, <1>3, <2>1, <2>4 DEF FillResponse, Mshrs
    <3>2. RequestPrivateFill
      BY <1>3 DEF RequestPrivateFill
    <3>3. \A g \in Harts, x \in Lines :
             HoldsD(g, x)' <=> (HoldsD(g, x) \/ (g = h /\ x = req.line))
      BY <2>1, <2>2, <3>1 DEF HoldsD
    <3> QED BY <1>3, <2>4, <3>2, <3>3
  <2> QED BY <2>3, <2>4
<1> QED
  BY <1>2, <1>3 DEF Respond, Response, FetchResponse, StoreResponse, MarkedResponse,
                    privateVars

-----------------------------------------------------------------------------
(* The directory invariant.                                                  *)

LEMMA InitDirectory == Init => DirectoryInv
<1> SUFFICES ASSUME Init PROVE DirectoryInv
  OBVIOUS
<1>1. DirUnique
  BY DEF Init, DirectoryInit, InvalidEntry, DirUnique
<1>2. CopiesTracked
  BY DEF Init, PrivateInit, FreeMshr, CopiesTracked, HoldsD
<1>3. FillRecorded /\ Replacing /\ Revoking /\ Probing /\ WriteExclusive
  BY DEF Init, HomeInit, FillRecorded, Replacing, Revoking, Probing,
         ProbeWaitStates, WriteExclusive, WriteInService
<1>4. ProbeIdle
  BY DEF Init, HomeInit, ProbeInit, ProbeIdle, EndpointReady
<1> QED
  BY <1>1, <1>2, <1>3, <1>4 DEF DirectoryInv

\* A line has at most one entry, and that entry names every holder.
LEMMA EntryNamesHolders ==
    ASSUME TypeOK, DirUnique, CopiesTracked, NEW l \in Lines,
           NEW w \in MatchingWays(l), NEW h \in Harts, HoldsD(h, l)
    PROVE  h \in dir[SetOf[l]][w].d
<1>1. PICK x \in MatchingWays(l) : h \in dir[SetOf[l]][x].d
  BY DEF CopiesTracked, RecordedD
<1>2. x = w
  BY GeometryAssumption DEF DirUnique, MatchingWays
<1> QED
  BY <1>1, <1>2

\* A line without an entry has no holder.
LEMMA MissMeansNoHolder ==
    ASSUME CopiesTracked, NEW l \in Lines, MatchingWays(l) = {}
    PROVE  NobodyHolds(l)
  BY DEF CopiesTracked, RecordedD, NobodyHolds

\* What a lookup finds does not change while the directory does not.
LEMMA SameDirectory ==
    ASSUME UNCHANGED dir
    PROVE  \A l : /\ MatchingWays(l)' = MatchingWays(l)
                  /\ \A h : RecordedD(h, l)' <=> RecordedD(h, l)
  BY DEF MatchingWays, RecordedD

\* A step that leaves the home and the directory alone and creates no holder
\* keeps everything but, perhaps, what is said of a probe in flight.
LEMMA DirectoryFrame ==
    ASSUME DirectoryInv, TypeOK,
           UNCHANGED <<state, req, resp, entry, probe, dir>>,
           \A g \in Harts, x \in Lines : HoldsD(g, x)' => HoldsD(g, x),
           Probing', ProbeIdle'
    PROVE  DirectoryInv'
<1> USE SameDirectory DEF DirectoryInv
<1>1. req.line \in Lines /\ probe.line \in Lines
      /\ SetOf[req.line] \in Sets /\ entry \in Ways
      /\ probe.targets \subseteq Harts
  BY GeometryAssumption DEF TypeOK, HomeTypeOK, Commands
<1>2. ReqEntry \in Entries
  BY <1>1 DEF ReqEntry, TypeOK, DirectoryTypeOK
<1>3. ReqEntry' = ReqEntry /\ (RequestPrivateFill' <=> RequestPrivateFill)
      /\ (RequestCoherentWrite' <=> RequestCoherentWrite)
  BY DEF ReqEntry, RequestPrivateFill, RequestCoherentWrite
<1>4. DirUnique'
  BY DEF DirUnique
<1>5. CopiesTracked'
  BY DEF CopiesTracked
<1>6. FillRecorded'
  BY <1>3 DEF FillRecorded
<1>7. \A l \in Lines : NobodyHolds(l) => NobodyHolds(l)'
  BY DEF NobodyHolds
<1>8. Replacing'
  <2>1. ReqEntry.line \in Lines
    BY <1>2 DEF Entries
  <2>2. NobodyHolds(ReqEntry.line) => NobodyHolds(ReqEntry.line)'
    BY <1>3, <2>1 DEF NobodyHolds
  <2> QED BY <1>3, <2>2 DEF Replacing
<1>9. Revoking'
  <2>1. NobodyHolds(req.line) => NobodyHolds(req.line)'
    BY <1>1 DEF NobodyHolds
  <2>2. \A h \in Harts : HoldsD(h, req.line)' => HoldsD(h, req.line)
    BY <1>1
  <2> QED BY <1>3, <2>1, <2>2 DEF Revoking
<1>10. WriteExclusive'
  <2>1. \A h \in Harts : HoldsD(h, req.line)' => HoldsD(h, req.line)
    BY <1>1
  <2> QED BY <1>3, <2>1 DEF WriteExclusive, WriteInService
<1> QED
  BY <1>4, <1>5, <1>6, <1>8, <1>9, <1>10

\* A step of a private cache, or one that touches nothing of all this.
LEMMA PrivateDirectory ==
    ASSUME DirectoryInv, TypeOK,
           UNCHANGED <<state, req, resp, entry, probe, dir, tracker, endpoint>>,
           \A g \in Harts, x \in Lines : HoldsD(g, x)' => HoldsD(g, x)
    PROVE  DirectoryInv'
<1>1. probe.line \in Lines /\ probe.targets \subseteq Harts
  BY DEF TypeOK, HomeTypeOK
<1>2. \A h \in Harts : HoldsD(h, probe.line)' => HoldsD(h, probe.line)
  BY <1>1
<1>3. \A h : EndpointReady(h)' <=> EndpointReady(h)
  BY DEF EndpointReady
<1>4. Probing'
  BY <1>1, <1>2, <1>3 DEF DirectoryInv, Probing
<1>5. ProbeIdle'
  BY <1>3 DEF DirectoryInv, ProbeIdle
<1> QED
  BY <1>4, <1>5, DirectoryFrame

\* The handshakes of the probe fabric: outside a probe there are none, and
\* within one each moves its hart one step closer to the ACK.
LEMMA ProbeDirectory ==
    ASSUME DirectoryInv, TypeOK, NEW h \in Harts,
           ProbeStep(h) \/ InvalidateL1D(h)
    PROVE  DirectoryInv'
<1> USE DEF ProbeWaitStates
<1>1. /\ UNCHANGED <<state, req, resp, entry, probe, dir>>
      /\ probe.line \in Lines /\ probe.targets \subseteq Harts
  BY DEF ProbeStep, InvalidateL1D, homeVars, directoryVars, TypeOK, HomeTypeOK
<1>2. /\ tracker \in TrackerRegisters
      /\ endpoint \in [Harts -> EndpointSlots]
  BY DEF TypeOK, ProbeTypeOK
<1>3. CASE ProbeTimeout(h) /\ UNCHANGED privateVars
  <2>1. UNCHANGED <<tracker, endpoint>>
    BY <1>3 DEF ProbeTimeout
  <2>2. \A g \in Harts, x \in Lines : HoldsD(g, x)' => HoldsD(g, x)
    BY <1>3 DEF privateVars, HoldsD
  <2> QED BY <1>1, <2>1, <2>2, PrivateDirectory
<1>4. CASE ProbeIssue(h) /\ UNCHANGED privateVars
  <2>1. SameHolders
    BY <1>4 DEF privateVars, HoldsD, SameHolders
  <2>2. tracker.busy /\ h \in tracker.issue
    BY <1>4 DEF ProbeIssue
  <2>3. state \in ProbeWaitStates /\ ~tracker.done /\ h \notin tracker.ack
    BY <2>2 DEF DirectoryInv, ProbeIdle, Probing
  <2>4. /\ tracker'.issue = tracker.issue \ {h}
        /\ tracker'.ack = tracker.ack \cup {h}
        /\ tracker'.busy = tracker.busy /\ tracker'.done = tracker.done
        /\ tracker'.id = tracker.id /\ tracker'.mask = tracker.mask
        /\ tracker'.line = tracker.line
    BY <1>2, <1>4 DEF ProbeIssue, TrackerRegisters
  <2>5. /\ \A g \in Harts : g # h => endpoint'[g] = endpoint[g]
        /\ endpoint'[h].invalidate <=> ("D" \in tracker.mask)
        /\ endpoint'[h].response <=> ("D" \notin tracker.mask)
        /\ endpoint'[h].id = tracker.id /\ endpoint'[h].line = tracker.line
    BY <1>2, <1>4 DEF ProbeIssue
  <2>6. Probing'
    <3> USE DEF DirectoryInv, Probing
    <3>1. \A g \in Harts : g \notin tracker'.ack => EndpointReady(g)'
      BY <2>3, <2>4, <2>5 DEF EndpointReady
    <3>2. \A g \in Harts : g \in tracker'.ack =>
             /\ endpoint'[g].invalidate <=> ~endpoint'[g].response
             /\ endpoint'[g].id = tracker'.id
             /\ endpoint'[g].line = probe'.line
      BY <1>1, <2>3, <2>4, <2>5
    <3>3. \A g \in Harts : g \in probe.targets /\ "D" \in probe.mask
             /\ g \notin tracker'.issue
             /\ (g \in tracker'.ack => endpoint'[g].response)
             => ~HoldsD(g, probe.line)'
      <4> SUFFICES ASSUME NEW g \in Harts, g \in probe.targets,
                          "D" \in probe.mask, g \notin tracker'.issue,
                          g \in tracker'.ack => endpoint'[g].response
                   PROVE  ~HoldsD(g, probe.line)'
        OBVIOUS
      <4>1. g # h
        BY <2>3, <2>4, <2>5
      <4>2. ~HoldsD(g, probe.line)
        BY <2>3, <2>4, <2>5, <4>1
      <4> QED BY <1>1, <2>1, <4>2 DEF SameHolders
    <3>4. tracker'.issue \cap tracker'.ack = {} /\ tracker.ack \subseteq Harts
      BY <1>2, <2>3, <2>4 DEF TrackerRegisters
    <3>5. tracker'.ack \subseteq Harts
      BY <2>4, <3>4
    <3> QED BY <1>1, <2>3, <2>4, <3>1, <3>2, <3>3, <3>4, <3>5
  <2>7. ProbeIdle'
    BY <1>1, <2>3 DEF ProbeIdle
  <2> QED BY <1>1, <2>1, <2>6, <2>7, DirectoryFrame DEF SameHolders
<1>5. CASE ProbeAck(h) /\ UNCHANGED privateVars
  <2>1. SameHolders
    BY <1>5 DEF privateVars, HoldsD, SameHolders
  <2>2. endpoint[h].response /\ ~EndpointReady(h)
    BY <1>5 DEF ProbeAck, EndpointReady
  <2>3. /\ state \in ProbeWaitStates /\ h \in tracker.ack
        /\ tracker.busy /\ ~tracker.done /\ AckAccepted(h)
    BY <1>2, <2>2 DEF DirectoryInv, ProbeIdle, Probing, AckAccepted, TrackerRegisters
  <2>4. /\ tracker'.issue = tracker.issue
        /\ tracker'.ack = tracker.ack \ {h}
        /\ tracker'.busy <=> ~(tracker.issue = {} /\ tracker.ack \ {h} = {})
        /\ tracker'.done <=> (tracker.issue = {} /\ tracker.ack \ {h} = {})
        /\ tracker'.id = tracker.id /\ tracker'.mask = tracker.mask
        /\ tracker'.line = tracker.line
    BY <1>2, <1>5, <2>3 DEF ProbeAck, TrackerRegisters
  <2>5. /\ \A g \in Harts : g # h => endpoint'[g] = endpoint[g]
        /\ endpoint'[h] = [endpoint[h] EXCEPT !.response = FALSE]
    BY <1>2, <1>5 DEF ProbeAck
  <2>6. Probing'
    <3> USE DEF DirectoryInv, Probing
    <3>1. \A g \in Harts : g \notin tracker'.ack => EndpointReady(g)'
      <4>1. ~endpoint[h].invalidate
        BY <2>2, <2>3
      <4>2. endpoint'[h].invalidate = endpoint[h].invalidate
            /\ ~endpoint'[h].response
        BY <1>2, <2>5 DEF EndpointSlots
      <4> QED BY <2>3, <2>4, <2>5, <4>1, <4>2 DEF EndpointReady
    <3>2. \A g \in Harts : g \in tracker'.ack =>
             /\ endpoint'[g].invalidate <=> ~endpoint'[g].response
             /\ endpoint'[g].id = tracker'.id
             /\ endpoint'[g].line = probe'.line
      BY <1>1, <2>3, <2>4, <2>5
    <3>3. \A g \in Harts : g \in probe.targets /\ "D" \in probe.mask
             /\ g \notin tracker'.issue
             /\ (g \in tracker'.ack => endpoint'[g].response)
             => ~HoldsD(g, probe.line)'
      <4> SUFFICES ASSUME NEW g \in Harts, g \in probe.targets,
                          "D" \in probe.mask, g \notin tracker'.issue,
                          g \in tracker'.ack => endpoint'[g].response
                   PROVE  ~HoldsD(g, probe.line)'
        OBVIOUS
      <4>1. ~HoldsD(g, probe.line)
        <5>1. CASE g = h
          BY <2>2, <2>3, <2>4, <5>1
        <5>2. CASE g # h
          BY <2>3, <2>4, <2>5, <5>2
        <5> QED BY <5>1, <5>2
      <4> QED BY <1>1, <2>1, <4>1 DEF SameHolders
    <3>4. /\ tracker'.issue \cap tracker'.ack = {}
          /\ tracker'.ack \subseteq Harts
          /\ tracker'.done => tracker'.issue = {} /\ tracker'.ack = {}
          /\ tracker'.busy <=> ~tracker'.done
      BY <1>2, <2>3, <2>4 DEF TrackerRegisters
    <3> QED BY <1>1, <2>3, <2>4, <3>1, <3>2, <3>3, <3>4
  <2>7. ProbeIdle'
    BY <1>1, <2>3 DEF ProbeIdle
  <2> QED BY <1>1, <2>1, <2>6, <2>7, DirectoryFrame DEF SameHolders
<1>6. CASE InvalidateL1D(h)
  <2>1. /\ endpoint[h].invalidate /\ ~EndpointReady(h)
        /\ UNCHANGED tracker
        /\ \A g \in Harts : g # h => endpoint'[g] = endpoint[g]
        /\ endpoint'[h] = [endpoint[h] EXCEPT !.invalidate = FALSE,
                                              !.response = TRUE]
    BY <1>2, <1>6 DEF InvalidateL1D, EndpointInvalidated, EndpointReady
  <2>2. state \in ProbeWaitStates /\ h \in tracker.ack
        /\ endpoint[h].line = probe.line
    BY <2>1 DEF DirectoryInv, ProbeIdle, Probing
  <2>3. Drops(h, probe.line)
    BY <1>6, <2>2, SnoopHolders
  <2>4. \A g \in Harts, x \in Lines : HoldsD(g, x)' => HoldsD(g, x)
    BY <2>3 DEF Drops
  <2>5. ~HoldsD(h, probe.line)'
    BY <1>1, <2>3 DEF Drops
  <2>6. Probing'
    <3> USE DEF DirectoryInv, Probing
    <3>1. /\ endpoint'[h].response /\ ~endpoint'[h].invalidate
          /\ endpoint'[h].id = endpoint[h].id
          /\ endpoint'[h].line = endpoint[h].line
      BY <1>2, <2>1 DEF EndpointSlots
    <3>2. \A g \in Harts : g \notin tracker'.ack => EndpointReady(g)'
      BY <2>1, <2>2 DEF EndpointReady
    <3>3. \A g \in Harts : g \in tracker'.ack =>
             /\ endpoint'[g].invalidate <=> ~endpoint'[g].response
             /\ endpoint'[g].id = tracker'.id
             /\ endpoint'[g].line = probe'.line
      <4> SUFFICES ASSUME NEW g \in Harts, g \in tracker.ack
                   PROVE  /\ endpoint'[g].invalidate <=> ~endpoint'[g].response
                          /\ endpoint'[g].id = tracker.id
                          /\ endpoint'[g].line = probe.line
        BY <1>1, <2>1
      <4>1. CASE g = h
        BY <1>2, <2>1, <2>2, <3>1, <4>1 DEF EndpointSlots
      <4>2. CASE g # h
        BY <2>1, <2>2, <4>2
      <4> QED BY <4>1, <4>2
    <3>4. \A g \in Harts : g \in probe.targets /\ "D" \in probe.mask
             /\ g \notin tracker'.issue
             /\ (g \in tracker'.ack => endpoint'[g].response)
             => ~HoldsD(g, probe.line)'
      <4> SUFFICES ASSUME NEW g \in Harts, g # h, g \in probe.targets,
                          "D" \in probe.mask, g \notin tracker.issue,
                          g \in tracker.ack => endpoint'[g].response
                   PROVE  ~HoldsD(g, probe.line)'
        BY <2>1, <2>5
      <4>1. ~HoldsD(g, probe.line)
        BY <2>1, <2>2
      <4> QED BY <1>1, <2>4, <4>1
    <3>5. tracker.ack \subseteq Harts
      BY <1>2 DEF TrackerRegisters
    <3> QED BY <1>1, <2>1, <2>2, <3>2, <3>3, <3>4, <3>5
  <2>7. ProbeIdle'
    BY <1>1, <2>2 DEF ProbeIdle
  <2> QED BY <1>1, <2>4, <2>6, <2>7, DirectoryFrame
<1> QED
  BY <1>3, <1>4, <1>5, <1>6 DEF ProbeStep

\* A step of the home that leaves the directory, the probe fabric and the
\* private caches alone.
LEMMA QuietDirectory ==
    ASSUME DirectoryInv, UNCHANGED <<dir, tracker, endpoint, dcache>>,
           SameHolders, state \notin ProbeWaitStates,
           state' \notin ProbeWaitStates,
           FillRecorded', Replacing', Revoking', WriteExclusive'
    PROVE  DirectoryInv'
<1> USE SameDirectory DEF DirectoryInv
<1>1. DirUnique'
  BY DEF DirUnique
<1>2. CopiesTracked'
  BY DEF CopiesTracked, SameHolders
<1>3. Probing'
  BY DEF Probing
<1>4. ProbeIdle'
  BY DEF ProbeIdle, EndpointReady
<1> QED
  BY <1>1, <1>2, <1>3, <1>4

\* Accepting a command.
LEMMA AcceptDirectory ==
    ASSUME TypeOK, DirectoryInv, NEW h \in Harts, Accept(h)
    PROVE  DirectoryInv'
<1>1. PICK c : Capture(c)
  BY DEF Accept, AcceptStore, AcceptFill, AcceptLR, AcceptSC, AcceptFence,
         AcceptMarked, AcceptFetch, AcceptPtw, AcceptDevice, AcceptMalformed
<1>2. UNCHANGED dcache /\ \A g \in Harts :
         /\ mshr'[g].line = mshr[g].line
         /\ mshr'[g].state = "complete" <=> mshr[g].state = "complete"
  <2>1. CASE AcceptFill(h)
    BY <2>1 DEF AcceptFill, TypeOK, PrivateTypeOK, Mshrs
  <2>2. CASE ~AcceptFill(h)
    BY <2>2 DEF Accept, AcceptStore, AcceptLR, AcceptSC, AcceptFence,
          AcceptMarked, AcceptFetch, AcceptPtw, AcceptDevice, AcceptMalformed,
          privateVars
  <2> QED BY <2>1, <2>2
<1>3. SameHolders
  BY <1>2 DEF SameHolders, HoldsD
<1>4. /\ state = "IDLE" /\ UNCHANGED <<dir, tracker, endpoint>>
      /\ state' \in {"WAIT_WDATA", "RESP", "DIR_LOOKUP"}
      /\ state' = "RESP" => resp'.error
  BY <1>1 DEF Capture, directoryVars, probeVars
<1>5. FillRecorded' /\ Replacing' /\ Revoking' /\ WriteExclusive'
  BY <1>4 DEF FillRecorded, Replacing, Revoking, WriteExclusive, WriteInService
<1> QED
  BY <1>2, <1>3, <1>4, <1>5, QuietDirectory DEF ProbeWaitStates

\* Waiting for the data beat, starting the lookup, and the L2 access.
LEMMA AccessDirectory ==
    ASSUME TypeOK, DirectoryInv,
           WaitWdata \/ DirLookup \/ L2Request \/ L2Wdata \/ L2Response
    PROVE  DirectoryInv'
<1>1. UNCHANGED <<dir, tracker, endpoint, dcache, req, entry>> /\ SameHolders
  BY DEF WaitWdata, DirLookup, L2Request, L2Wdata, L2Response, directoryVars,
         probeVars, privateVars, SameHolders, HoldsD
<1>2. /\ RequestPrivateFill' <=> RequestPrivateFill
      /\ RequestCoherentWrite' <=> RequestCoherentWrite
      /\ RequestPrivateFill => ~RequestCoherentWrite /\ ~OpWrites(req.op)
      /\ MatchingWays(req.line)' = MatchingWays(req.line)
  BY <1>1 DEF RequestPrivateFill, RequestCoherentWrite, OpWrites, MatchingWays
<1>3. /\ state \notin ProbeWaitStates /\ state' \notin ProbeWaitStates
      /\ Replacing' /\ Revoking'
  BY DEF WaitWdata, DirLookup, L2Request, L2Wdata, L2Response,
         ProbeWaitStates, Replacing, Revoking
<1>4. FillRecorded'
  <2>1. CASE WaitWdata \/ DirLookup
    <3>1. state' = "RESP" => resp'.error
      BY <2>1 DEF WaitWdata, DirLookup, TypeOK, HomeTypeOK
    <3> QED BY <2>1, <3>1 DEF WaitWdata, DirLookup, FillRecorded
  <2>2. CASE L2Request \/ L2Wdata
    <3>1. state \in {"L2_REQ", "L2_WDATA"} /\ state' \in {"L2_WDATA", "L2_RESP"}
      BY <2>2 DEF L2Request, L2Wdata
    <3> QED BY <1>1, <1>2, <3>1 DEF DirectoryInv, FillRecorded
  <2>3. CASE L2Response
    <3>1. /\ state = "L2_RESP"
          /\ \/ state' = "DIR_RECORD"
             \/ state' = "RESP" /\ (RequestPrivateFill => resp'.error)
      BY <2>3 DEF L2Response, TypeOK, HomeTypeOK
    <3> QED BY <1>1, <1>2, <3>1 DEF DirectoryInv, FillRecorded
  <2> QED BY <2>1, <2>2, <2>3
<1>5. WriteExclusive'
  <2>1. WriteInService' => WriteInService
    BY <1>2 DEF WaitWdata, DirLookup, L2Request, L2Wdata, L2Response,
                WriteInService
  <2>2. req.line \in Lines
    BY DEF TypeOK, HomeTypeOK, Commands
  <2>3. \A h \in Harts : HoldsD(h, req.line)' => HoldsD(h, req.line)
    BY <1>1, <2>2 DEF SameHolders
  <2> QED BY <1>1, <2>1, <2>3 DEF DirectoryInv, WriteExclusive
<1> QED
  BY <1>1, <1>3, <1>4, <1>5, QuietDirectory

\* The response: the one step that makes a holder, already recorded.
LEMMA RespondDirectory ==
    ASSUME TypeOK, RequesterInv, DirectoryInv, Respond
    PROVE  DirectoryInv'
<1> USE SameDirectory DEF DirectoryInv
<1>1. /\ state = "RESP" /\ state' = "IDLE"
      /\ UNCHANGED <<dir, tracker, endpoint>>
  BY DEF Respond, directoryVars, probeVars
<1>2. DirUnique'
  BY <1>1 DEF DirUnique
<1>3. CopiesTracked'
  <2>1. CASE SameHolders
    BY <1>1, <2>1 DEF SameHolders, CopiesTracked
  <2>2. CASE ~SameHolders
    <3>1. RecordedD(req.hart, req.line)
      BY <1>1, <2>2, RespondHolders DEF FillRecorded
    <3> QED BY <1>1, <2>2, <3>1, RespondHolders DEF CopiesTracked
  <2> QED BY <2>1, <2>2
<1>4. ProbeIdle'
  BY <1>1 DEF ProbeIdle, EndpointReady, ProbeWaitStates
<1>5. /\ FillRecorded' /\ Replacing' /\ Revoking' /\ Probing'
      /\ WriteExclusive'
  BY <1>1 DEF FillRecorded, Replacing, Revoking, Probing, ProbeWaitStates,
              WriteExclusive, WriteInService
<1> QED
  BY <1>2, <1>3, <1>4, <1>5

\* A pending SC does not hold its own line any more.
LEMMA ScRequesterGone ==
    ASSUME TypeOK, RequesterInv, state # "IDLE", req.op = "SC"
    PROVE  ~HoldsD(req.hart, req.line) /\ RequestCoherentWrite
<1>1. req.hart \in Harts
  BY DEF TypeOK, HomeTypeOK, Commands
<1>2. /\ req.cacheable /\ marked[req.hart].line = req.line
      /\ marked[req.hart].state = "sc_send"
  BY DEF RequesterInv, ServedMarked
<1> QED
  BY <1>1, <1>2 DEF RequesterInv, ScQuiet, HoldsD, RequestCoherentWrite,
                    OpWrites

\* Every outcome of the lookup.
LEMMA LookupDirectory ==
    ASSUME TypeOK, RequesterInv, DirectoryInv, Lookup
    PROVE  DirectoryInv'
<1> USE DEF DirectoryInv
<1>1. /\ UNCHANGED <<dir, tracker, endpoint, dcache, req>> /\ SameHolders
      /\ state = "DIR_WAIT"
  BY DEF Lookup, LookupScFail, LookupFillHit, LookupFillEvict,
         LookupFillAllocate, LookupWriteProbe, LookupScClear, LookupBypass,
         LookupDone, directoryVars, probeVars, privateVars, SameHolders, HoldsD
<1>2. /\ RequestPrivateFill' <=> RequestPrivateFill
      /\ RequestCoherentWrite' <=> RequestCoherentWrite
      /\ RequestPrivateFill => ~RequestCoherentWrite /\ req.op # "SC"
      /\ MatchingWays(req.line)' = MatchingWays(req.line)
      /\ ReqEntry' = dir[SetOf[req.line]][entry']
  BY <1>1 DEF RequestPrivateFill, RequestCoherentWrite, OpWrites,
              MatchingWays, ReqEntry
<1>3. /\ req.line \in Lines /\ req.hart \in Harts
      /\ SetOf[req.line] \in Sets /\ DirectoryTypeOK
  BY GeometryAssumption DEF TypeOK, HomeTypeOK, Commands
<1>4. ASSUME state' \notin ProbeWaitStates,
             FillRecorded', Replacing', Revoking', WriteExclusive'
      PROVE  DirectoryInv'
  BY <1>1, <1>4, QuietDirectory DEF ProbeWaitStates
<1> USE DEF ProbeWaitStates, WriteExclusive, WriteInService
<1>5. CASE LookupScFail
  <2>1. state' = "RESP" /\ req.op = "SC"
    BY <1>5 DEF LookupScFail, LookupDone, ScFails
  <2> QED BY <1>2, <1>4, <2>1 DEF FillRecorded, Replacing, Revoking
<1>6. CASE LookupFillHit
  <2>1. state' = "L2_REQ" /\ RequestPrivateFill
        /\ entry' = LookupWay(req.line) /\ LookupHit(req.line)
    BY <1>6 DEF LookupFillHit, LookupDone
  <2>2. entry' \in MatchingWays(req.line)
    BY <1>3, <2>1, LookupWays
  <2> QED BY <1>2, <1>4, <2>1, <2>2 DEF FillRecorded, Replacing, Revoking
<1>7. CASE LookupFillEvict \/ LookupFillAllocate
  <2>1. /\ RequestPrivateFill /\ ~LookupHit(req.line)
        /\ entry' = FillVictimWay
        /\ state' \in {"EVICT_PROBE_START", "DIR_ALLOCATE"}
    BY <1>7 DEF LookupFillEvict, LookupFillAllocate, LookupDone
  <2>2. /\ MatchingWays(req.line) = {} /\ ReqEntry' = FillVictim
        /\ FillVictimWay \in Ways /\ FillVictim \in Entries
    BY <1>2, <1>3, <2>1, LookupWays
       DEF LookupHit, FillVictim, FillVictimWay, DirectoryTypeOK
  <2>3. FillRecorded' /\ Revoking' /\ WriteExclusive'
    BY <2>1 DEF FillRecorded, Revoking
  <2>4. Replacing'
    <3>1. CASE LookupFillEvict
      <4>1. state' = "EVICT_PROBE_START" /\ VictimSharers # {}
            /\ probe' = [targets |-> VictimSharers,
                         mask |-> {c \in {"I", "D"} :
                                      \/ c = "I" /\ FillVictim.i # {}
                                      \/ c = "D" /\ FillVictim.d # {}},
                         line |-> FillVictim.line]
        BY <3>1 DEF LookupFillEvict, LookupDone
      <4>2. FillVictim.valid /\ FillVictim.d \subseteq VictimSharers
        BY <4>1 DEF VictimSharers
      <4>3. probe'.targets = VictimSharers /\ probe'.line = FillVictim.line
        BY <4>1
      <4>4. "D" \notin probe'.mask => FillVictim.d = {}
        BY <4>1
      <4> QED BY <1>2, <2>1, <2>2, <4>1, <4>2, <4>3, <4>4 DEF Replacing
    <3>2. CASE LookupFillAllocate
      <4>1. state' = "DIR_ALLOCATE" /\ VictimSharers = {}
        BY <3>2 DEF LookupFillAllocate, LookupDone
      <4>2. ASSUME FillVictim.valid PROVE NobodyHolds(FillVictim.line)
        <5>1. FillVictim.d = {} /\ FillVictim.line \in Lines
          BY <2>2, <4>1, <4>2 DEF VictimSharers, Entries
        <5>2. SetOf[FillVictim.line] = SetOf[req.line]
          BY <1>3, <2>2, <4>2 DEF DirUnique, FillVictim
        <5>3. FillVictimWay \in MatchingWays(FillVictim.line)
          BY <2>2, <4>2, <5>2 DEF MatchingWays, FillVictim
        <5> QED BY <5>1, <5>2, <5>3, EntryNamesHolders
                DEF NobodyHolds, FillVictim
      <4>3. NobodyHolds(FillVictim.line) => NobodyHolds(ReqEntry.line)'
        <5>1. FillVictim.line \in Lines
          BY <2>2 DEF Entries
        <5> QED BY <1>1, <2>2, <5>1 DEF NobodyHolds, SameHolders
      <4> QED BY <1>2, <2>1, <2>2, <4>1, <4>2, <4>3 DEF Replacing
    <3> QED BY <1>7, <3>1, <3>2
  <2> QED BY <1>4, <2>1, <2>3, <2>4
<1>8. ASSUME LookupHit(req.line)
      PROVE  /\ LookupWay(req.line) \in MatchingWays(req.line)
             /\ \A h \in Harts : HoldsD(h, req.line) =>
                   h \in dir[SetOf[req.line]][LookupWay(req.line)].d
  BY <1>3, <1>8, LookupWays, EntryNamesHolders
<1>9. CASE LookupWriteProbe
  <2>1. /\ state' = "WRITE_PROBE_START" /\ RequestCoherentWrite
        /\ entry' = LookupWay(req.line) /\ LookupHit(req.line)
        /\ probe' = [targets |-> WriteProbeTargets, mask |-> {"D"},
                     line |-> req.line]
    BY <1>9 DEF LookupWriteProbe, LookupDone, WriteProbeTargets
  <2>2. probe'.targets = ReqEntry'.d \ {req.hart}
    BY <1>2, <2>1 DEF WriteProbeTargets
  <2>3. Revoking'
    BY <1>1, <1>2, <1>8, <2>1, <2>2 DEF Revoking
  <2> QED BY <1>2, <1>4, <2>1, <2>3 DEF FillRecorded, Replacing
<1>10. ASSUME RequestCoherentWrite => WriteProbeTargets = {},
              RequestCoherentWrite
       PROVE  \A h \in Harts : HoldsD(h, req.line)' =>
                 h = req.hart /\ LookupHit(req.line)
  <2> SUFFICES ASSUME NEW h \in Harts, HoldsD(h, req.line)'
               PROVE  h = req.hart /\ LookupHit(req.line)
    OBVIOUS
  <2>1. HoldsD(h, req.line)
    BY <1>1, <1>3 DEF SameHolders
  <2>2. LookupHit(req.line)
    BY <1>3, <2>1, MissMeansNoHolder DEF NobodyHolds, LookupHit
  <2> QED BY <1>8, <1>10, <2>1, <2>2 DEF WriteProbeTargets
<1>11. CASE LookupScClear
  <2>1. /\ state' = "DIR_CLEAR" /\ req.op = "SC" /\ LookupHit(req.line)
        /\ entry' = LookupWay(req.line)
        /\ probe'.targets = {}
        /\ RequestCoherentWrite => WriteProbeTargets = {}
    BY <1>11 DEF LookupScClear, LookupDone, TypeOK, HomeTypeOK
  <2>2. RequestCoherentWrite /\ ~HoldsD(req.hart, req.line)
    BY <1>1, <2>1, ScRequesterGone
  <2>3. ~HoldsD(req.hart, req.line)'
    BY <1>1, <1>3, <2>2 DEF SameHolders
  <2>4. \A h \in Harts : ~HoldsD(h, req.line)'
    BY <1>1, <1>10, <2>1, <2>2, <2>3
  <2>5. Revoking'
    BY <1>1, <1>2, <1>8, <2>1, <2>2, <2>4 DEF Revoking, NobodyHolds
  <2> QED BY <1>2, <1>4, <2>1, <2>5 DEF FillRecorded, Replacing
<1>12. CASE LookupBypass
  <2>1. /\ state' = "L2_REQ" /\ ~RequestPrivateFill
        /\ RequestCoherentWrite => WriteProbeTargets = {}
        /\ ~(req.op = "SC" /\ LookupHit(req.line))
    BY <1>12 DEF LookupBypass, LookupDone
  <2>2. RequestCoherentWrite => req.op \in {"WRITE", "SC"}
    BY DEF RequestCoherentWrite, OpWrites
  <2>3. WriteExclusive'
    BY <1>1, <1>2, <1>10, <2>1, <2>2
  <2> QED BY <1>2, <1>4, <2>1, <2>3 DEF FillRecorded, Replacing, Revoking
<1> QED
  BY <1>5, <1>6, <1>7, <1>9, <1>11, <1>12 DEF Lookup

\* The probe starts with every target still to be asked ...
LEMMA ProbeStartDirectory ==
    ASSUME TypeOK, DirectoryInv, ProbeStart
    PROVE  DirectoryInv'
<1> USE SameDirectory DEF DirectoryInv
<1>1. /\ UNCHANGED <<dir, endpoint, req, resp, entry, probe>> /\ SameHolders
  BY DEF ProbeStart, directoryVars, privateVars, SameHolders, HoldsD
<1>2. /\ state \in {"EVICT_PROBE_START", "WRITE_PROBE_START"}
      /\ state' = IF state = "EVICT_PROBE_START" THEN "EVICT_PROBE_WAIT"
                                                 ELSE "WRITE_PROBE_WAIT"
      /\ tracker' = [busy |-> TRUE, done |-> FALSE, issue |-> probe.targets,
                     ack |-> {}, id |-> next_probe_id, mask |-> probe.mask,
                     line |-> probe.line]
  BY DEF ProbeStart, TrackerStart
<1>3. ReqEntry' = ReqEntry /\ (RequestPrivateFill' <=> RequestPrivateFill)
      /\ (RequestCoherentWrite' <=> RequestCoherentWrite)
  BY <1>1 DEF ReqEntry, RequestPrivateFill, RequestCoherentWrite
<1>4. DirUnique' /\ CopiesTracked'
  BY <1>1 DEF DirUnique, CopiesTracked, SameHolders
<1>5. FillRecorded' /\ WriteExclusive'
  BY <1>2 DEF FillRecorded, WriteExclusive, WriteInService
<1>6. Replacing' /\ Revoking'
  BY <1>1, <1>2, <1>3 DEF Replacing, Revoking
<1>7. \A h \in Harts : EndpointReady(h)'
  BY <1>1, <1>2 DEF ProbeIdle, ProbeWaitStates, EndpointReady
<1>8. Probing' /\ ProbeIdle'
  BY <1>1, <1>2, <1>7 DEF Probing, ProbeIdle, ProbeWaitStates
<1> QED
  BY <1>4, <1>5, <1>6, <1>8

\* ... and ends when none of them can hold the line.
LEMMA ProbeDoneDirectory ==
    ASSUME TypeOK, RequesterInv, DirectoryInv, ProbeDone
    PROVE  DirectoryInv'
<1> USE SameDirectory DEF DirectoryInv
<1>1. /\ UNCHANGED <<dir, endpoint, req, resp, entry, probe>> /\ SameHolders
  BY DEF ProbeDone, directoryVars, privateVars, SameHolders, HoldsD
<1>2. /\ state \in ProbeWaitStates /\ tracker.done
      /\ state' = IF state = "EVICT_PROBE_WAIT" THEN "DIR_ALLOCATE"
                                                ELSE "DIR_CLEAR"
      /\ ~tracker'.done /\ tracker'.busy = tracker.busy
  BY DEF ProbeDone, TrackerDone, ProbeWaitStates, TypeOK, ProbeTypeOK,
         TrackerRegisters
<1>3. /\ ReqEntry' = ReqEntry
      /\ RequestPrivateFill' <=> RequestPrivateFill
      /\ RequestCoherentWrite' <=> RequestCoherentWrite
  BY <1>1 DEF ReqEntry, RequestPrivateFill, RequestCoherentWrite
<1>4. /\ ~tracker.busy /\ tracker.issue = {} /\ tracker.ack = {}
      /\ \A h \in Harts : EndpointReady(h)
      /\ "D" \in probe.mask =>
            \A h \in probe.targets : ~HoldsD(h, probe.line)
  BY <1>2 DEF Probing
<1>5. /\ req.line \in Lines /\ req.hart \in Harts /\ entry \in Ways
      /\ SetOf[req.line] \in Sets /\ ReqEntry \in Entries
  BY GeometryAssumption DEF ReqEntry, TypeOK, HomeTypeOK, Commands,
                            DirectoryTypeOK
<1>6. DirUnique' /\ CopiesTracked'
  BY <1>1 DEF DirUnique, CopiesTracked, SameHolders
<1>7. FillRecorded' /\ WriteExclusive'
  BY <1>2 DEF FillRecorded, WriteExclusive, WriteInService
<1>8. Probing' /\ ProbeIdle'
  BY <1>1, <1>2, <1>4 DEF Probing, ProbeIdle, ProbeWaitStates, EndpointReady
<1>9. Replacing'
  <2>1. CASE state = "EVICT_PROBE_WAIT"
    <3>1. /\ ReqEntry.valid /\ probe.line = ReqEntry.line
          /\ ReqEntry.d \subseteq probe.targets
          /\ "D" \notin probe.mask => ReqEntry.d = {}
      BY <2>1 DEF Replacing
    <3>2. ReqEntry.line \in Lines /\ SetOf[ReqEntry.line] = SetOf[req.line]
      BY <1>5, <3>1 DEF Entries, DirUnique, ReqEntry
    <3>3. entry \in MatchingWays(ReqEntry.line)
      BY <1>5, <3>1, <3>2 DEF MatchingWays, ReqEntry
    <3>4. \A h \in Harts : HoldsD(h, ReqEntry.line) => h \in ReqEntry.d
      BY <3>2, <3>3, EntryNamesHolders DEF ReqEntry
    <3>5. \A h \in Harts : ~HoldsD(h, ReqEntry.line)
      BY <1>4, <3>1, <3>4
    <3>6. NobodyHolds(ReqEntry.line)'
      BY <1>1, <1>3, <3>2, <3>5 DEF NobodyHolds, SameHolders
    <3> QED BY <1>1, <1>2, <1>3, <2>1, <3>6 DEF Replacing
  <2>2. CASE state # "EVICT_PROBE_WAIT"
    BY <1>2, <2>2 DEF Replacing
  <2> QED BY <2>1, <2>2
<1>10. Revoking'
  <2>1. CASE state = "WRITE_PROBE_WAIT"
    <3>1. /\ RequestCoherentWrite /\ entry \in MatchingWays(req.line)
          /\ probe.line = req.line /\ "D" \in probe.mask
          /\ probe.targets = ReqEntry.d \ {req.hart}
      BY <2>1 DEF Revoking
    <3>2. \A h \in Harts : HoldsD(h, req.line) => h \in ReqEntry.d
      BY <1>5, <3>1, EntryNamesHolders DEF ReqEntry
    <3>3. \A h \in Harts : HoldsD(h, req.line) => h = req.hart
      BY <1>4, <3>1, <3>2
    <3>4. req.op = "SC" => ~HoldsD(req.hart, req.line)
      BY <2>1, ScRequesterGone
    <3>5. \A h \in Harts : HoldsD(h, req.line)' <=> HoldsD(h, req.line)
      BY <1>1, <1>5 DEF SameHolders
    <3> QED BY <1>1, <1>2, <1>3, <2>1, <3>1, <3>3, <3>4, <3>5
            DEF Revoking, NobodyHolds
  <2>2. CASE state # "WRITE_PROBE_WAIT"
    BY <1>2, <2>2 DEF Revoking, ProbeWaitStates
  <2> QED BY <2>1, <2>2
<1> QED
  BY <1>6, <1>7, <1>8, <1>9, <1>10

\* The directory writes.
LEMMA WriteDirectory ==
    ASSUME TypeOK, DirectoryInv, DirAllocate \/ DirClear \/ DirRecord
    PROVE  DirectoryInv'
<1> USE DEF DirectoryInv
<1> DEFINE s == SetOf[req.line]
<1>1. /\ UNCHANGED <<tracker, endpoint, req, resp, entry, probe>> /\ SameHolders
      /\ state \in {"DIR_ALLOCATE", "DIR_CLEAR", "DIR_RECORD"}
      /\ state' \in {"L2_REQ", "RESP"}
  BY DEF DirAllocate, DirClear, DirRecord, DirectoryStep, probeVars,
         privateVars, SameHolders, HoldsD
<1>2. /\ req.line \in Lines /\ req.hart \in Harts /\ entry \in Ways
      /\ s \in Sets /\ ReqEntry \in Entries /\ DirectoryTypeOK
      /\ probe.targets \in SUBSET Harts
  BY GeometryAssumption DEF ReqEntry, TypeOK, HomeTypeOK, Commands,
                            DirectoryTypeOK
<1>3. /\ RequestPrivateFill' <=> RequestPrivateFill
      /\ RequestCoherentWrite' <=> RequestCoherentWrite
      /\ RequestPrivateFill => ~RequestCoherentWrite
  BY <1>1 DEF RequestPrivateFill, RequestCoherentWrite, OpWrites
<1>4. Probing' /\ ProbeIdle' /\ Replacing' /\ Revoking'
  BY <1>1 DEF Probing, ProbeIdle, Replacing, Revoking, ProbeWaitStates,
              EndpointReady
<1> DEFINE Kept(addD, clearD) ==
             /\ DirUnique'
             /\ \A l \in Lines : MatchingWays(l)' = MatchingWays(l)
             /\ \A l \in Lines : \A w \in Ways :
                   ~(SetOf[l] = s /\ w = entry)
                      => dir'[SetOf[l]][w].d = dir[SetOf[l]][w].d
             /\ dir'[s][entry].d = (dir[s][entry].d \cup addD) \ clearD
<1>5. ASSUME NEW addD \in SUBSET Harts, NEW clearD \in SUBSET Harts,
             SharersMerged(req.line, entry, addD, clearD)
      PROVE  Kept(addD, clearD)
  <2>1. \A t \in Sets : \A x \in Ways :
           /\ dir'[t][x].valid = dir[t][x].valid
           /\ dir'[t][x].line = dir[t][x].line
           /\ (t = s /\ x = entry) =>
                 dir'[t][x].d = (dir[t][x].d \cup addD) \ clearD
           /\ ~(t = s /\ x = entry) => dir'[t][x].d = dir[t][x].d
    BY <1>5 DEF SharersMerged
  <2>2. \A l \in Lines : SetOf[l] \in Sets
    BY GeometryAssumption
  <2>3. DirUnique'
    BY <2>1 DEF DirUnique
  <2>4. \A l \in Lines : MatchingWays(l)' = MatchingWays(l)
    BY <2>1, <2>2 DEF MatchingWays
  <2> QED BY <1>2, <2>1, <2>2, <2>3, <2>4
<1>6. CASE DirRecord
  <2> DEFINE addI == IF req.source = "ICACHE" THEN {req.hart} ELSE {}
             addD == IF req.source = "DCACHE" THEN {req.hart} ELSE {}
  <2>1. DirectoryMerge(req.line, entry, addI, addD, {})
        /\ state = "DIR_RECORD" /\ state' = "RESP"
        /\ addI \in SUBSET Harts /\ addD \in SUBSET Harts
    BY <1>2, <1>6 DEF DirRecord, DirectoryStep
  <2>2. /\ DirUnique'
        /\ \A l \in Lines : MatchingWays(l)' = MatchingWays(l)
        /\ \A l \in Lines : \A w \in Ways : ~(SetOf[l] = s /\ w = entry)
              => dir'[SetOf[l]][w].d = dir[SetOf[l]][w].d
        /\ dir'[s][entry].d = (dir[s][entry].d \cup addD) \ {}
    <3> HIDE DEF addI, addD, Kept
    <3>1. SharersMerged(req.line, entry, addD, {})
      BY <1>2, <2>1, MergeWrite
    <3>2. Kept(addD, {})
      BY <1>5, <2>1, <3>1
    <3> QED BY <3>2 DEF Kept
  <2>3. \A l \in Lines : \A w \in Ways :
           dir[SetOf[l]][w].d \subseteq dir'[SetOf[l]][w].d
    BY <2>2
  <2>4. CopiesTracked'
    <3> SUFFICES ASSUME NEW g \in Harts, NEW l \in Lines, HoldsD(g, l)
                 PROVE  RecordedD(g, l)'
      BY <1>1 DEF CopiesTracked, SameHolders
    <3>1. PICK w \in MatchingWays(l) : g \in dir[SetOf[l]][w].d
      BY DEF CopiesTracked, RecordedD
    <3>2. w \in Ways
      BY DEF MatchingWays
    <3> QED BY <2>2, <2>3, <3>1, <3>2 DEF RecordedD
  <2>5. FillRecorded'
    <3>1. RequestPrivateFill => entry \in MatchingWays(req.line)
      BY <2>1 DEF FillRecorded
    <3> QED BY <1>1, <1>2, <1>3, <2>1, <2>2, <3>1 DEF FillRecorded, RecordedD
  <2>6. WriteExclusive'
    BY <2>1 DEF WriteExclusive, WriteInService
  <2> QED BY <1>4, <2>2, <2>4, <2>5, <2>6
<1>7. CASE DirClear
  <2> DEFINE clearD == IF req.op = "SC" THEN Harts ELSE probe.targets
  <2>1. DirectoryMerge(req.line, entry, {}, {}, clearD)
        /\ state = "DIR_CLEAR" /\ state' = "L2_REQ" /\ clearD \in SUBSET Harts
    BY <1>2, <1>7 DEF DirClear, DirectoryStep
  <2>2. /\ RequestCoherentWrite /\ entry \in MatchingWays(req.line)
        /\ req.hart \notin probe.targets
        /\ \A h \in Harts : HoldsD(h, req.line) => h = req.hart
        /\ req.op = "SC" => \A h \in Harts : ~HoldsD(h, req.line)
    BY <2>1 DEF Revoking, NobodyHolds
  <2>3. \A h \in clearD : ~HoldsD(h, req.line)
    BY <1>2, <2>2
  <2> HIDE DEF clearD
  <2>4. /\ DirUnique'
        /\ \A l \in Lines : MatchingWays(l)' = MatchingWays(l)
        /\ \A l \in Lines : \A w \in Ways : ~(SetOf[l] = s /\ w = entry)
              => dir'[SetOf[l]][w].d = dir[SetOf[l]][w].d
        /\ dir'[s][entry].d = (dir[s][entry].d \cup {}) \ clearD
    <3> HIDE DEF Kept
    <3>1. SharersMerged(req.line, entry, {}, clearD)
      BY <1>2, <2>1, MergeWrite
    <3>2. Kept({}, clearD)
      BY <1>5, <2>1, <3>1
    <3> QED BY <3>2 DEF Kept
  <2>5. CopiesTracked'
    <3> SUFFICES ASSUME NEW g \in Harts, NEW l \in Lines, HoldsD(g, l)
                 PROVE  RecordedD(g, l)'
      BY <1>1 DEF CopiesTracked, SameHolders
    <3>1. PICK w \in MatchingWays(l) : g \in dir[SetOf[l]][w].d
      BY DEF CopiesTracked, RecordedD
    <3>2. w \in Ways
      BY DEF MatchingWays
    <3>3. CASE SetOf[l] = s /\ w = entry
      <4>1. l = req.line
        BY <2>2, <3>1, <3>3 DEF MatchingWays
      <4> QED BY <2>3, <2>4, <3>1, <3>3, <4>1 DEF RecordedD
    <3>4. CASE ~(SetOf[l] = s /\ w = entry)
      BY <2>4, <3>1, <3>2, <3>4 DEF RecordedD
    <3> QED BY <3>3, <3>4
  <2>6. FillRecorded'
    BY <1>3, <2>1, <2>2 DEF FillRecorded
  <2>7. WriteExclusive'
    <3>1. \A h \in Harts : HoldsD(h, req.line)' <=> HoldsD(h, req.line)
      BY <1>1, <1>2 DEF SameHolders
    <3>2. req.op \in {"WRITE", "SC"}
      BY <2>2 DEF RequestCoherentWrite, OpWrites
    <3> QED BY <1>1, <2>2, <3>1, <3>2 DEF WriteExclusive
  <2> QED BY <1>4, <2>4, <2>5, <2>6, <2>7
<1>8. CASE DirAllocate
  <2>1. DirectoryAllocate(req.line, entry)
        /\ state = "DIR_ALLOCATE" /\ state' = "L2_REQ"
    BY <1>8 DEF DirAllocate, DirectoryStep
  <2>2. /\ RequestPrivateFill /\ MatchingWays(req.line) = {}
        /\ ReqEntry.valid => NobodyHolds(ReqEntry.line)
    BY <2>1 DEF Replacing
  <2>3. \A t \in Sets : \A x \in Ways :
           dir'[t][x] = IF t = s /\ x = entry
                        THEN [valid |-> TRUE, line |-> req.line,
                              i |-> {}, d |-> {}]
                        ELSE dir[t][x]
    BY <1>2, <2>1, AllocateWrite
  <2>4. DirUnique'
    <3>1. \A x \in Ways : ~(dir[s][x].valid /\ dir[s][x].line = req.line)
      BY <2>2 DEF MatchingWays
    <3> QED BY <1>2, <2>3, <3>1 DEF DirUnique
  <2>5. CopiesTracked'
    <3> SUFFICES ASSUME NEW g \in Harts, NEW l \in Lines, HoldsD(g, l)
                 PROVE  RecordedD(g, l)'
      BY <1>1 DEF CopiesTracked, SameHolders
    <3>1. PICK w \in MatchingWays(l) : g \in dir[SetOf[l]][w].d
      BY DEF CopiesTracked, RecordedD
    <3>2. w \in Ways /\ dir[SetOf[l]][w].valid /\ dir[SetOf[l]][w].line = l
          /\ SetOf[l] \in Sets
      BY <3>1, GeometryAssumption DEF MatchingWays
    <3>3. ~(SetOf[l] = s /\ w = entry)
      BY <2>2, <3>2 DEF ReqEntry, NobodyHolds
    <3>4. dir'[SetOf[l]][w] = dir[SetOf[l]][w]
      BY <2>3, <3>2, <3>3
    <3> QED BY <3>1, <3>2, <3>4 DEF RecordedD, MatchingWays
  <2>6. FillRecorded'
    <3>1. entry \in MatchingWays(req.line)'
      BY <1>1, <1>2, <2>3 DEF MatchingWays
    <3> QED BY <1>1, <2>1, <3>1 DEF FillRecorded
  <2>7. WriteExclusive'
    BY <1>3, <2>2 DEF WriteExclusive, WriteInService
  <2> QED BY <1>4, <2>4, <2>5, <2>6, <2>7
<1> QED
  BY <1>6, <1>7, <1>8

\* Every step keeps the directory's part of the invariant.
LEMMA NextDirectory ==
    TypeOK /\ RequesterInv /\ DirectoryInv /\ [Next]_vars => DirectoryInv'
<1> SUFFICES ASSUME TypeOK, RequesterInv, DirectoryInv, [Next]_vars
             PROVE  DirectoryInv'
  OBVIOUS
<1>1. CASE HomeStep
  BY <1>1, AccessDirectory, LookupDirectory, ProbeStartDirectory,
     ProbeDoneDirectory, WriteDirectory, RespondDirectory DEF HomeStep
<1>2. CASE RejectBurst \/ UNCHANGED vars
  <2>1. UNCHANGED <<state, req, resp, entry, probe, dir, tracker, endpoint>>
        /\ UNCHANGED <<dcache, mshr>>
    BY <1>2 DEF RejectBurst, vars, directoryVars, probeVars, privateVars,
                homeVars
  <2>2. \A g \in Harts, x \in Lines : HoldsD(g, x)' => HoldsD(g, x)
    BY <2>1 DEF HoldsD
  <2> QED BY <2>1, <2>2, PrivateDirectory
<1>3. ASSUME NEW h \in Harts, L1IStep(h)
      PROVE  DirectoryInv'
  <2>1. UNCHANGED <<state, req, resp, entry, probe, dir, tracker, endpoint>>
        /\ UNCHANGED <<dcache, mshr>>
    BY <1>3 DEF L1IStep, L1IAccess, FetchMiss, FenceI, directoryVars, probeVars, homeVars
  <2>2. \A g \in Harts, x \in Lines : HoldsD(g, x)' => HoldsD(g, x)
    BY <2>1 DEF HoldsD
  <2> QED BY <2>1, <2>2, PrivateDirectory
<1>4. ASSUME NEW h \in Harts, L1DStep(h)
      PROVE  DirectoryInv'
  <2>1. UNCHANGED <<state, req, resp, entry, probe, dir, tracker, endpoint>>
    BY <1>4 DEF L1DStep, L1DAccess, directoryVars, probeVars, homeVars
  <2>2. \A g \in Harts, x \in Lines : HoldsD(g, x)' => HoldsD(g, x)
    BY <1>4, L1DHolders DEF Drops
  <2> QED BY <2>1, <2>2, PrivateDirectory
<1> QED
  BY <1>1, <1>2, <1>3, <1>4, AcceptDirectory, ProbeDirectory DEF Next

\* The inductive invariant of the home holds in every reachable state: the
\* directory tracks every D-cache copy, the command in service is the one its
\* requester waits for, and a probe in flight accounts for every target that
\* may still hold the line (coherent_protocol.v:457-740).
THEOREM HomeInvariant == Spec => []HomeInv
<1>1. Init => TypeOK /\ HomeInv
  BY InitType, InitRequester, InitDirectory DEF HomeInv
<1>2. TypeOK /\ HomeInv /\ [Next]_vars => (TypeOK /\ HomeInv)'
  BY NextType, NextRequester, NextDirectory DEF HomeInv, RequesterInv
<1> QED
  BY <1>1, <1>2, PTL DEF Spec

\* Every D-cache copy is recorded in the directory: an entry is never reused
\* or cleared before its last ACK, and a fill is recorded before it is
\* answered (coherent_protocol.v:640-735).
THEOREM Tracking == Spec => []CopiesTracked
<1>1. HomeInv => CopiesTracked
  BY DEF HomeInv, DirectoryInv
<1> QED
  BY <1>1, HomeInvariant, PTL

\* A cacheable write reaches the L2 only when no other D-cache holds its line
\* (coherent_protocol.v:600-672).
THEOREM Exclusive == Spec => []WriteExclusive
<1>1. HomeInv => WriteExclusive
  BY DEF HomeInv, DirectoryInv
<1> QED
  BY <1>1, HomeInvariant, PTL

-----------------------------------------------------------------------------
(* Protocol errors.                                                          *)

\* A legal requester's command carries no error.
LegalCommands == ~Malformed => req.err = "none"

\* No step reports an error a legal requester did not cause.
LEMMA NextErrors ==
    TypeOK /\ HomeInv /\ LegalCommands /\ NoProtocolError /\ [Next]_vars
        => LegalCommands' /\ NoProtocolError'
<1> SUFFICES ASSUME TypeOK, HomeInv, LegalCommands, NoProtocolError,
                    [Next]_vars
             PROVE  LegalCommands' /\ NoProtocolError'
  OBVIOUS
<1> USE DEF LegalCommands, NoProtocolError
<1>1. CASE HomeStep
  <2>1. CASE WaitWdata
    <3>1. UNCHANGED <<req, probe_error>>
      BY <2>1 DEF WaitWdata, probeVars
    <3>2. req.err = "none" => UNCHANGED protocol_error
      BY <2>1, Zenon DEF WaitWdata
    <3> QED BY <3>1, <3>2
  <2>2. CASE ~WaitWdata
    <3>1. UNCHANGED <<req, protocol_error, probe_error>>
      BY <1>1, <2>2 DEF HomeStep, DirLookup, Lookup, LookupScFail,
          LookupFillHit, LookupFillEvict, LookupFillAllocate,
          LookupWriteProbe, LookupScClear, LookupBypass, LookupDone,
          ProbeStart, ProbeDone, DirAllocate, DirClear, DirRecord,
          DirectoryStep, L2Request, L2Wdata, L2Response, Respond, probeVars
    <3> QED BY <3>1
  <2> QED BY <2>1, <2>2
<1>2. CASE RejectBurst \/ UNCHANGED vars
  BY <1>2 DEF RejectBurst, vars, probeVars, homeVars
<1>3. ASSUME NEW h \in Harts, L1IStep(h) \/ L1DStep(h) \/ InvalidateL1D(h)
      PROVE  LegalCommands' /\ NoProtocolError'
  BY <1>3 DEF L1IStep, L1IAccess, L1DStep, L1DAccess, InvalidateL1D, probeVars, homeVars
<1>4. ASSUME NEW h \in Harts, ProbeStep(h)
      PROVE  LegalCommands' /\ NoProtocolError'
  <2>1. UNCHANGED <<req, protocol_error>>
    BY <1>4 DEF ProbeStep, homeVars
  <2>2. endpoint[h].response => AckAccepted(h)
    BY DEF HomeInv, DirectoryInv, Probing, ProbeIdle, AckAccepted,
           EndpointReady
  <2>3. "tracker" \notin probe_error'
    BY <1>4, <2>2 DEF ProbeStep, ProbeIssue, ProbeTimeout, ProbeAck
  <2> QED BY <2>1, <2>3
<1>5. ASSUME NEW c, Capture(c), ~Malformed => c.err = "none"
      PROVE  LegalCommands' /\ NoProtocolError'
  BY <1>5 DEF Capture, probeVars
<1>6. ASSUME NEW h \in Harts, Accept(h)
      PROVE  LegalCommands' /\ NoProtocolError'
  <2>1. ASSUME NEW source, NEW op, NEW l, NEW v,
               Capture(Command(h, source, op, l, v))
        PROVE  LegalCommands' /\ NoProtocolError'
    <3>1. Command(h, source, op, l, v).err = "none"
      BY DEF Command
    <3> QED BY <1>5, <2>1, <3>1
  <2>2. ASSUME NEW op, NEW l, NEW err, AcceptMalformed(h, op, l, err)
        PROVE  LegalCommands' /\ NoProtocolError'
    BY <1>5, <2>2 DEF AcceptMalformed
  <2>3. CASE AcceptStore(h)
    BY <2>1, <2>3 DEF AcceptStore
  <2>4. CASE AcceptFill(h)
    BY <2>1, <2>4 DEF AcceptFill
  <2>5. CASE AcceptLR(h) \/ AcceptSC(h) \/ AcceptFence(h)
    BY <2>1, <2>5 DEF AcceptLR, AcceptSC, AcceptFence, AcceptMarked
  <2>6. CASE AcceptFetch(h)
    BY <2>1, <2>6 DEF AcceptFetch
  <2>7. ASSUME NEW op, NEW l, NEW v, AcceptPtw(h, op, l) \/ AcceptDevice(h, op, l, v)
        PROVE  LegalCommands' /\ NoProtocolError'
    BY <2>1, <2>7 DEF AcceptPtw, AcceptDevice
  <2> QED BY <1>6, <2>2, <2>3, <2>4, <2>5, <2>6, <2>7 DEF Accept
<1> QED
  BY <1>1, <1>2, <1>3, <1>4, <1>6 DEF Next

\* The tracker never sees an ACK it does not wait for, and a legal requester
\* never raises the home's sticky error (probe_tracker.v:115-172,
\* coherent_protocol.v:497-545).
THEOREM ErrorFree == Spec => []NoProtocolError
<1>1. Init => LegalCommands /\ NoProtocolError
  BY DEF Init, ProbeInit, HomeInit, LegalCommands, NoProtocolError
<1>2. TypeOK /\ HomeInv /\ LegalCommands /\ NoProtocolError /\ [Next]_vars
        => LegalCommands' /\ NoProtocolError'
  BY NextErrors
<1> QED
  BY <1>1, <1>2, TypeCorrect, HomeInvariant, PTL DEF Spec

-----------------------------------------------------------------------------
(* The refinement: the home implements CoherentMemory.  The mapping reads    *)
(* the L2 as the memory and the D-caches, with their completed misses, as    *)
(* the holders.                                                              *)

\* A step that neither writes the L2 nor moves a copy is a stutter.
LEMMA Stutters ==
    ASSUME SameHolders, UNCHANGED l2
    PROVE  UNCHANGED Contract!vars
<1>1. Holders' = Holders
  BY DEF SameHolders, Holders
<1> QED
  BY <1>1 DEF Contract!vars

\* A step that takes at most one copy away is a Drop or a stutter.
LEMMA DropsRefine ==
    ASSUME NEW h \in Harts, NEW l \in Lines \cup {NoLine}, Drops(h, l),
           UNCHANGED l2
    PROVE  [Contract!Next]_(Contract!vars)
<1>1. CASE l = NoLine
  <2>1. SameHolders
    BY <1>1, LinesAssumption DEF Drops, SameHolders
  <2> QED BY <2>1, Stutters
<1>2. CASE l \in Lines
  <2>1. Holders' = [x \in Lines |-> IF x = l THEN Holders[x] \ {h}
                                             ELSE Holders[x]]
    BY <1>2 DEF Drops, Holders
  <2>2. Holders' = [Holders EXCEPT ![l] = @ \ {h}]
    BY <1>2, <2>1 DEF Holders
  <2>3. Contract!Drop(h, l)
    BY <2>2 DEF Contract!Drop
  <2> QED BY <1>2, <2>3 DEF Contract!Next
<1> QED
  BY <1>1, <1>2

\* The response to a fill grants the requester a copy; any other response
\* moves none.
LEMMA RespondRefines ==
    ASSUME TypeOK, RequesterInv, Respond
    PROVE  [Contract!Next]_(Contract!vars)
<1>1. UNCHANGED l2 /\ req.line \in Lines /\ req.hart \in Harts
  BY DEF Respond, TypeOK, HomeTypeOK, Commands
<1>2. CASE SameHolders
  BY <1>1, <1>2, Stutters
<1>3. CASE \A g \in Harts, x \in Lines :
              HoldsD(g, x)' <=>
                 (HoldsD(g, x) \/ (g = req.hart /\ x = req.line))
  <2>1. Holders' = [x \in Lines |-> IF x = req.line
                                     THEN Holders[x] \cup {req.hart}
                                     ELSE Holders[x]]
    BY <1>1, <1>3 DEF Holders
  <2>2. Holders' = [Holders EXCEPT ![req.line] = @ \cup {req.hart}]
    BY <1>1, <2>1 DEF Holders
  <2>3. Contract!Grant(req.hart, req.line)
    BY <1>1, <2>2 DEF Contract!Grant
  <2> QED BY <1>1, <2>3 DEF Contract!Next
<1> QED
  BY <1>2, <1>3, RespondHolders

\* The L2 is written only while nobody but the writer holds the line: by
\* WriteExclusive for a cacheable write, and because nobody ever holds a
\* device line for the others.
LEMMA L2Refines ==
    ASSUME TypeOK, HomeInv, L2Response
    PROVE  [Contract!Next]_(Contract!vars)
<1>1. /\ req.line \in Lines /\ req.hart \in Harts /\ req.data \in Values
      /\ state = "L2_RESP" /\ SameHolders
  BY DEF L2Response, privateVars, SameHolders, HoldsD, TypeOK, HomeTypeOK,
         Commands
<1>2. CASE UNCHANGED l2
  BY <1>1, <1>2, Stutters
<1>3. CASE l2' # l2
  <2>1. OpWrites(req.op) /\ l2' = [l2 EXCEPT ![req.line] = req.data]
    BY <1>3 DEF L2Response, L2Access
  <2>2. \A h \in Harts : HoldsD(h, req.line) => h = req.hart
    <3>1. CASE req.cacheable
      BY <1>1, <2>1, <3>1 DEF HomeInv, DirectoryInv, WriteExclusive,
                              WriteInService, RequestCoherentWrite
    <3>2. CASE ~req.cacheable
      <4>1. req.line \in DeviceLines
        BY <1>1, <2>1, <3>2 DEF HomeInv, RequesterInv, DevicesUncached
      <4> QED BY <4>1 DEF HomeInv, RequesterInv, DevicesUncached, HoldsD
    <3> QED BY <3>1, <3>2 DEF TypeOK, HomeTypeOK, Commands
  <2>3. Holders[req.line] \subseteq {req.hart}
    BY <1>1, <2>2 DEF Holders
  <2>4. Holders' = Holders
    BY <1>1 DEF SameHolders, Holders
  <2>5. Contract!Write(req.hart, req.line, req.data)
    BY <2>1, <2>3, <2>4 DEF Contract!Write
  <2> QED BY <1>1, <2>5 DEF Contract!Next
<1> QED
  BY <1>2, <1>3

\* Accepting a command moves no copy.
LEMMA AcceptRefines ==
    ASSUME TypeOK, NEW h \in Harts, Accept(h)
    PROVE  SameHolders /\ UNCHANGED l2
<1>1. /\ UNCHANGED <<dcache, l2>>
      /\ \/ UNCHANGED mshr
         \/ /\ mshr[h].state = "need"
            /\ mshr' = [mshr EXCEPT ![h].state = "issued"]
  BY DEF Accept, AcceptStore, AcceptFill, AcceptLR, AcceptSC, AcceptMarked,
         AcceptFence, AcceptFetch, AcceptPtw, AcceptDevice, AcceptMalformed,
         Capture, privateVars
<1>2. mshr \in [Harts -> Mshrs]
  BY DEF TypeOK, PrivateTypeOK
<1>3. \A g \in Harts : (mshr'[g].state = "complete" <=>
                            mshr[g].state = "complete")
                       /\ mshr'[g].line = mshr[g].line
  BY <1>1, <1>2 DEF Mshrs
<1> QED
  BY <1>1, <1>3 DEF SameHolders, HoldsD

\* Every step of the home is a step of the contract or a stutter.
LEMMA NextRefines ==
    TypeOK /\ HomeInv /\ [Next]_vars => [Contract!Next]_(Contract!vars)
<1> SUFFICES ASSUME TypeOK, HomeInv, [Next]_vars
             PROVE  [Contract!Next]_(Contract!vars)
  OBVIOUS
<1>0. RequesterInv
  BY DEF HomeInv
<1>1. ASSUME UNCHANGED <<dcache, mshr, l2>>
      PROVE  [Contract!Next]_(Contract!vars)
  BY <1>1, Stutters DEF SameHolders, HoldsD
<1>2. CASE HomeStep /\ ~Respond /\ ~L2Response
  <2>1. UNCHANGED <<dcache, mshr, l2>>
    BY <1>2 DEF HomeStep, WaitWdata, DirLookup, Lookup, LookupScFail,
        LookupFillHit, LookupFillEvict, LookupFillAllocate, LookupWriteProbe,
        LookupScClear, LookupBypass, LookupDone, ProbeStart, ProbeDone,
        DirAllocate, DirClear, DirRecord, DirectoryStep, L2Request, L2Wdata,
        privateVars
  <2> QED BY <1>1, <2>1
<1>3. CASE RejectBurst \/ UNCHANGED vars
  BY <1>1, <1>3 DEF RejectBurst, vars, privateVars, homeVars
<1>4. ASSUME NEW h \in Harts, ProbeStep(h) \/ L1IStep(h)
      PROVE  [Contract!Next]_(Contract!vars)
  BY <1>1, <1>4 DEF ProbeStep, L1IStep, L1IAccess, FetchMiss, FenceI, privateVars,
                    homeVars
<1>5. ASSUME NEW h \in Harts, Accept(h)
      PROVE  [Contract!Next]_(Contract!vars)
  BY <1>5, AcceptRefines, Stutters
<1>6. ASSUME NEW h \in Harts, L1DStep(h)
      PROVE  [Contract!Next]_(Contract!vars)
  <2>1. UNCHANGED l2
    BY <1>6 DEF L1DStep, L1DAccess, homeVars
  <2> QED BY <1>6, <2>1, L1DHolders, DropsRefine
<1>7. ASSUME NEW h \in Harts, InvalidateL1D(h)
      PROVE  [Contract!Next]_(Contract!vars)
  <2>1. UNCHANGED l2
    BY <1>7 DEF InvalidateL1D, homeVars
  <2> QED BY <1>7, <2>1, SnoopHolders, DropsRefine
<1> QED
  BY <1>0, <1>2, <1>3, <1>4, <1>5, <1>6, <1>7, RespondRefines, L2Refines
     DEF Next, HomeStep

\* The home, its directory, the probe fabric and the private caches together
\* implement the single-writer memory (coherent_protocol.v:457-740): for
\* every number of harts and lines, every geometry and every mix of commands.
THEOREM Implements == Spec => ImplementsContract
<1>1. Init => Contract!Init
  <2> SUFFICES ASSUME Init PROVE Contract!Init
    OBVIOUS
  <2>1. \A h \in Harts, l \in Lines : ~HoldsD(h, l)
    BY DEF Init, PrivateInit, FreeMshr, HoldsD
  <2>2. Holders = [l \in Lines |-> {}]
    BY <2>1 DEF Holders
  <2> QED BY <2>2 DEF Init, HomeInit, Contract!Init
<1>2. TypeOK /\ HomeInv /\ [Next]_vars => [Contract!Next]_(Contract!vars)
  BY NextRefines
<1> QED
  BY <1>1, <1>2, TypeCorrect, HomeInvariant, PTL
     DEF Spec, ImplementsContract, Contract!Spec

-----------------------------------------------------------------------------
(* Values: the private copies have the value of the L2 or of the hart's own  *)
(* store, and an SC finds the value of its LR when it writes.                *)

\* A line whose accesses fail is never held and never reserved; nor is a
\* device line reserved.
BadUnheld(h) ==
    /\ \A l \in BadLines : ~HoldsD(h, l)
    /\ reservation[h] \notin BadLines \cup DeviceLines

\* The home granted the reservation of an LR and has not told its hart yet.
LrGranted(h) ==
    /\ state \in {"DIR_RECORD", "RESP"}
    /\ req.op = "LR" /\ req.hart = h /\ ~resp.error

LrPending(h) == marked[h].state = "lr_lookup" \/ LrGranted(h)

\* A reservation stands for an unchanged line: the value the LR returned is
\* what the L2 holds, or the LR will still return the value of that line.
Reserved(h) ==
    reservation[h] # NoLine =>
        IF LrPending(h) THEN marked[h].line = reservation[h]
        ELSE lr_value[h] = l2[reservation[h]]

HartValue(h) == CacheValue(h, l2) /\ BadUnheld(h) /\ Reserved(h)

\* A command of a cache is legal, only a D-cache writes or reserves, and no
\* malformed command reaches the directory.
LegalRequest ==
    state # "IDLE" =>
        /\ req.err = "none" <=> req.source # "LEGACY"
        /\ OpWrites(req.op) => req.source \in {"DCACHE", "LEGACY"}
        /\ req.op \in {"LR", "SC"} => req.source = "DCACHE"
        /\ state \notin {"WAIT_WDATA", "RESP"} => req.err = "none"

\* An LR in service has neither a store nor a miss beside it, and a fence in
\* service is the marked access of its hart.
MarkedServed ==
    state # "IDLE" =>
        /\ req.op = "LR" => stores[req.hart] = << >> /\ mshr[req.hart].state = "free"
        /\ req.op = "FENCE" /\ req.source = "DCACHE" => marked[req.hart].state = "fence"

\* What an answer to a D-cache says is still so.
AnswerCurrent ==
    state \in {"DIR_RECORD", "RESP"} /\ req.source = "DCACHE" =>
        /\ req.op = "WRITE" /\ req.cacheable /\ req.line \notin BadLines =>
              l2[req.line] = req.data
        /\ req.op = "READ" /\ req.cacheable =>
              /\ resp.error <=> req.line \in BadLines
              /\ resp.data = l2[req.line]

WriteStates ==
    {"WRITE_PROBE_START", "WRITE_PROBE_WAIT", "DIR_CLEAR", "L2_REQ", "L2_WDATA", "L2_RESP"}

\* A write past its lookup has revoked every reservation of its line, and an
\* SC was let past with its LR's value still in the L2.
WriteReserved ==
    state \in WriteStates /\ RequestCoherentWrite =>
        /\ \A h \in Harts : reservation[h] # req.line
        /\ req.op = "SC" => l2[req.line] = lr_value[req.hart]

ServiceValue == LegalRequest /\ MarkedServed /\ AnswerCurrent /\ WriteReserved

\* The inductive invariant, next to TypeOK and HomeInv.
ValueInv == (\A h \in Harts : HartValue(h)) /\ ServiceValue
------------------------------------------------------------------------------
(* Steps that do not touch what a hart holds. *)

\* The values of a hart over what the L2 holds after the step.
LEMMA CacheOver ==
    ASSUME NEW h, NEW v, v = l2', CacheValue(h, v)'
    PROVE  CacheValue(h, l2)'
  BY DEF CacheValue, CleanCopy, LrDrained, MissApart, MissCurrent, LrMissOwn

\* A hart whose structures, reservation and lines below are unchanged.
LEMMA HartFrame ==
    ASSUME NEW h, HartValue(h), HartSame(h), UNCHANGED l2,
           reservation'[h] = reservation[h], LrGranted(h)' <=> LrGranted(h)
    PROVE  HartValue(h)'
<1> PICK v : v = l2
  OBVIOUS
<1>1. CacheValue(h, l2)'
  BY CacheFrame, CacheOver DEF HartValue
<1>2. BadUnheld(h)' /\ Reserved(h)'
  BY DEF HartValue, HartSame, BadUnheld, HoldsD, Reserved, LrPending
<1> QED
  BY <1>1, <1>2 DEF HartValue

\* A step of the home on its way from one state to the next.
LEMMA HomeFrame ==
    ASSUME TypeOK, ValueInv,
           UNCHANGED <<privateVars, l2, reservation, req>>,
           UNCHANGED resp \/ req.source # "DCACHE",
           state # "IDLE", state' # "IDLE",
           \/ req.source # "DCACHE"
           \/ state' \in {"DIR_RECORD", "RESP"} <=> state \in {"DIR_RECORD", "RESP"},
           state' \in WriteStates /\ RequestCoherentWrite => state \in WriteStates,
           state' \notin {"WAIT_WDATA", "RESP"} => req.err = "none"
    PROVE  ValueInv'
<1>1. ASSUME NEW h \in Harts PROVE HartValue(h)'
  <2>1. LrGranted(h)' <=> LrGranted(h)
    BY DEF LrGranted, ValueInv, ServiceValue, LegalRequest
  <2>2. HartSame(h) /\ HartValue(h)
    BY DEF HartSame, privateVars, ValueInv
  <2> QED
    BY <2>1, <2>2, HartFrame
<1>2. LegalRequest' /\ MarkedServed' /\ AnswerCurrent'
  BY DEF ValueInv, ServiceValue, LegalRequest, MarkedServed, AnswerCurrent, privateVars
<1>3. WriteReserved'
  BY DEF ValueInv, ServiceValue, WriteReserved, RequestCoherentWrite, privateVars
<1> QED
  BY <1>1, <1>2, <1>3 DEF ValueInv, ServiceValue

\* The home's own steps but the lookup, the L2's response and the answer.
LEMMA PassingValue ==
    ASSUME TypeOK, HomeInv, ValueInv,
           \/ WaitWdata \/ DirLookup \/ ProbeStart \/ ProbeDone
           \/ DirAllocate \/ DirClear \/ DirRecord \/ L2Request \/ L2Wdata
    PROVE  ValueInv'
<1>0. ServiceValue /\ LegalRequest
  BY DEF ValueInv, ServiceValue
<1>1. CASE WaitWdata
  <2>1. /\ UNCHANGED <<privateVars, l2, reservation, req>> /\ state = "WAIT_WDATA"
        /\ \/ req.err # "none" /\ state' = "RESP"
           \/ req.err = "none" /\ state' = "DIR_LOOKUP" /\ UNCHANGED resp
    BY <1>1 DEF WaitWdata
  <2>2. req.err # "none" => req.source # "DCACHE"
    BY <1>0, <2>1 DEF LegalRequest
  <2> QED
    BY <2>1, <2>2, HomeFrame DEF WriteStates
<1>2. CASE ProbeStart \/ ProbeDone \/ DirLookup \/ L2Request \/ L2Wdata \/ DirClear \/ DirRecord
  <2>1. /\ UNCHANGED <<privateVars, l2, reservation, req, resp>>
        /\ state \notin {"IDLE", "WAIT_WDATA", "RESP"} /\ state' # "IDLE"
        /\ state' \in {"DIR_RECORD", "RESP"} <=> state \in {"DIR_RECORD", "RESP"}
        /\ state' \in WriteStates => state \in WriteStates
    BY <1>2 DEF ProbeStart, ProbeDone, DirLookup, L2Request, L2Wdata, DirClear, DirRecord,
                DirectoryStep, WriteStates
  <2>2. req.err = "none"
    BY <1>0, <2>1 DEF LegalRequest
  <2> QED
    BY <2>1, <2>2, HomeFrame
<1>3. CASE DirAllocate
  <2>1. /\ UNCHANGED <<privateVars, l2, reservation, req, resp>>
        /\ state = "DIR_ALLOCATE" /\ state' = "L2_REQ"
    BY <1>3 DEF DirAllocate, DirectoryStep
  <2>2. req.err = "none"
    BY <1>0, <2>1 DEF LegalRequest
  <2>3. ~RequestCoherentWrite
    BY <2>1 DEF HomeInv, DirectoryInv, Replacing, RequestPrivateFill, RequestCoherentWrite, OpWrites
  <2> QED
    BY <2>1, <2>2, <2>3, HomeFrame
<1> QED
  BY <1>1, <1>2, <1>3

\* A lookup only takes reservations away: those of the line a write is let
\* past with, and that of the hart whose SC it is.
LEMMA LookupValue ==
    ASSUME TypeOK, HomeInv, ValueInv, Lookup
    PROVE  ValueInv'
<1>0. /\ LegalRequest /\ MarkedServed /\ AnswerCurrent /\ req.hart \in Harts /\ req.line \in Lines
      /\ reservation \in [Harts -> Lines \cup {NoLine}]
      /\ resp \in [data: Values, error: BOOLEAN, sc_success: BOOLEAN]
  BY DEF ValueInv, ServiceValue, TypeOK, HomeTypeOK, Commands
<1>1. /\ UNCHANGED <<privateVars, req, l2>> /\ state = "DIR_WAIT"
      /\ resp'.error = resp.error
      /\ reservation' = ReservationAfterLookup
      /\ state' \in {"RESP", "L2_REQ", "EVICT_PROBE_START", "DIR_ALLOCATE",
                     "WRITE_PROBE_START", "DIR_CLEAR"}
      /\ state' = "RESP" => ScFails
      /\ state' \in WriteStates /\ RequestCoherentWrite => ~ScFails
  <2>1. PICK next \in States :
            /\ LookupDone(next)
            /\ next \in {"RESP", "L2_REQ", "EVICT_PROBE_START", "DIR_ALLOCATE",
                         "WRITE_PROBE_START", "DIR_CLEAR"}
            /\ next = "RESP" => ScFails
            /\ next \in WriteStates /\ RequestCoherentWrite => ~ScFails
    <3>1. RequestPrivateFill => ~RequestCoherentWrite
      BY DEF RequestPrivateFill, RequestCoherentWrite, OpWrites
    <3>2. CASE LookupScFail
      BY <3>2 DEF LookupScFail, States, WriteStates
    <3>3. CASE LookupFillHit
      BY <3>1, <3>3 DEF LookupFillHit, States
    <3>4. CASE LookupFillEvict \/ LookupFillAllocate
      BY <3>4 DEF LookupFillEvict, LookupFillAllocate, States, WriteStates
    <3>5. CASE LookupWriteProbe
      BY <3>5 DEF LookupWriteProbe, States
    <3>6. CASE LookupScClear
      BY <3>6 DEF LookupScClear, States, ScFails
    <3>7. CASE LookupBypass
      BY <3>7 DEF LookupBypass, States
    <3> QED
      BY <3>2, <3>3, <3>4, <3>5, <3>6, <3>7 DEF Lookup
  <2> QED
    BY <1>0, <2>1 DEF LookupDone
<1>2. \A h \in Harts : reservation'[h] \in {reservation[h], NoLine}
  BY <1>0, <1>1 DEF ReservationAfterLookup
<1>3. ASSUME NEW h \in Harts PROVE HartValue(h)'
  <2>1. HartValue(h) /\ HartSame(h) /\ UNCHANGED l2
    BY <1>1 DEF ValueInv, privateVars, HartSame
  <2>2. ~LrGranted(h) /\ ~LrGranted(h)'
    BY <1>1 DEF LrGranted, ScFails
  <2>3. CacheValue(h, l2)'
    <3> PICK v : v = l2
      OBVIOUS
    <3> QED BY <2>1, CacheFrame, CacheOver DEF HartValue
  <2>4. BadUnheld(h)' /\ Reserved(h)'
    BY <1>2, <2>1, <2>2, LinesAssumption
       DEF HartValue, HartSame, BadUnheld, HoldsD, Reserved, LrPending
  <2> QED
    BY <2>3, <2>4 DEF HartValue
<1>4. LegalRequest' /\ MarkedServed'
  BY <1>0, <1>1 DEF LegalRequest, MarkedServed, privateVars
<1>5. AnswerCurrent'
  BY <1>1 DEF AnswerCurrent, ScFails
<1>6. WriteReserved'
  <2> SUFFICES ASSUME (state \in WriteStates)', RequestCoherentWrite
               PROVE  /\ \A h \in Harts : reservation'[h] # req.line
                      /\ req.op = "SC" => l2[req.line] = lr_value[req.hart]
    BY <1>1 DEF WriteReserved, RequestCoherentWrite, privateVars
  <2>1. ~ScFails
    BY <1>1
  <2>2. \A h \in Harts : reservation'[h] # req.line
    BY <1>0, <1>1, <2>1, LinesAssumption DEF ReservationAfterLookup, ScFails
  <2>3. ASSUME req.op = "SC" PROVE l2[req.line] = lr_value[req.hart]
    <3>1. reservation[req.hart] = req.line /\ req.line # NoLine
      BY <1>0, <2>1, <2>3, LinesAssumption DEF ScFails, ScReservationMatch
    <3>2. ~LrPending(req.hart)
      BY <1>1, <2>3 DEF LrPending, LrGranted, HomeInv, RequesterInv, ServedMarked
    <3> QED
      BY <1>0, <3>1, <3>2 DEF ValueInv, HartValue, Reserved
  <2> QED
    BY <2>2, <2>3
<1> QED
  BY <1>3, <1>4, <1>5, <1>6 DEF ValueInv, ServiceValue

\* The L2 performs the access: a write reaches a line nobody else holds and
\* nobody has reserved, and its own hart still sees its own store there.
LEMMA ResponseValue ==
    ASSUME TypeOK, HomeInv, ValueInv, L2Response
    PROVE  ValueInv'
<1>0. /\ LegalRequest /\ MarkedServed /\ WriteReserved
      /\ req.hart \in Harts /\ req.line \in Lines
      /\ reservation \in [Harts -> Lines \cup {NoLine}]
      /\ resp \in [data: Values, error: BOOLEAN, sc_success: BOOLEAN]
      /\ l2 \in [Lines -> Values] /\ state = "L2_RESP" /\ req.op \in Ops
  BY DEF ValueInv, ServiceValue, TypeOK, HomeTypeOK, Commands, L2Response
<1> DEFINE error == req.op # "FENCE" /\ req.line \in BadLines
           written == OpWrites(req.op) /\ ~error
<1>1. /\ UNCHANGED <<dcache, stores, mshr, marked, lr_value, req>>
      /\ l2' = IF written THEN [l2 EXCEPT ![req.line] = req.data] ELSE l2
      /\ resp'.data = l2[req.line] /\ resp'.error = error
      /\ reservation' = IF req.op = "LR" /\ ~error
                        THEN [reservation EXCEPT ![req.hart] = req.line] ELSE reservation
      /\ state' \in {"DIR_RECORD", "RESP"}
  BY <1>0 DEF L2Response, L2Access, privateVars
<1>2. req.source # "LEGACY" /\ (OpWrites(req.op) \/ req.op = "LR" => req.source = "DCACHE")
  BY <1>0 DEF LegalRequest
<1> HIDE DEF written
<1>3. ASSUME written, NEW h \in Harts
      PROVE  /\ dcache[h][req.line] # Absent => Hits(stores[h], req.line) # {}
             /\ ~(mshr[h].state = "complete" /\ mshr[h].line = req.line)
             /\ reservation[h] # req.line
  <2>1. CASE ~req.cacheable
    <3>1. req.line \in DeviceLines
      BY <1>0, <1>3, <2>1 DEF written, HomeInv, RequesterInv, DevicesUncached
    <3>2. dcache[h][req.line] = Absent
          /\ ~(mshr[h].state = "complete" /\ mshr[h].line = req.line)
      BY <3>1 DEF HomeInv, RequesterInv, DevicesUncached
    <3> QED
      BY <3>1, <3>2 DEF ValueInv, HartValue, BadUnheld
  <2>2. CASE req.cacheable
    <3>1. RequestCoherentWrite
      BY <1>3, <2>2 DEF written, RequestCoherentWrite
    <3>2. HoldsD(h, req.line) => h = req.hart /\ req.op = "WRITE"
      BY <1>0, <3>1 DEF HomeInv, DirectoryInv, WriteExclusive, WriteInService
    <3>3. ASSUME h = req.hart, req.op = "WRITE" PROVE Hits(stores[h], req.line) # {}
      <4>1. stores[h] # << >> /\ Head(stores[h]).line = req.line
        BY <1>0, <1>2, <1>3, <2>2, <3>3 DEF written, HomeInv, RequesterInv, StoreServed
      <4>2. stores[h] \in Seq(StoreEntries)
        BY DEF TypeOK, PrivateTypeOK
      <4>3. 1 \in DOMAIN stores[h] /\ stores[h][1] = Head(stores[h])
        BY <4>1, <4>2
      <4> QED
        BY <4>1, <4>3 DEF Hits
    <3>4. reservation[h] # req.line
      BY <1>0, <3>1 DEF WriteReserved, WriteStates
    <3> QED
      BY <3>2, <3>3, <3>4 DEF HoldsD, ValueInv, HartValue, CacheValue, MissApart
  <2> QED
    BY <2>1, <2>2
<1>4. \A l : l # req.line \/ ~written => l2'[l] = l2[l]
  BY <1>0, <1>1
<1>5. ASSUME NEW h \in Harts PROVE HartValue(h)'
  <2>0. HartValue(h) /\ HartSame(h)
    BY <1>1 DEF ValueInv, HartSame
  <2>1. CacheValue(h, l2)'
    <3> PICK v, w : v = l2 /\ w = l2'
      OBVIOUS
    <3>1. mshr[h].line \in Lines
      BY CacheTypes DEF TypeOK
    <3>2. CacheValue(h, w)
      BY <1>3, <1>4, <2>0, <3>1, CacheWritten DEF HartValue
    <3> QED BY <2>0, <3>2, CacheFrame, CacheOver
  <2>2. ~LrGranted(h)
    BY <1>0 DEF LrGranted
  <2>3. CASE req.op = "LR" /\ ~error /\ h = req.hart
    <3>1. /\ reservation'[h] = req.line /\ marked[h].line = req.line
          /\ req.line \notin BadLines \cup DeviceLines
      BY <1>0, <1>1, <1>2, <2>3 DEF HomeInv, RequesterInv, ServedMarked, Served
    <3>2. LrGranted(h)'
      BY <1>1, <2>3 DEF LrGranted
    <3> QED
      BY <1>1, <2>0, <2>1, <3>1, <3>2 DEF HartValue, BadUnheld, HoldsD, Reserved, LrPending
  <2>4. CASE ~(req.op = "LR" /\ ~error /\ h = req.hart)
    <3>1. reservation'[h] = reservation[h]
      BY <1>0, <1>1, <2>4
    <3>2. ~LrGranted(h)'
      BY <1>1, <2>4 DEF LrGranted
    <3>3. l2'[reservation[h]] = l2[reservation[h]]
      BY <1>3, <1>4
    <3> QED
      BY <1>1, <2>0, <2>1, <2>2, <3>1, <3>2, <3>3
         DEF HartValue, BadUnheld, HoldsD, Reserved, LrPending
  <2> QED
    BY <2>3, <2>4
<1>6. LegalRequest' /\ MarkedServed'
  BY <1>0, <1>1 DEF LegalRequest, MarkedServed
<1>7. AnswerCurrent'
  BY <1>0, <1>1 DEF AnswerCurrent, written, OpWrites
<1>8. WriteReserved'
  BY <1>1 DEF WriteReserved, WriteStates
<1> QED
  BY <1>5, <1>6, <1>7, <1>8 DEF ValueInv, ServiceValue

\* What a command that is accepted changes: a waiting miss becomes an issued
\* one; an LR finds no store and no miss beside it.
LEMMA AcceptValue ==
    ASSUME TypeOK, HomeInv, ValueInv, NEW h \in Harts, Accept(h)
    PROVE  ValueInv'
<1> DEFINE Private ==
             /\ UNCHANGED <<dcache, stores, marked, lr_value>>
             /\ \/ UNCHANGED mshr
                \/ mshr[h].state = "need" /\ mshr' = [mshr EXCEPT ![h].state = "issued"]
           Legal(c) ==
             /\ c.err = "none" <=> c.source # "LEGACY"
             /\ OpWrites(c.op) => c.source \in {"DCACHE", "LEGACY"}
             /\ c.op \in {"LR", "SC"} => c.source = "DCACHE"
             /\ c.err # "none" /\ ~OpWrites(c.op) => c.err = "command"
             /\ c.op = "LR" => /\ stores[c.hart] = << >>
                               /\ mshr[c.hart].state = "free" /\ UNCHANGED mshr
             /\ c.op = "FENCE" /\ c.source = "DCACHE" => marked[c.hart].state = "fence"
<1>1. PICK c : Capture(c) /\ Private /\ Legal(c)
  <2>1. CASE AcceptStore(h)
    BY <2>1 DEF AcceptStore, Command, OpWrites, privateVars
  <2>2. CASE AcceptFill(h)
    BY <2>2 DEF AcceptFill, Command, OpWrites
  <2>3. CASE AcceptLR(h)
    BY <2>3 DEF AcceptLR, AcceptMarked, Command, OpWrites, privateVars
  <2>4. CASE AcceptSC(h)
    BY <2>4 DEF AcceptSC, AcceptMarked, Command, OpWrites, privateVars
  <2>5. CASE AcceptFence(h)
    BY <2>5 DEF AcceptFence, AcceptMarked, Command, OpWrites, privateVars
  <2>6. CASE AcceptFetch(h)
    BY <2>6 DEF AcceptFetch, Command, OpWrites, privateVars
  <2>7. CASE \E op \in Ops, l \in Lines : AcceptPtw(h, op, l)
    BY <2>7 DEF AcceptPtw, Command, OpWrites, privateVars
  <2>8. CASE \E op \in Ops, l \in Lines, v \in Values : AcceptDevice(h, op, l, v)
    BY <2>8 DEF AcceptDevice, Command, OpWrites, privateVars
  <2>9. CASE \E op \in Ops, l \in Lines, err \in {"command", "wdata"} : AcceptMalformed(h, op, l, err)
    BY <2>9 DEF AcceptMalformed, Command, OpWrites, privateVars
  <2> QED
    BY <2>1, <2>2, <2>3, <2>4, <2>5, <2>6, <2>7, <2>8, <2>9 DEF Accept
<1> HIDE DEF Legal
<1>2. /\ state = "IDLE" /\ req' = c /\ UNCHANGED <<reservation, l2>>
      /\ state' = IF OpWrites(c.op) THEN "WAIT_WDATA"
                 ELSE IF c.err = "command" THEN "RESP" ELSE "DIR_LOOKUP"
  BY <1>1 DEF Capture
<1>3. ASSUME NEW g \in Harts PROVE HartValue(g)'
  <2>0. HartValue(g) /\ UNCHANGED <<dcache, stores, marked, lr_value>>
    BY <1>1 DEF ValueInv
  <2>1. /\ mshr'[g].line = mshr[g].line /\ mshr'[g].overlay = mshr[g].overlay
        /\ mshr'[g].data = mshr[g].data
        /\ \/ mshr'[g].state = mshr[g].state
           \/ mshr[g].state = "need" /\ mshr'[g].state = "issued"
    <3>1. mshr \in [Harts -> Mshrs] /\ mshr[g] \in Mshrs /\ Private
      BY <1>1 DEF TypeOK, PrivateTypeOK
    <3>2. CASE mshr'[g] = mshr[g]
      BY <3>2
    <3>3. CASE mshr'[g] # mshr[g]
      <4>1. mshr[g].state = "need" /\ mshr'[g] = [mshr[g] EXCEPT !.state = "issued"]
        BY <3>1, <3>3
      <4> QED
        BY <3>1, <4>1 DEF Mshrs
    <3> QED
      BY <3>2, <3>3
  <2>2. CacheValue(g, l2)'
    BY <1>2, <2>0, <2>1 DEF HartValue, CacheValue, CleanCopy, LrDrained, MissApart,
                            MissCurrent, LrMissOwn
  <2>3. BadUnheld(g)'
    BY <1>2, <2>0, <2>1 DEF HartValue, BadUnheld, HoldsD
  <2>4. ~LrGranted(g) /\ ~LrGranted(g)'
    BY <1>1, <1>2 DEF LrGranted, Legal
  <2>5. Reserved(g)'
    BY <1>2, <2>0, <2>4 DEF HartValue, Reserved, LrPending
  <2> QED
    BY <2>2, <2>3, <2>5 DEF HartValue
<1>4. LegalRequest'
  BY <1>1, <1>2 DEF LegalRequest, Legal
<1>5. MarkedServed'
  BY <1>1, <1>2 DEF MarkedServed, Legal
<1>6. AnswerCurrent' /\ WriteReserved'
  BY <1>1, <1>2 DEF AnswerCurrent, WriteReserved, WriteStates, Legal
<1> QED
  BY <1>3, <1>4, <1>5, <1>6 DEF ValueInv, ServiceValue
------------------------------------------------------------------------------
(* The private caches. *)

\* A step of one hart keeps the values of the others and the service of the
\* home, which never depends on what the hart is doing.
LEMMA PrivateFrame ==
    ASSUME TypeOK, HomeInv, ValueInv, NEW h \in Harts,
           UNCHANGED homeVars, HartValue(h)',
           \A g \in Harts \ {h} : HartSame(g),
           marked[h].state = "lr_reserve" /\ mshr[h].state = "free" =>
               stores'[h] = stores[h] /\ mshr'[h].state = "free",
           marked[h].state = "sc_send" => lr_value'[h] = lr_value[h],
           marked[h].state = "fence" => marked'[h] = marked[h]
    PROVE  ValueInv'
<1>0. /\ UNCHANGED <<state, req, resp, l2, reservation>>
      /\ ServiceValue /\ (state # "IDLE" => req.hart \in Harts)
  BY DEF homeVars, ValueInv, TypeOK, HomeTypeOK, Commands
<1>1. ASSUME NEW g \in Harts PROVE HartValue(g)'
  <2>1. CASE g = h
    BY <2>1
  <2>2. CASE g # h
    <3>1. HartSame(g) /\ HartValue(g) /\ (LrGranted(g)' <=> LrGranted(g))
      BY <1>0, <2>2 DEF ValueInv, LrGranted
    <3> QED
      BY <1>0, <3>1, HartFrame
  <2> QED
    BY <2>1, <2>2
<1>2. LegalRequest' /\ AnswerCurrent'
  BY <1>0 DEF ServiceValue, LegalRequest, AnswerCurrent
<1>3. MarkedServed'
  BY <1>0 DEF ServiceValue, MarkedServed, HartSame, HomeInv, RequesterInv, ServedMarked
<1>4. WriteReserved'
  BY <1>0 DEF ServiceValue, WriteReserved, WriteStates, RequestCoherentWrite, HartSame,
              HomeInv, RequesterInv, ServedMarked
<1> QED
  BY <1>1, <1>2, <1>3, <1>4 DEF ValueInv, ServiceValue

\* An LR whose reservation is granted belongs to a hart that waits for it.
LEMMA GrantedWaits ==
    ASSUME HomeInv, NEW h \in Harts, LrGranted(h)
    PROVE  marked[h].state = "lr_reserve"
  BY DEF LrGranted, HomeInv, RequesterInv, ServedMarked

\* Every access of an L1D keeps the values.
LEMMA StepValue ==
    ASSUME ~OverlayFills, TypeOK, HomeInv, ValueInv, NEW h \in Harts,
           NEW blocked, L1DAccess(h, blocked), UNCHANGED homeVars
    PROVE  ValueInv'
<1> PICK v : v = l2
  OBVIOUS
<1>1. /\ HartValue(h) /\ UNCHANGED <<l2, reservation, state, req, resp>>
      /\ PrivateTypeOK
  BY DEF ValueInv, TypeOK, homeVars
<1>2. CacheValue(h, v)' /\ AccessMoves(h, v)
  BY <1>1, AccessValue DEF HartValue
<1>3. CacheValue(h, l2)'
  BY <1>1, <1>2, CacheOver
<1>4. BadUnheld(h)'
  <2>1. \E l \in Lines \cup {NoLine} : Drops(h, l)
    BY <1>1, AccessHolders
  <2> QED
    BY <1>1, <2>1, LinesAssumption DEF HartValue, BadUnheld, Drops
<1>5. LrGranted(h)' <=> LrGranted(h)
  BY <1>1 DEF LrGranted
<1>6. Reserved(h)'
  <2>1. CASE marked[h].state = "lr_lookup" /\ marked'[h].state = "idle"
             /\ lr_value'[h] = v[marked[h].line]
    BY <1>1, <1>5, <2>1, GrantedWaits DEF HartValue, Reserved, LrPending
  <2>2. CASE lr_value'[h] = lr_value[h] /\ marked'[h] = marked[h]
    BY <1>1, <1>5, <2>2 DEF HartValue, Reserved, LrPending
  <2>3. CASE /\ lr_value'[h] = lr_value[h]
             /\ marked[h].state \in {"idle", "sc_invalidate"}
             /\ marked'[h].state # "lr_lookup"
    BY <1>1, <1>5, <2>3, GrantedWaits DEF HartValue, Reserved, LrPending
  <2> QED
    BY <1>2, <2>1, <2>2, <2>3 DEF AccessMoves, MarkedMoves
<1>7. HartValue(h)'
  BY <1>3, <1>4, <1>6 DEF HartValue
<1> QED
  BY <1>2, <1>7, PrivateFrame DEF AccessMoves, MarkedMoves

\* A snoop keeps them, too.
LEMMA SnoopStepValue ==
    ASSUME TypeOK, HomeInv, ValueInv, NEW h \in Harts, NEW l \in Lines,
           SnoopInvalidate(h, l), UNCHANGED homeVars
    PROVE  ValueInv'
<1> PICK v : v = l2
  OBVIOUS
<1>1. /\ HartValue(h) /\ UNCHANGED <<l2, reservation, state, req, resp>>
      /\ PrivateTypeOK
      /\ UNCHANGED <<stores, marked, lr_value>>
  BY DEF ValueInv, TypeOK, homeVars, SnoopInvalidate
<1>2. /\ CacheValue(h, v)' /\ \A g \in Harts \ {h} : HartSame(g)
      /\ mshr[h].state = "free" => mshr'[h].state = "free"
  BY <1>1, SnoopValue DEF HartValue
<1>3. CacheValue(h, l2)'
  BY <1>1, <1>2, CacheOver
<1>4. BadUnheld(h)'
  BY <1>1, SnoopedHolders, LinesAssumption DEF HartValue, BadUnheld, Drops
<1>5. Reserved(h)'
  BY <1>1 DEF HartValue, Reserved, LrPending, LrGranted
<1>6. HartValue(h)'
  BY <1>3, <1>4, <1>5 DEF HartValue
<1> QED
  BY <1>1, <1>2, <1>6, PrivateFrame
------------------------------------------------------------------------------
(* The answer, and what the requester does with it. *)

\* After an answer the home is idle and owes nothing.
LEMMA AnswerFrame ==
    ASSUME TypeOK, HomeInv, ValueInv, Respond, NEW h \in Harts, req.hart = h,
           HartValue(h)', \A g \in Harts \ {h} : HartSame(g)
    PROVE  ValueInv'
<1>1. /\ UNCHANGED <<l2, reservation>> /\ state' = "IDLE"
  BY DEF Respond, TypeOK, HomeTypeOK, Commands
<1>2. ASSUME NEW g \in Harts, g # h PROVE HartValue(g)'
  <2>1. HartValue(g) /\ HartSame(g) /\ ~LrGranted(g) /\ ~LrGranted(g)'
    BY <1>1, <1>2 DEF ValueInv, LrGranted
  <2> QED
    BY <1>1, <2>1, HartFrame
<1>3. ServiceValue'
  BY <1>1 DEF ServiceValue, LegalRequest, MarkedServed, AnswerCurrent, WriteReserved, WriteStates
<1> QED
  BY <1>1, <1>2, <1>3 DEF ValueInv

\* A store that is answered leaves the buffer; the L2 has its value.
LEMMA StoreAnswered ==
    ASSUME TypeOK, HomeInv, ValueInv, Respond, NEW h \in Harts, req.hart = h,
           req.source = "DCACHE", req.cacheable, req.op = "WRITE"
    PROVE  ValueInv'
<1> PICK v : v = l2
  OBVIOUS
<1>1. /\ HartValue(h) /\ PrivateTypeOK /\ req.line \in Lines
      /\ UNCHANGED <<l2, reservation>> /\ state = "RESP" /\ state' = "IDLE"
  BY DEF ValueInv, Respond, TypeOK, HomeTypeOK, Commands
<1>2. stores[h] # << >> /\ Head(stores[h]) = [line |-> req.line, data |-> req.data]
  BY <1>1 DEF HomeInv, RequesterInv, StoreServed
<1>3. dcache[h][req.line] # Absent => l2[req.line] = req.data
  BY <1>1 DEF ValueInv, HartValue, BadUnheld, HoldsD, ServiceValue, AnswerCurrent
<1>4. StoreResponse(h)
  BY DEF Respond, Response
<1>5. /\ CacheValue(h, v)' /\ \A g \in Harts \ {h} : HartSame(g)
      /\ UNCHANGED <<dcache, mshr, marked, lr_value>>
  BY <1>1, <1>2, <1>3, <1>4, StoreAnswer DEF HartValue
<1>6. CacheValue(h, l2)'
  BY <1>1, <1>5, CacheOver
<1>7. BadUnheld(h)' /\ Reserved(h)'
  BY <1>1, <1>5 DEF HartValue, BadUnheld, HoldsD, Reserved, LrPending, LrGranted
<1>8. HartValue(h)'
  BY <1>6, <1>7 DEF HartValue
<1> QED
  BY <1>5, <1>8, AnswerFrame

\* A miss that is answered takes the value of the L2, asks again or gives up.
LEMMA FillAnswered ==
    ASSUME TypeOK, HomeInv, ValueInv, Respond, NEW h \in Harts, req.hart = h,
           req.source = "DCACHE", req.cacheable, req.op = "READ"
    PROVE  ValueInv'
<1> PICK v : v = l2
  OBVIOUS
<1>1. /\ HartValue(h) /\ PrivateTypeOK /\ req.line \in Lines
      /\ UNCHANGED <<l2, reservation>> /\ state = "RESP" /\ state' = "IDLE"
      /\ resp.error \in BOOLEAN
  BY DEF ValueInv, Respond, TypeOK, HomeTypeOK, Commands
<1>2. mshr[h].state = "issued" /\ mshr[h].line = req.line
  BY <1>1 DEF HomeInv, RequesterInv, Served
<1>3. (resp.error <=> req.line \in BadLines) /\ resp.data = l2[req.line]
  BY <1>1 DEF ValueInv, ServiceValue, AnswerCurrent
<1>4. FillResponse(h, resp.error, resp.data)
  BY DEF Respond, Response
<1>5. /\ CacheValue(h, v)' /\ \A g \in Harts \ {h} : HartSame(g)
      /\ UNCHANGED <<dcache, stores, lr_value>>
      /\ \/ mshr'[h].state = "need" /\ marked'[h] = marked[h]
         \/ /\ ~resp.error /\ mshr'[h].state = "complete" /\ marked'[h] = marked[h]
            /\ mshr'[h].line = mshr[h].line
         \/ /\ resp.error /\ mshr'[h].state = "free"
            /\ \/ marked'[h] = marked[h] /\ marked[h].state # "lr_lookup"
               \/ marked[h].state = "lr_lookup" /\ marked'[h].state = "idle"
  <2> DEFINE error == resp.error
             data == resp.data
  <2>1. error \in BOOLEAN /\ FillResponse(h, error, data) /\ data = v[mshr[h].line]
    BY <1>1, <1>2, <1>3, <1>4
  <2>2. CacheValue(h, v)
    BY <1>1 DEF HartValue
  <2> HIDE DEF error, data
  <2>3. /\ CacheValue(h, v)' /\ \A g \in Harts \ {h} : HartSame(g)
        /\ UNCHANGED <<dcache, stores, lr_value>>
        /\ \/ mshr'[h].state = "need" /\ marked'[h] = marked[h]
           \/ /\ ~error /\ mshr'[h].state = "complete" /\ marked'[h] = marked[h]
              /\ mshr'[h].line = mshr[h].line
           \/ /\ error /\ mshr'[h].state = "free"
              /\ \/ marked'[h] = marked[h] /\ marked[h].state # "lr_lookup"
                 \/ marked[h].state = "lr_lookup" /\ marked'[h].state = "idle"
    BY <1>1, <1>2, <2>1, <2>2, FillAnswer
  <2> QED BY <2>3 DEF error
<1>6. CacheValue(h, l2)'
  BY <1>1, <1>5, CacheOver
<1>7. BadUnheld(h)'
  BY <1>1, <1>2, <1>3, <1>5 DEF HartValue, BadUnheld, HoldsD
<1>8. ~LrGranted(h) /\ ~LrGranted(h)'
  BY <1>1 DEF LrGranted
<1>9. Reserved(h)'
  <2>1. CASE marked'[h] = marked[h]
    BY <1>1, <1>5, <1>8, <2>1 DEF HartValue, Reserved, LrPending
  <2>2. CASE resp.error /\ marked[h].state = "lr_lookup"
    <3>1. marked[h].line \in BadLines
      BY <1>1, <1>2, <1>3, <2>2 DEF HartValue, CacheValue, LrMissOwn
    <3>2. reservation[h] = NoLine
      BY <1>1, <2>2, <3>1 DEF HartValue, Reserved, LrPending, BadUnheld
    <3> QED
      BY <1>1, <3>2 DEF Reserved
  <2> QED
    BY <1>5, <2>1, <2>2
<1>10. HartValue(h)'
  BY <1>6, <1>7, <1>9 DEF HartValue
<1> QED
  BY <1>5, <1>10, AnswerFrame

\* A granted LR goes on to its lookup; every other marked access is over.
LEMMA MarkedAnswered ==
    ASSUME TypeOK, HomeInv, ValueInv, Respond, NEW h \in Harts, req.hart = h,
           req.source = "DCACHE", req.op \in {"LR", "SC", "FENCE"}
    PROVE  ValueInv'
<1> PICK v : v = l2
  OBVIOUS
<1> DEFINE granted == req.op = "LR" /\ ~resp.error
<1>1. /\ HartValue(h) /\ PrivateTypeOK /\ resp.error \in BOOLEAN
      /\ UNCHANGED <<l2, reservation>> /\ state = "RESP" /\ state' = "IDLE"
  BY DEF ValueInv, Respond, TypeOK, HomeTypeOK, Commands
<1>2. MarkedResponse(h, req.op, resp.error)
  BY DEF Respond, Response
<1>3. marked[h].state = IF req.op = "LR" THEN "lr_reserve"
                        ELSE IF req.op = "SC" THEN "sc_send" ELSE "fence"
  BY <1>1 DEF HomeInv, RequesterInv, ServedMarked, ValueInv, ServiceValue, MarkedServed
<1>4. granted => stores[h] = << >> /\ mshr[h].state = "free"
  BY <1>1 DEF ValueInv, ServiceValue, MarkedServed
<1>5. /\ CacheValue(h, v)' /\ \A g \in Harts \ {h} : HartSame(g)
      /\ UNCHANGED <<dcache, stores, mshr, lr_value>>
      /\ IF granted
         THEN marked'[h].state = "lr_lookup" /\ marked'[h].line = marked[h].line
         ELSE marked'[h].state = "idle"
  BY <1>1, <1>2, <1>3, <1>4, MarkedAnswer DEF HartValue
<1>6. CacheValue(h, l2)'
  BY <1>1, <1>5, CacheOver
<1>7. BadUnheld(h)'
  BY <1>1, <1>5 DEF HartValue, BadUnheld, HoldsD
<1>8. Reserved(h)'
  <2>1. marked[h].state # "lr_lookup" /\ (LrGranted(h) <=> granted) /\ ~LrGranted(h)'
    BY <1>1, <1>3 DEF LrGranted
  <2> QED
    BY <1>1, <1>5, <2>1 DEF HartValue, Reserved, LrPending
<1>9. HartValue(h)'
  BY <1>6, <1>7, <1>8 DEF HartValue
<1> QED
  BY <1>5, <1>9, AnswerFrame

\* The response handshake of every requester class.
LEMMA RespondValue ==
    ASSUME TypeOK, HomeInv, ValueInv, Respond
    PROVE  ValueInv'
<1> PICK h \in Harts : req.hart = h
  BY DEF TypeOK, HomeTypeOK, Commands
<1>0. /\ req.op \in Ops /\ state = "RESP" /\ LegalRequest
  BY DEF Respond, TypeOK, HomeTypeOK, Commands, ValueInv, ServiceValue
<1>1. CASE req.source = "DCACHE" /\ req.cacheable /\ req.op = "WRITE"
  BY <1>1, StoreAnswered
<1>2. CASE req.source = "DCACHE" /\ req.cacheable /\ req.op = "READ"
  BY <1>2, FillAnswered
<1>3. CASE req.source = "DCACHE" /\ req.op \in {"LR", "SC", "FENCE"}
  BY <1>3, MarkedAnswered
<1>4. CASE req.source # "DCACHE" \/ (~req.cacheable /\ req.op \in {"READ", "WRITE"})
  <2>1. UNCHANGED <<dcache, stores, mshr, marked, lr_value>>
    BY <1>4 DEF Respond, Response, FetchResponse, privateVars
  <2>2. req.op # "LR"
    BY <1>0, <1>4 DEF LegalRequest
  <2>3. /\ \A g \in Harts : HartSame(g) /\ (LrGranted(g)' <=> LrGranted(g))
        /\ UNCHANGED <<l2, reservation>> /\ HartValue(h)
    BY <1>0, <2>1, <2>2 DEF HartSame, LrGranted, Respond, ValueInv
  <2>4. HartValue(h)'
    BY <1>0, <2>3, HartFrame
  <2> QED
    BY <2>3, <2>4, AnswerFrame
<1> QED
  BY <1>0, <1>1, <1>2, <1>3, <1>4 DEF Ops
------------------------------------------------------------------------------
(* The theorems. *)

\* Nothing is cached, buffered, reserved or in service after reset.
LEMMA InitValues == Init => ValueInv
<1> SUFFICES ASSUME Init PROVE ValueInv
  OBVIOUS
<1>1. ServiceValue
  BY DEF Init, HomeInit, ServiceValue, LegalRequest, MarkedServed, AnswerCurrent, WriteReserved,
         WriteStates
<1>2. ASSUME NEW h \in Harts PROVE HartValue(h)
  <2>1. /\ \A l \in Lines : dcache[h][l] = Absent
        /\ mshr[h].state = "free" /\ marked[h].state = "idle" /\ reservation[h] = NoLine
    BY <1>2 DEF Init, PrivateInit, HomeInit, FreeMshr, NoMarked
  <2>2. NoLine \notin BadLines \cup DeviceLines /\ BadLines \subseteq Lines
    BY LinesAssumption
  <2> QED
    BY <2>1, <2>2 DEF HartValue, CacheValue, CleanCopy, LrDrained, MissApart, MissCurrent, LrMissOwn,
                      BadUnheld, HoldsD, Reserved
<1> QED
  BY <1>1, <1>2 DEF ValueInv

\* Every step keeps the values, as long as no miss overlaps a buffered store.
LEMMA NextValues ==
    ASSUME ~OverlayFills, TypeOK, HomeInv, ValueInv, [Next]_vars
    PROVE  ValueInv'
<1>1. CASE HomeStep
  BY <1>1, PassingValue, LookupValue, ResponseValue, RespondValue DEF HomeStep
<1>2. ASSUME NEW h \in Harts, Accept(h) PROVE ValueInv'
  BY <1>2, AcceptValue
<1>3. ASSUME NEW h \in Harts, L1DStep(h) PROVE ValueInv'
  BY <1>3, StepValue DEF L1DStep
<1>4. ASSUME NEW h \in Harts, InvalidateL1D(h) PROVE ValueInv'
  <2>1. endpoint[h].line \in Lines
    BY DEF TypeOK, ProbeTypeOK, EndpointSlots
  <2> QED
    BY <1>4, <2>1, SnoopStepValue DEF InvalidateL1D
<1>5. CASE \/ RejectBurst \/ UNCHANGED vars
           \/ \E h \in Harts : ProbeStep(h) \/ L1IStep(h)
  <2>1. UNCHANGED <<dcache, stores, mshr, marked, lr_value, state, req, resp, l2, reservation>>
    BY <1>5 DEF RejectBurst, vars, ProbeStep, L1IStep, L1IAccess, FetchMiss, FenceI,
                privateVars, homeVars
  <2>2. ASSUME NEW h \in Harts PROVE HartValue(h)'
    BY <2>1, HartFrame DEF ValueInv, HartSame, LrGranted
  <2>3. ServiceValue'
    BY <2>1 DEF ValueInv, ServiceValue, LegalRequest, MarkedServed, AnswerCurrent,
                WriteReserved, RequestCoherentWrite
  <2> QED
    BY <2>2, <2>3 DEF ValueInv
<1> QED
  BY <1>1, <1>2, <1>3, <1>4, <1>5 DEF Next

\* ValueInv holds of every run in which no miss overlaps a buffered store.
THEOREM ValueInvariant ==
    ASSUME ~OverlayFills
    PROVE  Spec => []ValueInv
<1>1. Init => TypeOK /\ HomeInv /\ ValueInv
  BY InitType, InitRequester, InitDirectory, InitValues DEF HomeInv
<1>2. TypeOK /\ HomeInv /\ ValueInv /\ [Next]_vars => (TypeOK /\ HomeInv /\ ValueInv)'
  <2>1. TypeOK /\ HomeInv /\ [Next]_vars => TypeOK' /\ HomeInv'
    BY NextType, NextRequester, NextDirectory DEF HomeInv, RequesterInv
  <2> QED
    BY <2>1, NextValues
<1> QED
  BY <1>1, <1>2, PTL DEF Spec

\* Private lines are clean: whatever the interleaving of stores, snoops, fills
\* and evictions, a resident D-cache line has the value of the L2 or of the
\* hart's own unanswered store (l1d.v, icx.v; the home_overlay run shows that a
\* fill with a store overlay breaks it).
THEOREM Clean ==
    ASSUME ~OverlayFills
    PROVE  Spec => []CleanCopies
<1>1. \A h, l : OwnView(h, l) = Seen(stores[h], l, l2[l])
  BY ViewSeen DEF OwnView
<1>2. ValueInv => CleanCopies
  BY <1>1 DEF ValueInv, HartValue, CacheValue, CleanCopy, CleanCopies
<1> QED
  BY <1>2, ValueInvariant, PTL

\* An SC writes only over the value its LR returned: no write of any hart and
\* no device access slips between the two (reservation_valid_q and
\* reservation_line_q, coherent_protocol.v:555-640 and 700-715).
THEOREM Atomic ==
    ASSUME ~OverlayFills
    PROVE  Spec => []ScAtomic
<1>1. TypeOK /\ HomeInv /\ ValueInv => ScAtomic
  <2> SUFFICES ASSUME TypeOK, HomeInv, ValueInv, state = "L2_WDATA", req.op = "SC"
               PROVE  l2[req.line] = lr_value[req.hart]
    BY DEF ScAtomic
  <2>1. RequestCoherentWrite
    BY DEF RequestCoherentWrite, OpWrites, HomeInv, RequesterInv, ServedMarked
  <2> QED
    BY <2>1 DEF ValueInv, ServiceValue, WriteReserved, WriteStates
<1> QED
  BY <1>1, ValueInvariant, TypeCorrect, HomeInvariant, PTL
=============================================================================
