---------------------------- MODULE CoherentHome ----------------------------
(***************************************************************************)
(* The serialized coherence home                                            *)
(* (rtl/complex/coherent/protocol/coherent_protocol.v) composed with its    *)
(* snoop-filter directory, its probe tracker, the probe endpoints and the   *)
(* private caches of every hart.  The home owns one transaction at a time:  *)
(* it looks the line up, removes other private copies before a write or a   *)
(* directory replacement, performs the access in the L2 and records the     *)
(* requester before it answers.  The L2 behind it is an atomic line memory  *)
(* (rtl/cache/l2/l2_native.v, used here through its response contract).     *)
(***************************************************************************)
EXTENDS SnoopFilter, ProbeTracker, PrivateCache

CONSTANT Malformed      \* may a requester send commands the home rejects?

ASSUME MalformedAssumption == Malformed \in BOOLEAN

VARIABLES
    state,              \* state_q
    req,                \* the captured command and its write data
    resp,               \* response registers
    entry,              \* directory_entry_q: the way; req.line gives the set
    probe,              \* probe_target_q, probe_cache_mask_q, probe_line_addr_q
    next_probe_id,
    reservation,        \* reservation[h]: reserved line of hart h, or NoLine
    protocol_error,     \* protocol_error_q
    l2                  \* contents of the shared memory below the home

homeVars == <<state, req, resp, entry, probe, next_probe_id, reservation,
              protocol_error, l2>>
vars == <<directoryVars, probeVars, privateVars, homeVars>>

States ==
    {"IDLE", "WAIT_WDATA", "DIR_LOOKUP", "DIR_WAIT", "EVICT_PROBE_START",
     "EVICT_PROBE_WAIT", "DIR_ALLOCATE", "WRITE_PROBE_START",
     "WRITE_PROBE_WAIT", "DIR_CLEAR", "L2_REQ", "L2_WDATA", "L2_RESP",
     "DIR_RECORD", "RESP"}

HomeTypeOK ==
    /\ state \in States
    /\ req \in Commands
    /\ resp \in [data: Values, error: BOOLEAN, sc_success: BOOLEAN]
    /\ entry \in Ways
    /\ probe \in [targets: SUBSET Harts, mask: CacheMasks, line: Lines]
    /\ next_probe_id \in ProbeId
    /\ reservation \in [Harts -> Lines \cup {NoLine}]
    /\ protocol_error \in BOOLEAN
    /\ l2 \in [Lines -> Values]

\* Every register of the home, the directory, the probe fabric and the
\* private caches keeps its type (coherent_protocol.v:158-195).
TypeOK == DirectoryTypeOK /\ ProbeTypeOK /\ PrivateTypeOK /\ HomeTypeOK

HomeInit ==
    /\ state = "IDLE"
    /\ req = [hart |-> CHOOSE h \in Harts : TRUE, source |-> "ICACHE",
              op |-> "READ", cacheable |-> FALSE,
              line |-> CHOOSE l \in Lines : TRUE, data |-> InitValue,
              err |-> "none"]
    /\ resp = [data |-> InitValue, error |-> FALSE, sc_success |-> FALSE]
    /\ entry = 0
    /\ probe = [targets |-> {}, mask |-> {}, line |-> CHOOSE l \in Lines : TRUE]
    /\ next_probe_id = 0
    /\ reservation = [h \in Harts |-> NoLine]
    /\ protocol_error = FALSE
    /\ l2 = [l \in Lines |-> InitValue]

Init == DirectoryInit /\ ProbeInit /\ PrivateInit /\ HomeInit

-----------------------------------------------------------------------------
(* Classification of the captured command.                                   *)

RequestPrivateFill ==
    /\ req.cacheable
    /\ req.op \in {"READ", "LR"}
    /\ req.source \in {"ICACHE", "DCACHE"}

RequestCoherentWrite == req.cacheable /\ OpWrites(req.op)

ScReservationMatch == reservation[req.hart] = req.line

-----------------------------------------------------------------------------
(* Request acceptance (request_fire).                                        *)

Command(h, source, op, l, v) ==
    [hart |-> h, source |-> source, op |-> op,
     cacheable |-> op # "FENCE" /\ l \notin DeviceLines,
     line |-> l, data |-> v, err |-> "none"]

\* Capture a command.  Write-bearing commands wait for their data beat first,
\* even when they are known to be bad, so that the beat is consumed.
Capture(c) ==
    /\ state = "IDLE"
    /\ req' = c
    /\ resp' = [data |-> InitValue, error |-> c.err = "command",
                sc_success |-> FALSE]
    /\ protocol_error' = (protocol_error \/ c.err = "command")
    /\ state' = IF OpWrites(c.op) THEN "WAIT_WDATA"
                ELSE IF c.err = "command" THEN "RESP" ELSE "DIR_LOOKUP"
    /\ UNCHANGED <<entry, probe, next_probe_id, reservation, l2,
                   directoryVars, probeVars>>

AcceptStore(h) ==
    /\ stores[h] # << >>
    /\ Capture(Command(h, "DCACHE", "WRITE", Head(stores[h]).line,
                       Head(stores[h]).data))
    /\ UNCHANGED privateVars

AcceptFill(h) ==
    /\ mshr[h].state = "need"
    /\ Capture(Command(h, "DCACHE", "READ", mshr[h].line, InitValue))
    /\ mshr' = [mshr EXCEPT ![h].state = "issued"]
    /\ UNCHANGED <<dcache, icache, fetch, stores, marked, lr_value>>

\* Marked accesses and fences cross the fabric behind every older store.
AcceptMarked(h, st, op) ==
    /\ marked[h].state = st
    /\ stores[h] = << >>
    /\ Capture(Command(h, "DCACHE", op, marked[h].line, marked[h].data))
    /\ UNCHANGED privateVars

AcceptLR(h) == mshr[h].state = "free" /\ AcceptMarked(h, "lr_reserve", "LR")

AcceptSC(h) == mshr[h].state = "free" /\ AcceptMarked(h, "sc_send", "SC")

AcceptFence(h) == AcceptMarked(h, "fence", "FENCE")

AcceptFetch(h) ==
    /\ fetch[h] # NoLine
    /\ Capture(Command(h, "ICACHE", "READ", fetch[h], InitValue))
    /\ UNCHANGED privateVars

\* The page-table walker reads PTEs and fences; it keeps no copy.
AcceptPtw(h, op, l) ==
    /\ op \in {"READ", "FENCE"} /\ l \in PtwLines
    /\ Capture(Command(h, "PTW", op, l, InitValue))
    /\ UNCHANGED privateVars

AcceptDevice(h, op, l, v) ==
    /\ op \in {"READ", "WRITE"} /\ l \in DeviceLines
    /\ Capture(Command(h, "DCACHE", op, l, v))
    /\ UNCHANGED privateVars

\* A command with a bad hart, opcode or lock, or whose data beat carries
\* another identity.
AcceptMalformed(h, op, l, err) ==
    /\ Malformed
    /\ op \in {"READ", "WRITE"}
    /\ err = "wdata" => op = "WRITE"
    /\ Capture([Command(h, "LEGACY", op, l, InitValue) EXCEPT !.err = err])
    /\ UNCHANGED privateVars

\* A burst is never accepted; it only raises the sticky error.
RejectBurst ==
    /\ Malformed
    /\ state = "IDLE"
    /\ protocol_error' = TRUE
    /\ UNCHANGED <<directoryVars, probeVars, privateVars, state, req, resp,
                   entry, probe, next_probe_id, reservation, l2>>

-----------------------------------------------------------------------------
(* Directory lookup.                                                         *)

\* The tagged data beat arrives; a bad command or beat ends the transaction.
WaitWdata ==
    /\ state = "WAIT_WDATA"
    /\ IF req.err # "none"
       THEN /\ resp' = [resp EXCEPT !.error = TRUE]
            /\ protocol_error' = TRUE
            /\ state' = "RESP"
       ELSE /\ state' = "DIR_LOOKUP"
            /\ UNCHANGED <<resp, protocol_error>>
    /\ UNCHANGED <<directoryVars, probeVars, privateVars, req, entry, probe,
                   next_probe_id, reservation, l2>>

DirLookup ==
    /\ state = "DIR_LOOKUP"
    /\ state' = "DIR_WAIT"
    /\ UNCHANGED <<directoryVars, probeVars, privateVars, req, resp, entry,
                   probe, next_probe_id, reservation, protocol_error, l2>>

\* Mutant: a write revokes only the requester's own reservation.
ReservationOwnOnly ==
    [h \in Harts |->
        IF \/ req.op = "SC" /\ h = req.hart
           \/ /\ RequestCoherentWrite
              /\ h = req.hart
              /\ reservation[h] = req.line
        THEN NoLine ELSE reservation[h]]

\* Reservations after the lookup: every SC consumes its hart's reservation,
\* and a cacheable write that will reach the L2 revokes every reservation of
\* its line.
ReservationAfterLookup ==
    [h \in Harts |->
        IF \/ req.op = "SC" /\ h = req.hart
           \/ /\ RequestCoherentWrite
              /\ req.op = "SC" => ScReservationMatch
              /\ reservation[h] = req.line
        THEN NoLine ELSE reservation[h]]

\* Common part of every lookup outcome.
LookupDone(next) ==
    /\ state = "DIR_WAIT"
    /\ state' = next
    /\ reservation' = ReservationAfterLookup
    /\ resp' = [resp EXCEPT !.sc_success =
                    req.op = "SC" /\ ScReservationMatch]
    /\ UNCHANGED <<directoryVars, probeVars, privateVars, req, next_probe_id,
                   protocol_error, l2>>

ScFails == req.op = "SC" /\ ~ScReservationMatch

\* A failed SC performs no write.
LookupScFail ==
    /\ ScFails
    /\ LookupDone("RESP")
    /\ UNCHANGED <<entry, probe>>

LookupFillHit ==
    /\ RequestPrivateFill /\ LookupHit(req.line)
    /\ entry' = LookupWay(req.line)
    /\ LookupDone("L2_REQ")
    /\ UNCHANGED probe

FillVictimWay == VictimWay(SetOf[req.line])
FillVictim == dir[SetOf[req.line]][FillVictimWay]
VictimSharers == IF FillVictim.valid THEN FillVictim.i \cup FillVictim.d ELSE {}

\* The victim entry still records private copies: revoke them first.
LookupFillEvict ==
    /\ RequestPrivateFill /\ ~LookupHit(req.line)
    /\ VictimSharers # {}
    /\ entry' = FillVictimWay
    /\ probe' = [targets |-> VictimSharers,
                 mask |-> {c \in {"I", "D"} :
                              \/ c = "I" /\ FillVictim.i # {}
                              \/ c = "D" /\ FillVictim.d # {}},
                 line |-> FillVictim.line]
    /\ LookupDone("EVICT_PROBE_START")

LookupFillAllocate ==
    /\ RequestPrivateFill /\ ~LookupHit(req.line)
    /\ VictimSharers = {}
    /\ entry' = FillVictimWay
    /\ LookupDone("DIR_ALLOCATE")
    /\ UNCHANGED probe

\* Mutant: the I-cache sharers are probed instead of the D-cache sharers.
WriteProbeISharers ==
    IF LookupHit(req.line)
    THEN dir[SetOf[req.line]][LookupWay(req.line)].i \ {req.hart} ELSE {}

\* The requester of a write is never probed: a store keeps its updated copy,
\* an SC revoked its own before it was sent.
WriteProbeTargets ==
    IF LookupHit(req.line)
    THEN dir[SetOf[req.line]][LookupWay(req.line)].d \ {req.hart} ELSE {}

LookupWriteProbe ==
    /\ RequestCoherentWrite /\ ~ScFails
    /\ WriteProbeTargets # {}
    /\ entry' = LookupWay(req.line)
    /\ probe' = [targets |-> WriteProbeTargets, mask |-> {"D"},
                 line |-> req.line]
    /\ LookupDone("WRITE_PROBE_START")

\* A successful SC clears the sharers even if nobody is left to probe.
LookupScClear ==
    /\ req.op = "SC" /\ ScReservationMatch
    /\ RequestCoherentWrite => WriteProbeTargets = {}
    /\ LookupHit(req.line)
    /\ entry' = LookupWay(req.line)
    /\ probe' = [probe EXCEPT !.targets = {}]
    /\ LookupDone("DIR_CLEAR")

\* Every other request goes straight to the L2.
LookupBypass ==
    /\ ~RequestPrivateFill /\ ~ScFails
    /\ RequestCoherentWrite => WriteProbeTargets = {}
    /\ ~(req.op = "SC" /\ LookupHit(req.line))
    /\ LookupDone("L2_REQ")
    /\ UNCHANGED <<entry, probe>>

-----------------------------------------------------------------------------
(* Probes and directory writes.                                              *)

ProbeStart ==
    /\ state \in {"EVICT_PROBE_START", "WRITE_PROBE_START"}
    /\ TrackerStart(probe.targets, next_probe_id, probe.mask, probe.line)
    /\ next_probe_id' = (next_probe_id + 1) % ProbeIds
    /\ state' = IF state = "EVICT_PROBE_START" THEN "EVICT_PROBE_WAIT"
                                               ELSE "WRITE_PROBE_WAIT"
    /\ UNCHANGED <<directoryVars, endpoint, probe_error, privateVars, req,
                   resp, entry, probe, reservation, protocol_error, l2>>

ProbeDone ==
    /\ state \in {"EVICT_PROBE_WAIT", "WRITE_PROBE_WAIT"}
    /\ TrackerDone
    /\ state' = IF state = "EVICT_PROBE_WAIT" THEN "DIR_ALLOCATE"
                                              ELSE "DIR_CLEAR"
    /\ UNCHANGED <<directoryVars, endpoint, probe_error, privateVars, req,
                   resp, entry, probe, next_probe_id, reservation,
                   protocol_error, l2>>

DirectoryStep(next) ==
    /\ state' = next
    /\ UNCHANGED <<probeVars, privateVars, req, resp, entry, probe,
                   next_probe_id, reservation, protocol_error, l2>>

DirAllocate ==
    /\ state = "DIR_ALLOCATE"
    /\ DirectoryAllocate(req.line, entry)
    /\ DirectoryStep("L2_REQ")

\* Mutant: a store clears the sharers as an SC does, its own hart included.
DirClearAll ==
    /\ state = "DIR_CLEAR"
    /\ DirectoryMerge(req.line, entry, {}, {}, Harts)
    /\ DirectoryStep("L2_REQ")

\* A store removes the acknowledged sharers, an SC every D-cache sharer.
DirClear ==
    /\ state = "DIR_CLEAR"
    /\ DirectoryMerge(req.line, entry, {}, {},
                      IF req.op = "SC" THEN Harts ELSE probe.targets)
    /\ DirectoryStep("L2_REQ")

\* Record the requester before the response is exposed.
DirRecord ==
    /\ state = "DIR_RECORD"
    /\ DirectoryMerge(req.line, entry,
                      IF req.source = "ICACHE" THEN {req.hart} ELSE {},
                      IF req.source = "DCACHE" THEN {req.hart} ELSE {}, {})
    /\ DirectoryStep("RESP")

-----------------------------------------------------------------------------
(* L2 access and response.                                                   *)

L2Request ==
    /\ state = "L2_REQ"
    /\ state' = IF OpWrites(req.op) THEN "L2_WDATA" ELSE "L2_RESP"
    /\ UNCHANGED <<directoryVars, probeVars, privateVars, req, resp, entry,
                   probe, next_probe_id, reservation, protocol_error, l2>>

L2Wdata ==
    /\ state = "L2_WDATA"
    /\ state' = "L2_RESP"
    /\ UNCHANGED <<directoryVars, probeVars, privateVars, req, resp, entry,
                   probe, next_probe_id, reservation, protocol_error, l2>>

\* The L2 performs the access; its response is the coherence point.
L2Access(error) ==
    /\ error = (req.op # "FENCE" /\ req.line \in BadLines)
    /\ l2' = IF OpWrites(req.op) /\ ~error
             THEN [l2 EXCEPT ![req.line] = req.data] ELSE l2

L2Response ==
    /\ state = "L2_RESP"
    /\ \E error \in BOOLEAN :
         /\ L2Access(error)
         /\ resp' = [resp EXCEPT !.data = l2[req.line], !.error = error]
         /\ reservation' = IF req.op = "LR" /\ ~error
                           THEN [reservation EXCEPT ![req.hart] = req.line]
                           ELSE reservation
         /\ state' = IF RequestPrivateFill /\ ~error THEN "DIR_RECORD"
                                                     ELSE "RESP"
    /\ UNCHANGED <<directoryVars, probeVars, privateVars, req, entry, probe,
                   next_probe_id, protocol_error>>

\* The response handshake, and what the requesting cache does with it.
Respond ==
    /\ state = "RESP"
    /\ state' = "IDLE"
    /\ Response(req, resp.error, resp.data)
    /\ UNCHANGED <<directoryVars, probeVars, req, resp, entry, probe,
                   next_probe_id, reservation, protocol_error, l2>>

\* Mutant: a snoop waits for the L1D's outstanding miss.
InvalidateAfterMiss(h) ==
    /\ EndpointInvalidated(h)
    /\ mshr[h].state = "free"
    /\ SnoopInvalidate(h, endpoint[h].line)
    /\ UNCHANGED <<tracker, probe_error, directoryVars, homeVars>>

\* The L1D of hart h completes the invalidation its endpoint holds.
InvalidateL1D(h) ==
    /\ EndpointInvalidated(h)
    /\ SnoopInvalidate(h, endpoint[h].line)
    /\ UNCHANGED <<tracker, probe_error, directoryVars, homeVars>>

-----------------------------------------------------------------------------
(* The system.                                                               *)

L1DStep(h) ==
    /\ L1DAccess(h, endpoint[h].invalidate)
    /\ UNCHANGED <<directoryVars, probeVars, homeVars>>

L1IStep(h) ==
    /\ L1IAccess(h)
    /\ UNCHANGED <<directoryVars, probeVars, homeVars>>

ProbeStep(h) ==
    /\ ProbeIssue(h) \/ ProbeTimeout(h) \/ ProbeAck(h)
    /\ UNCHANGED <<directoryVars, privateVars, homeVars>>

Accept(h) ==
    \/ AcceptStore(h)
    \/ AcceptFill(h)
    \/ AcceptLR(h)
    \/ AcceptSC(h)
    \/ AcceptFence(h)
    \/ AcceptFetch(h)
    \/ \E op \in Ops, l \in Lines : AcceptPtw(h, op, l)
    \/ \E op \in Ops, l \in Lines, v \in Values : AcceptDevice(h, op, l, v)
    \/ \E op \in Ops, l \in Lines, err \in {"command", "wdata"} :
          AcceptMalformed(h, op, l, err)

Lookup ==
    \/ LookupScFail
    \/ LookupFillHit
    \/ LookupFillEvict
    \/ LookupFillAllocate
    \/ LookupWriteProbe
    \/ LookupScClear
    \/ LookupBypass

HomeStep ==
    \/ WaitWdata
    \/ DirLookup
    \/ Lookup
    \/ ProbeStart
    \/ ProbeDone
    \/ DirAllocate
    \/ DirClear
    \/ DirRecord
    \/ L2Request
    \/ L2Wdata
    \/ L2Response
    \/ Respond

Next ==
    \/ HomeStep
    \/ RejectBurst
    \/ \E h \in Harts :
          \/ Accept(h)
          \/ ProbeStep(h)
          \/ InvalidateL1D(h)
          \/ L1DStep(h)
          \/ L1IStep(h)

Spec == Init /\ [][Next]_vars

\* The home's state machine, the tracker and the endpoints are clocked every
\* cycle; an L1D completes a targeted invalidation whatever else it waits for.
Fairness ==
    /\ WF_vars(HomeStep)
    /\ \A h \in Harts :
          /\ WF_vars(ProbeIssue(h)
                     /\ UNCHANGED <<directoryVars, privateVars, homeVars>>)
          /\ WF_vars(ProbeAck(h)
                     /\ UNCHANGED <<directoryVars, privateVars, homeVars>>)
          /\ WF_vars(InvalidateL1D(h))

FairSpec == Spec /\ Fairness

-----------------------------------------------------------------------------
(* Properties.                                                               *)

\* Every D-cache copy is recorded in the directory, so a directory miss means
\* that no D-cache holds the line (doc/integration/icx-coherent-protocol.md:
\* "a directory miss means no private cache can legally retain that line").
\* Lost by a directory entry that is reused or cleared before its last ACK, or
\* by a fill that is answered before it is recorded.
CopiesTracked == \A h \in Harts, l \in Lines : HoldsD(h, l) => RecordedD(h, l)

WriteInService ==
    /\ state \in {"L2_REQ", "L2_WDATA", "L2_RESP"}
    /\ RequestCoherentWrite

\* While a cacheable write is on its way to the L2 no other D-cache holds the
\* line or data for it, and the requester of an SC does not either.
WriteExclusive ==
    WriteInService =>
        \A h \in Harts :
            HoldsD(h, req.line) => h = req.hart /\ req.op = "WRITE"

\* The value the hart itself must see: its youngest buffered store, or the L2.
OwnView(h, l) ==
    IF BufferedTo(h, l) = {} THEN l2[l] ELSE StoreOverlay(h, l)

\* Private lines are clean: a resident D-cache line has the value of the L2,
\* or of the hart's own store that has not been answered yet.
CleanCopies ==
    \A h \in Harts, l \in Lines :
        dcache[h][l] # Absent => dcache[h][l] = OwnView(h, l)

\* An SC that the home lets write finds in the L2 the value its LR returned:
\* no write of anybody slipped between the two.
ScAtomic ==
    (state = "L2_WDATA" /\ req.op = "SC" /\ req.line \notin BadLines)
        => l2[req.line] = lr_value[req.hart]

\* The probe fabric never reports an ACK it did not wait for, even while the
\* probe identity wraps, and a legal requester never raises the home's error.
NoProtocolError ==
    /\ "tracker" \notin probe_error
    /\ ~Malformed => ~protocol_error

Holders == [l \in Lines |-> {h \in Harts : HoldsD(h, l)}]

Contract == INSTANCE CoherentMemory WITH memory <- l2, holders <- Holders

\* The home with its directory, probes and private caches implements the
\* single-writer memory: the L2 changes only by a write whose line no other
\* D-cache holds, and a fill is the only step that creates a holder.
ImplementsContract == Contract!Spec

\* The home answers every command it accepted: no probe, reservation or L2
\* step waits for something that waits for the home.
RequestAnswered == state # "IDLE" ~> state = "IDLE"

-----------------------------------------------------------------------------
(* The inductive invariant behind CopiesTracked and WriteExclusive.          *)

ReqEntry == dir[SetOf[req.line]][entry]

NobodyHolds(l) == \A h \in Harts : ~HoldsD(h, l)

\* A directory row holds lines of its own set, each in one way.
DirUnique ==
    \A s \in Sets : \A w \in Ways :
        dir[s][w].valid =>
            /\ SetOf[dir[s][w].line] = s
            /\ \A x \in Ways :
                  dir[s][x].valid /\ dir[s][x].line = dir[s][w].line => x = w

\* A store that the home serves is still the oldest of its hart's buffer,
StoreServed ==
    state # "IDLE" /\ req.source = "DCACHE" /\ req.cacheable
       /\ req.op = "WRITE" =>
        /\ stores[req.hart] # << >>
        /\ Head(stores[req.hart]) = [line |-> req.line, data |-> req.data]

\* and a fill is still the miss that waits.
Served ==
    state # "IDLE" /\ req.source = "DCACHE" /\ req.cacheable =>
        /\ req.line \notin DeviceLines
        /\ req.op = "READ" => /\ mshr[req.hart].state = "issued"
                              /\ mshr[req.hart].line = req.line

\* and a marked access is still the one that began it.
ServedMarked ==
    state # "IDLE" /\ req.op \in {"LR", "SC"} =>
        /\ req.cacheable
        /\ marked[req.hart].line = req.line
        /\ marked[req.hart].state =
              IF req.op = "LR" THEN "lr_reserve" ELSE "sc_send"

\* A hart that has revoked its own copy for an SC gains no other.
ScQuiet ==
    \A h \in Harts :
        marked[h].state = "sc_send" =>
            mshr[h].state = "free" /\ dcache[h][marked[h].line] = Absent

\* No copy of a device line exists, for a device write probes nobody.
DevicesUncached ==
    /\ \A h \in Harts :
          /\ mshr[h].state # "free" => mshr[h].line \notin DeviceLines
          /\ marked[h].state \notin {"idle", "fence"}
                => marked[h].line \notin DeviceLines
          /\ \A l \in DeviceLines : dcache[h][l] = Absent
    /\ state # "IDLE" /\ OpWrites(req.op) /\ ~req.cacheable
          => req.line \in DeviceLines

\* The entry a fill was given stays tagged with its line until the requester
\* is recorded, and a successful fill is answered only after that.
FillRecorded ==
    /\ RequestPrivateFill
       /\ state \in {"L2_REQ", "L2_WDATA", "L2_RESP", "DIR_RECORD"}
          => entry \in MatchingWays(req.line)
    /\ RequestPrivateFill /\ state = "RESP" /\ ~resp.error
          /\ req.source = "DCACHE" => RecordedD(req.hart, req.line)

\* A replacement: the line is not in the directory, and the victim's sharers
\* are exactly what is probed, until nobody holds the victim any more.
Replacing ==
    /\ state \in {"EVICT_PROBE_START", "EVICT_PROBE_WAIT", "DIR_ALLOCATE"}
          => RequestPrivateFill /\ MatchingWays(req.line) = {}
    /\ state \in {"EVICT_PROBE_START", "EVICT_PROBE_WAIT"}
          => /\ ReqEntry.valid
             /\ probe.line = ReqEntry.line
             /\ ReqEntry.d \subseteq probe.targets
             /\ "D" \notin probe.mask => ReqEntry.d = {}
    /\ state = "DIR_ALLOCATE" /\ ReqEntry.valid => NobodyHolds(ReqEntry.line)

\* A write: the other sharers are exactly what is probed, until no other hart
\* holds the line.
Revoking ==
    /\ state \in {"WRITE_PROBE_START", "WRITE_PROBE_WAIT", "DIR_CLEAR"}
          => RequestCoherentWrite /\ entry \in MatchingWays(req.line)
    /\ state \in {"WRITE_PROBE_START", "WRITE_PROBE_WAIT"}
          => /\ probe.line = req.line
             /\ "D" \in probe.mask
             /\ probe.targets = ReqEntry.d \ {req.hart}
    /\ state = "DIR_CLEAR"
          => /\ req.hart \notin probe.targets
             /\ \A h \in Harts : HoldsD(h, req.line) => h = req.hart
             /\ req.op = "SC" => NobodyHolds(req.line)

ProbeWaitStates == {"EVICT_PROBE_WAIT", "WRITE_PROBE_WAIT"}

\* A probe in flight: a target that is neither waiting to be probed nor owing
\* an ACK has lost the line; an endpoint that is ready to answer, too.
Probing ==
    state \in ProbeWaitStates =>
        /\ tracker.busy <=> ~tracker.done
        /\ tracker.done => tracker.issue = {} /\ tracker.ack = {}
        /\ tracker.issue \cap tracker.ack = {}
        /\ tracker.line = probe.line /\ tracker.mask = probe.mask
        /\ \A h \in Harts : h \notin tracker.ack => EndpointReady(h)
        /\ \A h \in tracker.ack :
              /\ endpoint[h].invalidate <=> ~endpoint[h].response
              /\ endpoint[h].id = tracker.id
              /\ endpoint[h].line = probe.line
        /\ "D" \in probe.mask =>
              \A h \in probe.targets :
                 h \notin tracker.issue
                 /\ (h \in tracker.ack => endpoint[h].response)
                    => ~HoldsD(h, probe.line)

ProbeIdle ==
    state \notin ProbeWaitStates =>
        /\ ~tracker.busy /\ ~tracker.done
        /\ \A h \in Harts : EndpointReady(h)

\* What the home relies on from the requesters ...
RequesterInv ==
    /\ StoreServed
    /\ Served
    /\ ServedMarked
    /\ ScQuiet
    /\ DevicesUncached

\* ... and what it keeps itself.
DirectoryInv ==
    /\ DirUnique
    /\ CopiesTracked
    /\ FillRecorded
    /\ Replacing
    /\ Revoking
    /\ Probing
    /\ ProbeIdle
    /\ WriteExclusive

\* The inductive invariant: between any two steps the directory tracks every
\* D-cache copy, the transaction in service is the one its requester waits
\* for, and a probe in flight accounts for every target that may still hold
\* the line (coherent_protocol.v:457-740, probe_tracker.v:115-172).
HomeInv == RequesterInv /\ DirectoryInv
=============================================================================
