------------------------------- MODULE L2Home -------------------------------
(***************************************************************************)
(* The native L2 with its integrated, nonblocking coherence home            *)
(* (rtl/cache/l2/l2_native.v with ENABLE_COHERENCE), composed with the      *)
(* snoop filter, the probe tracker, the endpoints and the private caches.   *)
(*                                                                          *)
(* Commands pass a FIFO and a lookup stage in order.  A dispatch answers    *)
(* from the hit stage, joins an MSHR or takes a free one; MSHRs then run    *)
(* their probes, writebacks, fills and replays independently.  Everything   *)
(* one clock does is split into the steps below; the code's same-cycle      *)
(* conditions make each combination equal to some order of them.            *)
(*                                                                          *)
(* A value stands for a whole line: byte strobes, sizes and bursts are left *)
(* out, and so are the invariant pages and the lock of the non-coherent     *)
(* configuration.  The round-robin choice among MSHRs ready for the bus or  *)
(* for replay is a free choice.  An L1D has one buffered store in flight.   *)
(***************************************************************************)
EXTENDS SnoopFilter, ProbeTracker, PrivateCache

CONSTANTS
    L2Sets, L2_WAYS, L2SetOf,       \* geometry of the data array
    MSHR_ENTRIES, WAITERS_PER_MSHR, COMMAND_ENTRIES, RESPONSE_ENTRIES,
    Generations,                    \* 2^PTE_GENERATION_BITS
    MaxInService,                   \* bound on the commands in service
    Malformed                       \* may a command be malformed?

ASSUME L2Assumption ==
    /\ L2_WAYS \in Nat \ {0} /\ MSHR_ENTRIES \in Nat \ {0}
    /\ WAITERS_PER_MSHR \in Nat \ {0} /\ COMMAND_ENTRIES \in Nat \ {0}
    /\ RESPONSE_ENTRIES \in Nat \ {0} /\ Generations \in Nat \ {0}
    /\ MaxInService \in Nat \ {0}
    /\ L2SetOf \in [Lines -> L2Sets]
    /\ Malformed \in BOOLEAN

\* The L2 index extends the directory index: two lines of one L2 set are in
\* one directory set.  A victim that waits for a probe is hidden only by the
\* lock of its directory set.
ASSUME IndexAssumption ==
    \A l, m \in Lines : L2SetOf[l] = L2SetOf[m] => SetOf[l] = SetOf[m]

VARIABLES
    cmds,           \* command FIFO: [cmd, beat], beat once write data is there
    lookup,         \* lookup stage: a sequence of at most one command
    hit,            \* hit stage: a sequence of at most one response
    l2mshr,         \* l2mshr[i]: MSHR i with its waiters
    array,          \* array[s][w]: tag, flags and data of a way
    next_way,       \* next_way[s]: replace_q
    responses,      \* response FIFO
    bus,            \* bus tracking FIFO: [mshr, action] in request order
    mem,            \* external: contents of the backing memory
    reservation,    \* reservation[h]: reserved line of hart h, or NoLine
    generation,     \* pte_generation_q
    next_probe_id,
    active_probe    \* active_probe_mshr_q

l2Vars == <<cmds, lookup, hit, l2mshr, array, next_way, responses, bus, mem,
            reservation, generation, next_probe_id, active_probe>>
vars == <<directoryVars, probeVars, privateVars, l2Vars>>

MshrIds == 0 .. MSHR_ENTRIES - 1
L2Ways == 0 .. L2_WAYS - 1

L2MshrStates ==
    {"IDLE", "NEED_PROBE", "PROBE_INFLIGHT", "NEED_WB", "WB_INFLIGHT",
     "NEED_FILL", "FILL_INFLIGHT", "NEED_BYPASS", "BYPASS_INFLIGHT",
     "REPLAY", "ERROR"}

L2Mshrs ==
    [state: L2MshrStates, post: L2MshrStates,
     bypass: BOOLEAN, cacheable: BOOLEAN, private_fill: BOOLEAN,
     line: Lines, way: L2Ways, victim: Lines, vdata: Values, data: Values,
     generation: 0 .. Generations - 1,
     waiters: Seq(Commands),
     coh_action: {"ALLOCATE", "CLEAR"}, entry: Ways,
     targets: SUBSET Harts, mask: CacheMasks, probe_line: Lines,
     add_i: SUBSET Harts, add_d: SUBSET Harts, clear_d: SUBSET Harts]

AnyLine == CHOOSE l \in Lines : TRUE

FreeL2Mshr ==
    [state |-> "IDLE", post |-> "IDLE",
     bypass |-> FALSE, cacheable |-> FALSE, private_fill |-> FALSE,
     line |-> AnyLine, way |-> 0, victim |-> AnyLine, vdata |-> InitValue,
     data |-> InitValue, generation |-> 0, waiters |-> << >>,
     coh_action |-> "ALLOCATE", entry |-> 0, targets |-> {}, mask |-> {},
     probe_line |-> AnyLine, add_i |-> {}, add_d |-> {}, clear_d |-> {}]

L2Entries ==
    [valid: BOOLEAN, dirty: BOOLEAN, reserved: BOOLEAN, line: Lines,
     data: Values, generation: 0 .. Generations - 1]

Responses ==
    [cmd: Commands, data: Values, error: BOOLEAN, sc_success: BOOLEAN]

L2TypeOK ==
    /\ cmds \in Seq([cmd: Commands, beat: BOOLEAN])
    /\ Len(cmds) <= COMMAND_ENTRIES
    /\ lookup \in Seq(Commands) /\ Len(lookup) <= 1
    /\ hit \in Seq(Responses) /\ Len(hit) <= 1
    /\ l2mshr \in [MshrIds -> L2Mshrs]
    /\ \A i \in MshrIds : Len(l2mshr[i].waiters) <= WAITERS_PER_MSHR
    /\ array \in [L2Sets -> [L2Ways -> L2Entries]]
    /\ next_way \in [L2Sets -> L2Ways]
    /\ responses \in Seq(Responses) /\ Len(responses) <= RESPONSE_ENTRIES
    /\ bus \in Seq([mshr: MshrIds, action: {"WB", "FILL", "BYPASS"}])
    /\ Len(bus) <= MSHR_ENTRIES
    /\ mem \in [Lines -> Values]
    /\ reservation \in [Harts -> Lines \cup {NoLine}]
    /\ generation \in 0 .. Generations - 1
    /\ next_probe_id \in ProbeId
    /\ active_probe \in MshrIds

\* Every register and queue of the L2, the directory, the probe fabric and
\* the private caches keeps its type and its bound: no FIFO, waiter list or
\* bus tracker overflows (l2_native.v:235-262, 1475-1555).
TypeOK == DirectoryTypeOK /\ ProbeTypeOK /\ PrivateTypeOK /\ L2TypeOK

L2Init ==
    /\ cmds = << >> /\ lookup = << >> /\ hit = << >>
    /\ l2mshr = [i \in MshrIds |-> FreeL2Mshr]
    /\ array = [s \in L2Sets |-> [w \in L2Ways |->
                   [valid |-> FALSE, dirty |-> FALSE, reserved |-> FALSE,
                    line |-> AnyLine, data |-> InitValue, generation |-> 0]]]
    /\ next_way = [s \in L2Sets |-> 0]
    /\ responses = << >> /\ bus = << >>
    /\ mem = [l \in Lines |-> InitValue]
    /\ reservation = [h \in Harts |-> NoLine]
    /\ generation = 0 /\ next_probe_id = 0 /\ active_probe = 0

Init == DirectoryInit /\ ProbeInit /\ PrivateInit /\ L2Init

First(S) == CHOOSE x \in S : \A y \in S : x <= y

-----------------------------------------------------------------------------
(* Requesters.                                                               *)

Command(h, source, op, l, v) ==
    [hart |-> h, source |-> source, op |-> op,
     cacheable |-> op # "FENCE" /\ l \notin DeviceLines,
     line |-> l, data |-> v, err |-> "none"]

Elements(s) == {s[n] : n \in DOMAIN s}

\* Every command that has been accepted and not been answered.
InService ==
    {x.cmd : x \in Elements(cmds) \cup Elements(hit) \cup Elements(responses)}
    \cup Elements(lookup)
    \cup UNION {Elements(l2mshr[i].waiters) : i \in MshrIds}

Outstanding(h, source, ops, cacheable) ==
    \E c \in InService : /\ c.hart = h /\ c.source = source
                         /\ c.op \in ops /\ c.cacheable = cacheable

\* command_push
Push(c) ==
    /\ Len(cmds) < COMMAND_ENTRIES
    /\ Cardinality(InService) < MaxInService
    /\ cmds' = Append(cmds, [cmd |-> c, beat |-> FALSE])
    /\ UNCHANGED <<lookup, hit, l2mshr, array, next_way, responses, bus, mem,
                   reservation, generation, next_probe_id, active_probe,
                   directoryVars, probeVars>>

SendStore(h) ==
    /\ stores[h] # << >>
    /\ ~Outstanding(h, "DCACHE", {"WRITE"}, TRUE)
    /\ Push(Command(h, "DCACHE", "WRITE", Head(stores[h]).line,
                    Head(stores[h]).data))
    /\ UNCHANGED privateVars

SendFill(h) ==
    /\ mshr[h].state = "need"
    /\ Push(Command(h, "DCACHE", "READ", mshr[h].line, InitValue))
    /\ mshr' = [mshr EXCEPT ![h].state = "issued"]
    /\ UNCHANGED <<dcache, icache, fetch, stores, marked, lr_value>>

SendMarked(h, st, op) ==
    /\ marked[h].state = st
    /\ stores[h] = << >>
    /\ op # "FENCE" => mshr[h].state = "free"
    /\ ~\E c \in InService : c.hart = h /\ c.source = "DCACHE" /\ c.op = op
    /\ Push(Command(h, "DCACHE", op, marked[h].line, marked[h].data))
    /\ UNCHANGED privateVars

SendFetch(h) ==
    /\ fetch[h] # NoLine
    /\ ~Outstanding(h, "ICACHE", {"READ"}, TRUE)
    /\ Push(Command(h, "ICACHE", "READ", fetch[h], InitValue))
    /\ UNCHANGED privateVars

\* The walker has one request outstanding: a PTE read, or the fence that makes
\* older PTE lines stale.
SendPtw(h, op, l) ==
    /\ op \in {"READ", "FENCE"} /\ l \in PtwLines
    /\ ~\E c \in InService : c.hart = h /\ c.source = "PTW"
    /\ Push(Command(h, "PTW", op, l, InitValue))
    /\ UNCHANGED privateVars

SendDevice(h, op, l, v) ==
    /\ op \in {"READ", "WRITE"} /\ l \in DeviceLines
    /\ ~Outstanding(h, "DCACHE", {"READ", "WRITE"}, FALSE)
    /\ Push(Command(h, "DCACHE", op, l, v))
    /\ UNCHANGED privateVars

\* A command of an unsupported shape, or with an inconsistent data beat.
SendMalformed(h, op, l) ==
    /\ Malformed
    /\ op \in {"READ", "WRITE"}
    /\ ~\E c \in InService : c.source = "LEGACY"
    /\ Push([Command(h, "LEGACY", op, l, InitValue) EXCEPT !.err = "command"])
    /\ UNCHANGED privateVars

Send(h) ==
    \/ SendStore(h)
    \/ SendFill(h)
    \/ SendMarked(h, "lr_reserve", "LR")
    \/ SendMarked(h, "sc_send", "SC")
    \/ SendMarked(h, "fence", "FENCE")
    \/ SendFetch(h)
    \/ \E op \in Ops, l \in Lines : SendPtw(h, op, l)
    \/ \E op \in Ops, l \in Lines, v \in Values : SendDevice(h, op, l, v)
    \/ \E op \in Ops, l \in Lines : SendMalformed(h, op, l)

\* wdata_fire: the beat of any queued write arrives.
WriteBeat(n) ==
    /\ n \in DOMAIN cmds
    /\ OpWrites(cmds[n].cmd.op) /\ ~cmds[n].beat
    /\ cmds' = [cmds EXCEPT ![n].beat = TRUE]
    /\ UNCHANGED <<lookup, hit, l2mshr, array, next_way, responses, bus, mem,
                   reservation, generation, next_probe_id, active_probe,
                   directoryVars, probeVars, privateVars>>

\* lookup_capture: the FIFO head enters the lookup stage and reads the
\* directory and the array.
Capture ==
    /\ cmds # << >> /\ lookup = << >>
    /\ OpWrites(Head(cmds).cmd.op) => Head(cmds).beat
    /\ lookup' = <<Head(cmds).cmd>>
    /\ cmds' = Tail(cmds)
    /\ UNCHANGED <<hit, l2mshr, array, next_way, responses, bus, mem,
                   reservation, generation, next_probe_id, active_probe,
                   directoryVars, probeVars, privateVars>>

-----------------------------------------------------------------------------
(* Classification of the command in the lookup stage.                        *)

Cmd == Head(lookup)

IsRead(c) == c.op \in {"READ", "LR"}

PrivateFill(c) ==
    c.cacheable /\ IsRead(c) /\ c.source \in {"ICACHE", "DCACHE"}

CoherentWrite(c) == c.cacheable /\ OpWrites(c.op)

ScReservationMatch == reservation[Cmd.hart] = Cmd.line

ScFailed == Cmd.op = "SC" /\ ~ScReservationMatch

Busy == {i \in MshrIds : l2mshr[i].state # "IDLE"}

ProbeStates == {"NEED_PROBE", "PROBE_INFLIGHT"}

\* Mutant: a directory set is locked only while its probe is in flight.
SetLockedInflightOnly ==
    \E i \in Busy :
        /\ l2mshr[i].state = "PROBE_INFLIGHT"
        /\ SetOf[l2mshr[i].line] = SetOf[Cmd.line]
        /\ l2mshr[i].line # Cmd.line

\* coherence_set_locked_r: another line of the directory set is being filled
\* into a private cache or probed.
SetLocked ==
    \E i \in Busy :
        /\ l2mshr[i].private_fill \/ l2mshr[i].state \in ProbeStates
        /\ SetOf[l2mshr[i].line] = SetOf[Cmd.line]
        /\ l2mshr[i].line # Cmd.line

\* coherence_pending_fill_set_locked_r: a recorded fill of the directory set
\* has not been accepted by its requester yet.
PendingFillSetLocked ==
    \E r \in Elements(hit) \cup Elements(responses) :
        /\ PrivateFill(r.cmd) /\ ~r.error
        /\ SetOf[r.cmd.line] = SetOf[Cmd.line]

\* Mutant: a write that goes around the L2 does not own its line.
MatchingMshrsNoBypass ==
    {i \in Busy : ~l2mshr[i].bypass /\ l2mshr[i].line = Cmd.line}

\* An MSHR owns its line; only an uncached bypass does not.
MatchingMshrs ==
    {i \in Busy : /\ ~l2mshr[i].bypass \/ l2mshr[i].cacheable
                  /\ l2mshr[i].line = Cmd.line}

Mergeable(m) ==
    /\ ~m.bypass
    /\ ~(m.state \in ProbeStates /\ m.coh_action = "CLEAR")
    /\ m.state \notin {"REPLAY", "ERROR"}
    /\ Len(m.waiters) < WAITERS_PER_MSHR

\* Mutant: a dirty victim is found only once its writeback has been sent.
DirtyVictimMshrsSentOnly ==
    {i \in Busy : /\ ~l2mshr[i].bypass
                  /\ l2mshr[i].state = "WB_INFLIGHT"
                  /\ l2mshr[i].victim = Cmd.line}

\* The snapshot of a dirty victim is authoritative until its writeback ends.
DirtyVictimMshrs ==
    {i \in Busy : /\ ~l2mshr[i].bypass
                  /\ l2mshr[i].state \in {"NEED_WB", "WB_INFLIGHT"}
                  /\ l2mshr[i].victim = Cmd.line}

Row == array[L2SetOf[Cmd.line]]

\* Ways that hold the line and are not reserved; for the walker a way of an
\* older generation is stale and is replaced in place.
TagWays == {w \in L2Ways : /\ Row[w].valid /\ ~Row[w].reserved
                           /\ Row[w].line = Cmd.line}
StaleWays == {w \in TagWays : Cmd.source = "PTW"
                              /\ Row[w].generation # generation}
HitWays == TagWays \ StaleWays

FreeWays == {w \in L2Ways : ~Row[w].valid /\ ~Row[w].reserved}
OpenWays == {w \in L2Ways : ~Row[w].reserved}

FromPointer(w) == (w + L2_WAYS - next_way[L2SetOf[Cmd.line]]) % L2_WAYS

\* Mutant: a stale PTE is not replaced in place.
AllocWayBesideStale ==
    IF FreeWays # {} THEN First(FreeWays)
    ELSE CHOOSE w \in OpenWays :
             \A x \in OpenWays : FromPointer(w) <= FromPointer(x)

\* victim_way_r: a stale PTE, else an invalid way, else round robin among the
\* ways no MSHR reserves.
AllocWay ==
    IF StaleWays # {} THEN First(StaleWays)
    ELSE IF FreeWays # {} THEN First(FreeWays)
    ELSE CHOOSE w \in OpenWays :
             \A x \in OpenWays : FromPointer(w) <= FromPointer(x)

FreeMshrs == MshrIds \ Busy

\* fence_drain_complete
Drained == Busy = {} /\ bus = << >> /\ responses = << >> /\ hit = << >>

DirVictim == dir[SetOf[Cmd.line]][VictimWay(SetOf[Cmd.line])]

PrivateProbeNeeded ==
    /\ PrivateFill(Cmd) /\ ~LookupHit(Cmd.line)
    /\ DirVictim.valid /\ DirVictim.i \cup DirVictim.d # {}

WriteProbeTargets ==
    IF LookupHit(Cmd.line)
    THEN dir[SetOf[Cmd.line]][LookupWay(Cmd.line)].d \ {Cmd.hart} ELSE {}

WriteProbeNeeded ==
    CoherentWrite(Cmd) /\ ~ScFailed /\ WriteProbeTargets # {}

ProbeNeeded == PrivateProbeNeeded \/ WriteProbeNeeded

ISharer == IF Cmd.source = "ICACHE" THEN {Cmd.hart} ELSE {}
DSharer == IF Cmd.source = "DCACHE" THEN {Cmd.hart} ELSE {}

-----------------------------------------------------------------------------
(* What every dispatch does to the directory and the reservations.           *)

\* Mutant: an SC forgets its sharer before its reservation is checked.
DirectoryAtDispatchAnySc ==
    IF Cmd.err = "none" /\ PrivateFill(Cmd) /\ ~PrivateProbeNeeded
    THEN IF LookupHit(Cmd.line)
         THEN DirectoryMerge(Cmd.line, LookupWay(Cmd.line), ISharer, DSharer,
                             {})
         ELSE DirectoryAllocateFor(Cmd.line, VictimWay(SetOf[Cmd.line]),
                                   ISharer, DSharer)
    ELSE IF Cmd.err = "none" /\ Cmd.op = "SC" /\ LookupHit(Cmd.line)
    THEN DirectoryMerge(Cmd.line, LookupWay(Cmd.line), {}, {}, Harts)
    ELSE UNCHANGED directoryVars

\* lookup_directory_write: a private fill that needs no probe is recorded
\* here, long before its data is returned; a successful SC without other
\* sharers forgets its own.
DirectoryAtDispatch ==
    IF Cmd.err = "none" /\ PrivateFill(Cmd) /\ ~PrivateProbeNeeded
    THEN IF LookupHit(Cmd.line)
         THEN DirectoryMerge(Cmd.line, LookupWay(Cmd.line), ISharer, DSharer,
                             {})
         ELSE DirectoryAllocateFor(Cmd.line, VictimWay(SetOf[Cmd.line]),
                                   ISharer, DSharer)
    ELSE IF /\ Cmd.err = "none" /\ Cmd.op = "SC" /\ ~ScFailed
            /\ LookupHit(Cmd.line) /\ WriteProbeTargets = {}
    THEN DirectoryMerge(Cmd.line, LookupWay(Cmd.line), {}, {}, Harts)
    ELSE UNCHANGED directoryVars

\* Mutant: a write leaves the reservations of other harts alone.
ReservationOwnOnly ==
    [h \in Harts |->
        IF /\ Cmd.err = "none" /\ h = Cmd.hart
           /\ CoherentWrite(Cmd) /\ reservation[h] = Cmd.line
        THEN NoLine ELSE reservation[h]]

ReservationAtDispatch ==
    [h \in Harts |->
        IF /\ Cmd.err = "none"
           /\ \/ Cmd.op = "SC" /\ h = Cmd.hart
              \/ CoherentWrite(Cmd) /\ ~ScFailed /\ reservation[h] = Cmd.line
        THEN NoLine ELSE reservation[h]]

\* The command leaves the lookup stage.  It waits while a probe completes,
\* while a recorded fill of its directory set is on its way, and while its
\* directory set is locked, unless an MSHR already owns its line.
Dispatch ==
    /\ lookup # << >>
    /\ ~tracker.done
    /\ ~PendingFillSetLocked
    /\ ~SetLocked \/ MatchingMshrs # {}
    /\ lookup' = << >>
    /\ DirectoryAtDispatch
    /\ reservation' = ReservationAtDispatch
    /\ UNCHANGED <<cmds, responses, bus, mem, next_way, next_probe_id,
                   active_probe, probeVars, privateVars>>

Terminates == Cmd.err # "none" \/ ScFailed \/ Cmd.op = "FENCE"

\* The stages of the choice that a cacheable command reaches.
Cached == ~Terminates /\ Cmd.cacheable
Unowned == Cached /\ MatchingMshrs = {}
NotVictim == Unowned /\ DirtyVictimMshrs = {}
Misses == NotVictim /\ HitWays = {}
WritesAround == Misses /\ Cmd.op = "WRITE"

ToHit(data) ==
    /\ hit = << >>
    /\ hit' = <<[cmd |-> Cmd, data |-> data, error |-> Cmd.err # "none",
                 sc_success |-> Cmd.op = "SC" /\ Cmd.err = "none"
                                /\ ScReservationMatch]>>

\* LOOKUP_IMMEDIATE: an error, a failed SC, or a fence once everything older
\* is answered.  The walker's fence advances the PTE generation.  A malformed
\* write whose line has other sharers needs a probe that no action of the
\* lookup gives it: it is not dispatched.
DispatchImmediate ==
    /\ Dispatch
    /\ Terminates
    /\ ~ProbeNeeded
    /\ Cmd.err = "none" /\ Cmd.op = "FENCE" => Drained
    /\ ToHit(InitValue)
    /\ generation' = IF Cmd.err = "none" /\ Cmd.op = "FENCE"
                        /\ Cmd.source = "PTW"
                     THEN (generation + 1) % Generations ELSE generation
    /\ UNCHANGED <<l2mshr, array>>

NewMshr(state) ==
    [FreeL2Mshr EXCEPT
        !.state = state, !.line = Cmd.line, !.cacheable = Cmd.cacheable,
        !.private_fill = PrivateFill(Cmd), !.waiters = <<Cmd>>,
        !.generation = generation]

TakeMshr(m) == l2mshr' = [l2mshr EXCEPT ![First(FreeMshrs)] = m]

DispatchBypass ==
    /\ Dispatch
    /\ ~Terminates /\ ~Cmd.cacheable
    /\ FreeMshrs # {}
    /\ TakeMshr([NewMshr("NEED_BYPASS") EXCEPT !.bypass = TRUE])
    /\ UNCHANGED <<hit, array, generation>>

\* LOOKUP_MERGE: the line's MSHR answers the command too.  Its sharer joins
\* the sharers the MSHR will record when its own victim probe is over.
DispatchMerge ==
    /\ Dispatch
    /\ Cached /\ MatchingMshrs # {}
    /\ LET i == First(MatchingMshrs)
           m == l2mshr[i]
       IN  /\ Mergeable(m)
           /\ ~CoherentWrite(Cmd)
           /\ ProbeNeeded => /\ PrivateProbeNeeded
                             /\ m.coh_action = "ALLOCATE"
                             /\ m.state \in ProbeStates
           /\ l2mshr' = [l2mshr EXCEPT ![i] =
                [m EXCEPT
                   !.waiters = Append(@, Cmd),
                   !.private_fill = @ \/ PrivateFill(Cmd),
                   !.add_i = IF PrivateProbeNeeded THEN @ \cup ISharer ELSE @,
                   !.add_d = IF PrivateProbeNeeded THEN @ \cup DSharer
                                                   ELSE @]]
    /\ UNCHANGED <<hit, array, generation>>

DispatchVictimHit ==
    /\ Dispatch
    /\ Unowned /\ DirtyVictimMshrs # {} /\ IsRead(Cmd)
    /\ ~ProbeNeeded
    /\ ToHit(l2mshr[First(DirtyVictimMshrs)].vdata)
    /\ UNCHANGED <<l2mshr, array, generation>>

DispatchHit ==
    /\ Dispatch
    /\ NotVictim /\ HitWays # {}
    /\ ~ProbeNeeded
    /\ LET w == First(HitWays)
       IN  /\ ToHit(IF IsRead(Cmd) THEN Row[w].data ELSE InitValue)
           /\ array' = IF OpWrites(Cmd.op)
                       THEN [array EXCEPT ![L2SetOf[Cmd.line]][w] =
                               [@ EXCEPT !.data = Cmd.data, !.dirty = TRUE]]
                       ELSE array
    /\ UNCHANGED <<l2mshr, generation>>

\* LOOKUP_WRITE_AROUND: a missing line is written below without allocation.
DispatchWriteAround ==
    /\ Dispatch
    /\ WritesAround
    /\ ~ProbeNeeded
    /\ FreeMshrs # {}
    /\ TakeMshr([NewMshr("NEED_BYPASS") EXCEPT !.bypass = TRUE])
    /\ UNCHANGED <<hit, array, generation>>

Reserve(w) ==
    array' = [array EXCEPT ![L2SetOf[Cmd.line]][w].reserved = TRUE]

\* The MSHR of a miss: it snapshots its victim, which it writes back if dirty.
AllocMshr ==
    LET v == Row[AllocWay]
    IN  [NewMshr(IF v.valid /\ v.dirty THEN "NEED_WB" ELSE "NEED_FILL") EXCEPT
            !.way = AllocWay, !.victim = v.line, !.vdata = v.data]

DispatchAlloc ==
    /\ Dispatch
    /\ Misses /\ ~WritesAround
    /\ ~ProbeNeeded
    /\ FreeMshrs # {} /\ OpenWays # {}
    /\ TakeMshr(AllocMshr)
    /\ Reserve(AllocWay)
    /\ UNCHANGED <<hit, generation>>

\* LOOKUP_COH_PROBE: the MSHR first probes, then goes on with m.  A fill that
\* needs a directory entry revokes the sharers of the victim entry; a write
\* revokes the other sharers of its line and keeps the snapshot of the entry.
Probing(m) ==
    LET e == dir[SetOf[Cmd.line]][LookupWay(Cmd.line)]
    IN  IF PrivateProbeNeeded
        THEN [m EXCEPT !.state = "NEED_PROBE", !.post = m.state,
                       !.coh_action = "ALLOCATE",
                       !.entry = VictimWay(SetOf[Cmd.line]),
                       !.targets = DirVictim.i \cup DirVictim.d,
                       !.mask = (IF DirVictim.i # {} THEN {"I"} ELSE {})
                                \cup (IF DirVictim.d # {} THEN {"D"} ELSE {}),
                       !.probe_line = DirVictim.line,
                       !.add_i = ISharer, !.add_d = DSharer]
        ELSE [m EXCEPT !.state = "NEED_PROBE", !.post = m.state,
                       !.coh_action = "CLEAR",
                       !.entry = LookupWay(Cmd.line),
                       !.targets = WriteProbeTargets, !.mask = {"D"},
                       !.probe_line = Cmd.line,
                       !.add_i = e.i, !.add_d = e.d,
                       !.clear_d = IF Cmd.op = "SC" THEN Harts
                                   ELSE WriteProbeTargets]

\* Mutant: a write around the L2 is not among the actions that may probe.
DispatchProbeResident ==
    /\ Dispatch
    /\ ProbeNeeded
    /\ FreeMshrs # {}
    /\ \/ /\ NotVictim /\ HitWays # {} /\ hit = << >>
          /\ TakeMshr(Probing([NewMshr("REPLAY") EXCEPT
                                 !.way = First(HitWays),
                                 !.data = Row[First(HitWays)].data]))
          /\ Reserve(First(HitWays))
       \/ /\ Misses /\ ~WritesAround /\ OpenWays # {}
          /\ TakeMshr(Probing(AllocMshr))
          /\ Reserve(AllocWay)
    /\ UNCHANGED <<hit, generation>>

DispatchProbe ==
    /\ Dispatch
    /\ ProbeNeeded
    /\ FreeMshrs # {}
    /\ \/ /\ NotVictim /\ HitWays # {} /\ hit = << >>
          /\ TakeMshr(Probing([NewMshr("REPLAY") EXCEPT
                                 !.way = First(HitWays),
                                 !.data = Row[First(HitWays)].data]))
          /\ Reserve(First(HitWays))
       \/ /\ WritesAround
          /\ TakeMshr(Probing([NewMshr("NEED_BYPASS") EXCEPT
                                 !.bypass = TRUE]))
          /\ UNCHANGED array
       \/ /\ Misses /\ ~WritesAround /\ OpenWays # {}
          /\ TakeMshr(Probing(AllocMshr))
          /\ Reserve(AllocWay)
    /\ UNCHANGED <<hit, generation>>

-----------------------------------------------------------------------------
(* The MSHRs on their own: probe, bus and replay.                            *)

NeedProbe == {i \in MshrIds : l2mshr[i].state = "NEED_PROBE"}

ProbeStart ==
    /\ NeedProbe # {}
    /\ LET i == First(NeedProbe)
       IN  /\ TrackerStart(l2mshr[i].targets, next_probe_id, l2mshr[i].mask,
                           l2mshr[i].probe_line)
           /\ active_probe' = i
           /\ l2mshr' = [l2mshr EXCEPT ![i].state = "PROBE_INFLIGHT"]
    /\ next_probe_id' = (next_probe_id + 1) % ProbeIds
    /\ UNCHANGED <<endpoint, probe_error, cmds, lookup, hit, array, next_way,
                   responses, bus, mem, reservation, generation,
                   directoryVars, privateVars>>

\* coherence_probe_completion: the directory entry becomes the MSHR's line, or
\* its snapshot without the revoked sharers, and the MSHR goes on.
ProbeComplete ==
    LET m == l2mshr[active_probe]
    IN  /\ TrackerDone
        /\ IF m.coh_action = "ALLOCATE"
           THEN DirectoryAllocateFor(m.line, m.entry, m.add_i,
                                     m.add_d \ m.clear_d)
           ELSE DirectoryOverwrite(m.line, m.entry, m.add_i,
                                   m.add_d \ m.clear_d)
        /\ l2mshr' = [l2mshr EXCEPT ![active_probe].state = m.post]
        /\ UNCHANGED <<endpoint, probe_error, cmds, lookup, hit, array,
                       next_way, responses, bus, mem, reservation, generation,
                       next_probe_id, active_probe, privateVars>>

\* bus_request_need and the state once its request has been sent.
BusActions == {"WB", "FILL", "BYPASS"}

NeedState(a) ==
    CASE a = "WB" -> "NEED_WB" [] a = "FILL" -> "NEED_FILL"
      [] OTHER -> "NEED_BYPASS"

InflightState(a) ==
    CASE a = "WB" -> "WB_INFLIGHT" [] a = "FILL" -> "FILL_INFLIGHT"
      [] OTHER -> "BYPASS_INFLIGHT"

\* bus_request_fire
BusRequest(i) ==
    /\ Len(bus) < MSHR_ENTRIES
    /\ \E a \in BusActions :
          /\ l2mshr[i].state = NeedState(a)
          /\ bus' = Append(bus, [mshr |-> i, action |-> a])
          /\ l2mshr' = [l2mshr EXCEPT ![i].state = InflightState(a)]
    /\ UNCHANGED <<cmds, lookup, hit, array, next_way, responses, mem,
                   reservation, generation, next_probe_id, active_probe,
                   directoryVars, probeVars, privateVars>>

\* The access of the backing memory, in request order: a writeback of the
\* victim, a read of the line, or the bypass of the first waiter.
BusLine(m, a) == IF a = "WB" THEN m.victim ELSE m.line

MemAccess(m, a, error) ==
    /\ error = (BusLine(m, a) \in BadLines)
    /\ mem' = IF error THEN mem
              ELSE IF a = "WB" THEN [mem EXCEPT ![m.victim] = m.vdata]
              ELSE IF a = "BYPASS" /\ OpWrites(Head(m.waiters).op)
              THEN [mem EXCEPT ![m.line] = Head(m.waiters).data]
              ELSE mem

\* Mutant: the replacement pointer does not wrap.
NextWayNoWrap(w) == w + 1

\* replace_q after the fill of way w.
NextWay(w) == IF w = L2_WAYS - 1 THEN 0 ELSE w + 1

\* bus_response_fire: an error ends the MSHR and leaves the way as it was.  A
\* written-back way is empty until the fill has written it.
BusResponse ==
    /\ bus # << >>
    /\ bus' = Tail(bus)
    /\ LET i == Head(bus).mshr
           action == Head(bus).action
           m == l2mshr[i]
           s == L2SetOf[m.line]
       IN  \E error \in BOOLEAN :
             /\ MemAccess(m, action, error)
             /\ l2mshr' = [l2mshr EXCEPT ![i] =
                  IF error THEN [m EXCEPT !.state = "ERROR"]
                  ELSE IF action = "WB" THEN [m EXCEPT !.state = "NEED_FILL"]
                  ELSE [m EXCEPT !.state = "REPLAY", !.data = mem[m.line]]]
             /\ array' = IF error \/ action = "BYPASS" THEN array
                ELSE [array EXCEPT ![s][m.way] =
                        IF action = "WB"
                        THEN [@ EXCEPT !.valid = FALSE, !.dirty = FALSE]
                        ELSE [@ EXCEPT !.valid = TRUE, !.dirty = FALSE,
                                       !.line = m.line, !.data = mem[m.line],
                                       !.generation = m.generation]]
             /\ next_way' = IF error \/ action # "FILL" THEN next_way
                ELSE [next_way EXCEPT ![s] = NextWay(m.way)]
    /\ UNCHANGED <<cmds, lookup, hit, responses, reservation, generation,
                   next_probe_id, active_probe, directoryVars, probeVars,
                   privateVars>>

\* An LR reserves its line when its response is queued.
ReservationAtEnqueue(r) ==
    IF r.cmd.op = "LR" /\ ~r.error
    THEN [reservation EXCEPT ![r.cmd.hart] = r.cmd.line]
    ELSE reservation

\* response_enqueue
Enqueue(r) ==
    /\ Len(responses) < RESPONSE_ENTRIES
    /\ responses' = Append(responses, r)
    /\ reservation' = ReservationAtEnqueue(r)

HitEnqueue ==
    /\ hit # << >>
    /\ Enqueue(Head(hit))
    /\ hit' = << >>
    /\ UNCHANGED <<cmds, lookup, l2mshr, array, next_way, bus, mem,
                   generation, next_probe_id, active_probe, directoryVars,
                   probeVars, privateVars>>

\* replay_candidate_found_r
ReplayReady(m) == m.state \in {"REPLAY", "ERROR"}

ReplayError(m) == m.state = "ERROR"

\* replay_needs_sram_write: a cached write goes to the array as well.
ReplayWrites(m) ==
    ~ReplayError(m) /\ ~m.bypass /\ OpWrites(Head(m.waiters).op)

\* What an MSHR's data is once its first waiter has been replayed.
ReplayData(m) == IF ReplayWrites(m) THEN Head(m.waiters).data ELSE m.data

\* The response to the first waiter of an MSHR.
ReplayResponse(m) ==
    LET waiter == Head(m.waiters)
    IN  [cmd |-> waiter,
         data |-> IF IsRead(waiter) /\ ~ReplayError(m) THEN m.data
                  ELSE InitValue,
         error |-> ReplayError(m),
         sc_success |-> waiter.op = "SC" /\ ~ReplayError(m)]

\* replay_enqueue: the first waiter is answered; the last one releases the
\* MSHR and its way.
Replay(i) ==
    LET m == l2mshr[i]
        final == Len(m.waiters) = 1
        way == array[L2SetOf[m.line]][m.way]
    IN  /\ ReplayReady(m)
        /\ hit = << >>
        /\ Enqueue(ReplayResponse(m))
        /\ array' = IF m.bypass THEN array
             ELSE [array EXCEPT ![L2SetOf[m.line]][m.way] =
                     [way EXCEPT !.data = IF ReplayWrites(m)
                                          THEN ReplayData(m) ELSE @,
                                 !.dirty = @ \/ ReplayWrites(m),
                                 !.reserved = @ /\ ~final]]
        /\ l2mshr' = [l2mshr EXCEPT ![i] =
             IF final THEN FreeL2Mshr
             ELSE [m EXCEPT !.waiters = Tail(@), !.data = ReplayData(m)]]
        /\ UNCHANGED <<cmds, lookup, hit, next_way, bus, mem, generation,
                       next_probe_id, active_probe, directoryVars, probeVars,
                       privateVars>>

\* response_dequeue, and what the requesting cache does with the answer.
Respond ==
    /\ responses # << >>
    /\ LET r == Head(responses) IN Response(r.cmd, r.error, r.data)
    /\ responses' = Tail(responses)
    /\ UNCHANGED <<cmds, lookup, hit, l2mshr, array, next_way, bus, mem,
                   reservation, generation, next_probe_id, active_probe,
                   directoryVars, probeVars>>

-----------------------------------------------------------------------------
(* The system.                                                               *)

InvalidateL1D(h) ==
    /\ EndpointInvalidated(h)
    /\ SnoopInvalidate(h, endpoint[h].line)
    /\ UNCHANGED <<tracker, probe_error, directoryVars, l2Vars>>

L1DStep(h) ==
    /\ L1DAccess(h, endpoint[h].invalidate)
    /\ UNCHANGED <<directoryVars, probeVars, l2Vars>>

L1IStep(h) ==
    /\ L1IAccess(h)
    /\ UNCHANGED <<directoryVars, probeVars, l2Vars>>

ProbeStep(h) ==
    /\ ProbeIssue(h) \/ ProbeAck(h)
    /\ UNCHANGED <<directoryVars, privateVars, l2Vars>>

Lookup ==
    \/ DispatchImmediate
    \/ DispatchBypass
    \/ DispatchMerge
    \/ DispatchVictimHit
    \/ DispatchHit
    \/ DispatchWriteAround
    \/ DispatchAlloc
    \/ DispatchProbe

L2Step ==
    \/ \E n \in 1 .. COMMAND_ENTRIES : WriteBeat(n)
    \/ Capture
    \/ Lookup
    \/ ProbeStart
    \/ ProbeComplete
    \/ \E i \in MshrIds : BusRequest(i) \/ Replay(i)
    \/ BusResponse
    \/ HitEnqueue
    \/ Respond

Next ==
    \/ L2Step
    \/ \E h \in Harts :
          \/ Send(h)
          \/ ProbeStep(h)
          \/ InvalidateL1D(h)
          \/ L1DStep(h)
          \/ L1IStep(h)

Spec == Init /\ [][Next]_vars

\* Every stage of the L2 is clocked, the memory answers what it was asked, and
\* a requester takes its responses.  A replay shares the response port with
\* the hit stage and loses to it, so it is only promised to a replay that
\* stays possible.
Fairness ==
    /\ \A n \in 1 .. COMMAND_ENTRIES : WF_vars(WriteBeat(n))
    /\ WF_vars(Capture) /\ WF_vars(Lookup)
    /\ WF_vars(ProbeStart) /\ WF_vars(ProbeComplete)
    /\ \A i \in MshrIds : WF_vars(BusRequest(i)) /\ WF_vars(Replay(i))
    /\ WF_vars(BusResponse) /\ WF_vars(HitEnqueue) /\ WF_vars(Respond)
    /\ \A h \in Harts : /\ WF_vars(ProbeStep(h))
                        /\ WF_vars(InvalidateL1D(h))

FairSpec == Spec /\ Fairness

-----------------------------------------------------------------------------
(* Properties.                                                               *)

\* Every D-cache copy, also one that a completed miss is about to install, is
\* recorded in the directory ("a directory miss means no private cache can
\* legally retain that line", doc/integration/icx-coherent-protocol.md),
\* although a fill is recorded at its dispatch and installed much later.
CopiesTracked == \A h \in Harts, l \in Lines : HoldsD(h, l) => RecordedD(h, l)

ResidentWays(l) ==
    {w \in L2Ways : array[L2SetOf[l]][w].valid /\ array[L2SetOf[l]][w].line = l}

\* The one current value of a line: a dirty way is ahead of the memory.
Current(l) ==
    LET dirty == {w \in ResidentWays(l) : array[L2SetOf[l]][w].dirty}
    IN  IF dirty = {} THEN mem[l] ELSE array[L2SetOf[l]][First(dirty)].data

\* A line that requests can hit is in one way, and a clean way agrees with the
\* memory: no refill, bypass or writeback leaves an older value to be hit
\* later (l2_native.v:922-1000, 1972-2053).
ArrayCoherent ==
    \A l \in Lines :
        LET open == {w \in ResidentWays(l) : ~array[L2SetOf[l]][w].reserved}
        IN  /\ Cardinality(open) <= 1
            /\ \A w \in open : array[L2SetOf[l]][w].data = Current(l)

\* A resident D-cache line has the current value, or that of the hart's own
\* store that the L2 has not answered yet.
CleanCopies ==
    \A h \in Harts, l \in Lines :
        dcache[h][l] # Absent =>
            dcache[h][l] = IF BufferedTo(h, l) = {} THEN Current(l)
                           ELSE StoreOverlay(h, l)

\* An SC that still has its reservation, and one that has passed the
\* reservation check and waits for its MSHR to replay it, finds the value that
\* its LR returned: nothing is written in between.
ScAtomic ==
    /\ \A h \in Harts :
          marked[h].state = "sc_send" /\ reservation[h] = marked[h].line
             => Current(marked[h].line) = lr_value[h]
    /\ \A i \in Busy :
          l2mshr[i].state = "REPLAY" /\ Head(l2mshr[i].waiters).op = "SC"
             => l2mshr[i].data = lr_value[Head(l2mshr[i].waiters).hart]

\* The lookup stage moves on: no command waits for a set lock, an MSHR, a way,
\* a drain or a probe that waits for the command itself, unless it is malformed
\* and its line has sharers that a legal write would probe (l2_native.v:1116).
LookupProgress ==
    lookup # << >> ~> lookup = << >> \/ (Cmd.err # "none" /\ ProbeNeeded)
=============================================================================
