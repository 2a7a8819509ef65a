--------------------------- MODULE L2HomeTracking ---------------------------
(***************************************************************************)
(* The directory of the L2 home records every D-cache copy, although a fill *)
(* is recorded at its dispatch and installed long after, replacements and   *)
(* revocations are in flight in several sets at once, and commands merge    *)
(* into the MSHRs that wait for them.  The hypotheses keep walks and        *)
(* fetches off the lines that the D-caches hold: run l2_tracking shows what *)
(* happens otherwise.                                                       *)
(***************************************************************************)
EXTENDS L2HomeProofs

\* No page table on a D-cached line and no instruction on a reserved one.
LinesApart ==
    /\ PtwLines \cap DLines = {}
    /\ FetchLines \cap AtomicLines = {}

ProbingIds == {i \in MshrIds : l2mshr[i].state \in ProbeStates}

EntryOf(m) == dir[SetOf[m.line]][m.entry]

\* No command can join the MSHR any more.
Settled(m) == m.bypass \/ m.state \in {"REPLAY", "ERROR"}

\* The fills whose answer an L1D will install.
Installing ==
    {r.cmd : r \in {x \in Elements(hit) \cup Elements(responses) :
                       DFill(x.cmd) /\ ~x.error}}

\* A line has one entry, in its set; only fetched lines have I-sharers.
DirectoryInv ==
    \A s \in Sets, w \in Ways : dir[s][w].valid =>
        /\ SetOf[dir[s][w].line] = s
        /\ dir[s][w].i # {} => dir[s][w].line \in FetchLines
        /\ \A x \in Ways :
              dir[s][x].valid /\ dir[s][x].line = dir[s][w].line => x = w

\* A victim probe: entry e of another line will become the MSHR's, with every
\* fill that waits recorded.
ReplaceOK(m, e) ==
    /\ m.private_fill /\ m.probe_line # m.line
    /\ e.d \subseteq m.targets
    /\ "D" \notin m.mask => e.d = {}
    /\ e.i \cup e.d # {}
    /\ m.clear_d = {}
    /\ m.add_i # {} => m.line \in FetchLines
    /\ \A n \in DOMAIN m.waiters :
          DFill(m.waiters[n]) => m.waiters[n].hart \in m.add_d

\* A write probe: entry e of the MSHR's line loses every sharer but, for a
\* write that is not an SC, the writer.
RevokeOK(m, e) ==
    /\ m.probe_line = m.line /\ ~m.private_fill
    /\ Len(m.waiters) = 1 /\ OpWrites(Head(m.waiters).op)
    /\ e.d = m.add_d /\ e.i = m.add_i
    /\ m.targets = m.add_d \ {Head(m.waiters).hart} /\ m.targets # {}
    /\ m.mask = {"D"}
    /\ m.clear_d = IF Head(m.waiters).op = "SC" THEN Harts ELSE m.targets

\* The entry that a probing MSHR was promised is still there.
ProbeEntryOK(m) ==
    /\ EntryOf(m).valid /\ EntryOf(m).line = m.probe_line
    /\ SetOf[m.probe_line] = SetOf[m.line]
    /\ m.coh_action = "ALLOCATE" =>
          /\ ReplaceOK(m, EntryOf(m))
          /\ MatchingWays(m.line) = {}
          /\ VictimWay(SetOf[m.line]) = m.entry
    /\ m.coh_action # "ALLOCATE" => RevokeOK(m, EntryOf(m))

ProbeEntries == \A i \in ProbingIds : ProbeEntryOK(l2mshr[i])

\* Nothing is filled into an L1D that a probe is about to forget.
ProbeApart ==
    /\ \A i, j \in ProbingIds :
          SetOf[l2mshr[i].line] = SetOf[l2mshr[j].line] => i = j
    /\ \A i \in ProbingIds : \A c \in Installing :
          c.line # l2mshr[i].line /\ c.line # l2mshr[i].probe_line
    /\ \A i \in ProbingIds : \A k \in Busy :
          /\ l2mshr[i].coh_action = "ALLOCATE"
          /\ l2mshr[k].cacheable /\ l2mshr[k].line = l2mshr[i].probe_line
          /\ l2mshr[k].line \in DLines
          => ~l2mshr[k].private_fill /\ Settled(l2mshr[k])

\* A target that is neither unissued nor owing an ACK holds nothing, nor does
\* one whose endpoint has been answered.
Revoked ==
    /\ \A i \in ProbingIds :
          l2mshr[i].state = "PROBE_INFLIGHT" =>
              /\ i = active_probe /\ (tracker.busy \/ tracker.done)
              /\ tracker.line = l2mshr[i].probe_line
              /\ tracker.mask = l2mshr[i].mask
              /\ "D" \in l2mshr[i].mask =>
                    \A h \in l2mshr[i].targets :
                        \/ h \in tracker.issue \cup tracker.ack
                        \/ ~HoldsD(h, l2mshr[i].probe_line)
    /\ tracker.done => tracker.issue = {} /\ tracker.ack = {}
    /\ tracker.issue \cap tracker.ack = {}
    /\ \A h \in Harts : ~EndpointReady(h) =>
          /\ tracker.busy /\ h \in tracker.ack
          /\ endpoint[h].line = tracker.line
          /\ ~(endpoint[h].invalidate /\ endpoint[h].response)
          /\ endpoint[h].response /\ "D" \in tracker.mask =>
                ~HoldsD(h, tracker.line)

\* An MSHR of a line without a fill, which a fill may still join, has no
\* sharers recorded.
QuietOK(m) ==
    /\ m.cacheable /\ ~Settled(m) /\ ~m.private_fill /\ m.line \in DLines
    /\ m.state \notin ProbeStates
    => \A w \in MatchingWays(m.line) :
          dir[SetOf[m.line]][w].d = {} /\ dir[SetOf[m.line]][w].i = {}

MergeQuiet == \A k \in Busy : QuietOK(l2mshr[k])

\* The hart holds the line, or a fill that needs no probe any more, or an
\* answer on its way, will give it to it.
Needed(h, l) ==
    \/ HoldsD(h, l)
    \/ \E j \in MshrIds \ ProbingIds :
          /\ l2mshr[j].line = l
          /\ \E n \in DOMAIN l2mshr[j].waiters :
                DFill(l2mshr[j].waiters[n]) /\ l2mshr[j].waiters[n].hart = h
    \/ \E c \in Installing : c.hart = h /\ c.line = l

Tracked == \A h \in Harts, l \in Lines : Needed(h, l) => RecordedD(h, l)

TrackInv ==
    /\ DirectoryInv /\ ProbeEntries /\ ProbeApart /\ Revoked
    /\ MergeQuiet /\ Tracked

-----------------------------------------------------------------------------
(* Writes of the directory.                                                  *)

\* Entry w of the line's set becomes the line's, with sharers i and d.
Written(l, w, i, d) ==
    /\ dir'[SetOf[l]][w].valid /\ dir'[SetOf[l]][w].line = l
    /\ dir'[SetOf[l]][w].i = i /\ dir'[SetOf[l]][w].d = d
    /\ \A s \in Sets, x \in Ways :
          ~(s = SetOf[l] /\ x = w) => dir'[s][x] = dir[s][x]

LEMMA MergeWritten ==
    ASSUME DirectoryTypeOK, NEW l \in Lines, NEW w \in MatchingWays(l),
           NEW addI \in SUBSET Harts, NEW addD \in SUBSET Harts,
           NEW clearD \in SUBSET Harts,
           DirectoryMerge(l, w, addI, addD, clearD)
    PROVE  /\ UNCHANGED replace /\ w \in Ways
           /\ Written(l, w, dir[SetOf[l]][w].i \cup addI,
                            (dir[SetOf[l]][w].d \cup addD) \ clearD)
<1> DEFINE e == dir[SetOf[l]][w]
           f == [e EXCEPT !.i = @ \cup addI, !.d = (@ \cup addD) \ clearD]
<1>1. SetOf[l] \in Sets /\ w \in Ways /\ e.valid /\ e.line = l
  BY GeometryAssumption DEF MatchingWays
<1>2. e \in Entries
  BY <1>1 DEF DirectoryTypeOK
<1>3. /\ f.valid = e.valid /\ f.line = e.line
      /\ f.i = e.i \cup addI /\ f.d = (e.d \cup addD) \ clearD
  BY <1>2 DEF Entries
<1>4. dir' = [dir EXCEPT ![SetOf[l]][w] = f] /\ UNCHANGED replace
  BY DEF DirectoryMerge
<1>5. dir \in [Sets -> [Ways -> Entries]]
  BY DEF DirectoryTypeOK
<1> HIDE DEF f
<1>6. \A s \in Sets, x \in Ways :
         dir'[s][x] = IF s = SetOf[l] /\ x = w THEN f ELSE dir[s][x]
  <2> HIDE DEF e
  <2> QED BY <1>1, <1>4, <1>5
<1>7. f.valid /\ f.line = l
  BY <1>1, <1>3
<1>8. dir'[SetOf[l]][w] = f
  BY <1>1, <1>6
<1>9. \A s \in Sets, x \in Ways :
         ~(s = SetOf[l] /\ x = w) => dir'[s][x] = dir[s][x]
  BY <1>6
<1> HIDE DEF e
<1>10. Written(l, w, e.i \cup addI, (e.d \cup addD) \ clearD)
  BY <1>3, <1>7, <1>8, <1>9 DEF Written
<1> QED
  BY <1>1, <1>4, <1>10 DEF e

LEMMA EntryWritten ==
    ASSUME DirectoryTypeOK, NEW l \in Lines, NEW w \in Ways,
           NEW i \in SUBSET Harts, NEW d \in SUBSET Harts,
           DirectoryAllocateFor(l, w, i, d) \/ DirectoryOverwrite(l, w, i, d)
    PROVE  /\ Written(l, w, i, d)
           /\ \A s \in Sets : s # SetOf[l] => replace'[s] = replace[s]
<1>1. SetOf[l] \in Sets /\ replace \in [Sets -> Ways]
  BY GeometryAssumption DEF DirectoryTypeOK
<1>2. \A s \in Sets : s # SetOf[l] => replace'[s] = replace[s]
  BY <1>1 DEF DirectoryAllocateFor, DirectoryOverwrite
<1>3. \A s \in Sets : \A x \in Ways :
         dir'[s][x] = IF s = SetOf[l] /\ x = w
                      THEN [valid |-> TRUE, line |-> l, i |-> i, d |-> d]
                      ELSE dir[s][x]
  BY EntryWrite
<1> QED
  BY <1>1, <1>2, <1>3 DEF Written

\* An entry is rewritten, or a line without one gets one.
LEMMA WrittenDirectory ==
    ASSUME DirectoryInv, NEW l \in Lines, NEW w \in Ways, NEW i, NEW d,
           Written(l, w, i, d), MatchingWays(l) \subseteq {w},
           i # {} => l \in FetchLines
    PROVE  /\ DirectoryInv'
           /\ MatchingWays(l)' = {w}
           /\ \A x \in Lines \ {l} :
                 /\ MatchingWays(x)' \subseteq MatchingWays(x)
                 /\ \A y \in MatchingWays(x)' :
                       dir'[SetOf[x]][y] = dir[SetOf[x]][y]
           /\ \A h \in d : RecordedD(h, l)'
           /\ \A h \in Harts, x \in Lines : RecordedD(h, x) =>
                 \/ RecordedD(h, x)'
                 \/ /\ dir[SetOf[l]][w].valid /\ dir[SetOf[l]][w].line = x
                    /\ h \in dir[SetOf[l]][w].d /\ ~(x = l /\ h \in d)
<1>1. SetOf \in [Lines -> Sets]
  BY GeometryAssumption
<1>2. /\ dir'[SetOf[l]][w].valid /\ dir'[SetOf[l]][w].line = l
      /\ dir'[SetOf[l]][w].i = i /\ dir'[SetOf[l]][w].d = d
      /\ \A s \in Sets, x \in Ways :
            ~(s = SetOf[l] /\ x = w) => dir'[s][x] = dir[s][x]
  BY DEF Written
<1>3. \A x \in Lines \ {l} :
         /\ MatchingWays(x)' \subseteq MatchingWays(x)
         /\ \A y \in MatchingWays(x)' : dir'[SetOf[x]][y] = dir[SetOf[x]][y]
  BY <1>1, <1>2 DEF MatchingWays
<1>4. MatchingWays(l)' = {w}
  <2>1. \A y : y \in MatchingWays(l)' => y = w
    BY <1>1, <1>2 DEF MatchingWays
  <2>2. w \in MatchingWays(l)'
    BY <1>1, <1>2 DEF MatchingWays
  <2> QED BY <2>1, <2>2
<1>5. DirectoryInv'
  <2> SUFFICES ASSUME NEW s \in Sets, NEW y \in Ways, dir'[s][y].valid
               PROVE  /\ SetOf[dir'[s][y].line] = s
                      /\ dir'[s][y].i # {} => dir'[s][y].line \in FetchLines
                      /\ \A x \in Ways :
                            dir'[s][x].valid
                            /\ dir'[s][x].line = dir'[s][y].line => x = y
    BY DEF DirectoryInv
  <2>1. CASE s = SetOf[l] /\ y = w
    <3>1. \A x \in Ways : dir'[s][x].valid /\ dir'[s][x].line = l => x = w
      BY <1>4, <2>1 DEF MatchingWays
    <3> QED BY <1>2, <2>1, <3>1
  <2>2. CASE ~(s = SetOf[l] /\ y = w)
    <3>1. dir'[s][y] = dir[s][y]
      BY <1>2, <2>2
    <3>2. /\ SetOf[dir[s][y].line] = s
          /\ dir[s][y].i # {} => dir[s][y].line \in FetchLines
          /\ \A x \in Ways :
                dir[s][x].valid /\ dir[s][x].line = dir[s][y].line => x = y
      BY <3>1 DEF DirectoryInv
    <3>3. ASSUME NEW x \in Ways, dir'[s][x].valid,
                 dir'[s][x].line = dir'[s][y].line
          PROVE  x = y
      <4>1. CASE s = SetOf[l] /\ x = w
        <5>1. dir[s][y].line = l
          BY <1>2, <3>1, <3>3, <4>1
        <5>2. y \in MatchingWays(l)
          BY <3>1, <4>1, <5>1 DEF MatchingWays
        <5> QED BY <4>1, <5>2
      <4>2. CASE ~(s = SetOf[l] /\ x = w)
        BY <1>2, <3>1, <3>2, <3>3, <4>2
      <4> QED BY <4>1, <4>2
    <3> QED BY <3>1, <3>2, <3>3
  <2> QED BY <2>1, <2>2
<1>6. \A h \in d : RecordedD(h, l)'
  BY <1>2, <1>4 DEF RecordedD
<1>7. ASSUME NEW h \in Harts, NEW x \in Lines, RecordedD(h, x)
      PROVE  \/ RecordedD(h, x)'
             \/ /\ dir[SetOf[l]][w].valid /\ dir[SetOf[l]][w].line = x
                /\ h \in dir[SetOf[l]][w].d /\ ~(x = l /\ h \in d)
  <2>1. PICK y \in Ways : /\ dir[SetOf[x]][y].valid
                          /\ dir[SetOf[x]][y].line = x
                          /\ h \in dir[SetOf[x]][y].d
    BY <1>7 DEF RecordedD, MatchingWays
  <2>2. CASE SetOf[x] = SetOf[l] /\ y = w
    BY <1>6, <2>1, <2>2
  <2>3. CASE ~(SetOf[x] = SetOf[l] /\ y = w)
    <3>1. dir'[SetOf[x]][y] = dir[SetOf[x]][y]
      BY <1>1, <1>2, <2>3
    <3> QED BY <2>1, <3>1 DEF RecordedD, MatchingWays
  <2> QED BY <2>2, <2>3
<1> QED
  BY <1>3, <1>4, <1>5, <1>6, <1>7


\* Directory set s is left alone ...
SameRow(s) ==
    replace'[s] = replace[s] /\ \A x \in Ways : dir'[s][x] = dir[s][x]

LEMMA RowFrame ==
    ASSUME NEW l \in Lines, SameRow(SetOf[l])
    PROVE  /\ MatchingWays(l)' = MatchingWays(l)
           /\ VictimWay(SetOf[l])' = VictimWay(SetOf[l])
           /\ \A h : RecordedD(h, l)' <=> RecordedD(h, l)
<1> DEFINE s == SetOf[l]
<1>1. /\ replace'[s] = replace[s]
      /\ \A x \in Ways : dir'[s][x] = dir[s][x]
  BY DEF SameRow
<1>2. \A w : w \in MatchingWays(l)' <=> w \in MatchingWays(l)
  BY <1>1 DEF MatchingWays
<1>3. \A w : w \in InvalidWays(s)' <=> w \in InvalidWays(s)
  BY <1>1 DEF InvalidWays
<1>4. MatchingWays(l)' = MatchingWays(l) /\ InvalidWays(s)' = InvalidWays(s)
  <2> HIDE DEF s
  <2> QED BY <1>2, <1>3
<1>5. VictimWay(s)' = VictimWay(s)
  BY <1>1, <1>4 DEF VictimWay
<1>6. \A h : RecordedD(h, l)' <=> RecordedD(h, l)
  <2>1. \A w : w \in MatchingWays(l) => w \in Ways
    BY DEF MatchingWays
  <2> QED BY <1>1, <1>4, <2>1 DEF RecordedD
<1> QED
  BY <1>4, <1>5, <1>6

\* ... and so is what a probe was started for.
SameProbe(m, k) ==
    /\ k.line = m.line
    /\ k.private_fill <=> m.private_fill
    /\ k.cacheable <=> m.cacheable
    /\ k.probe_line = m.probe_line /\ k.targets = m.targets
    /\ k.mask = m.mask /\ k.coh_action = m.coh_action /\ k.entry = m.entry
    /\ k.add_i = m.add_i /\ k.add_d = m.add_d /\ k.clear_d = m.clear_d
    /\ k.waiters = m.waiters

\* The probe itself; what is recorded after it may grow.
SameTarget(m, k) ==
    /\ k.line = m.line /\ k.probe_line = m.probe_line
    /\ k.targets = m.targets /\ k.mask = m.mask
    /\ k.coh_action = m.coh_action

-----------------------------------------------------------------------------
(* The parts of the invariant.                                               *)

LEMMA MshrTyped ==
    ASSUME L2TypeOK, NEW i \in MshrIds
    PROVE  /\ l2mshr[i] \in L2Mshrs /\ l2mshr[i].line \in Lines
           /\ SetOf[l2mshr[i].line] \in Sets /\ l2mshr[i].entry \in Ways
           /\ l2mshr[i].probe_line \in Lines
           /\ SetOf[l2mshr[i].probe_line] \in Sets
           /\ l2mshr[i].targets \in SUBSET Harts
           /\ l2mshr[i].waiters \in Seq(Commands)
<1>1. l2mshr[i] \in L2Mshrs
  BY DEF L2TypeOK
<1> QED
  BY <1>1, GeometryAssumption DEF L2Mshrs

LEMMA EntryKept ==
    ASSUME NEW m, NEW k, m.line \in Lines, m.entry \in Ways,
           ProbeEntryOK(m), SameProbe(m, k), SameRow(SetOf[m.line])
    PROVE  ProbeEntryOK(k)'
<1>1. /\ k.line = m.line /\ k.entry = m.entry /\ k.probe_line = m.probe_line
      /\ k.coh_action = m.coh_action
  BY DEF SameProbe
<1>2. /\ MatchingWays(m.line)' = MatchingWays(m.line)
      /\ VictimWay(SetOf[m.line])' = VictimWay(SetOf[m.line])
      /\ EntryOf(m)' = EntryOf(m)
  BY RowFrame DEF SameRow, EntryOf
<1> DEFINE e == EntryOf(m)
<1>3. /\ e.valid /\ e.line = m.probe_line
      /\ SetOf[m.probe_line] = SetOf[m.line]
      /\ m.coh_action = "ALLOCATE" =>
            /\ ReplaceOK(m, e)
            /\ MatchingWays(m.line) = {}
            /\ VictimWay(SetOf[m.line]) = m.entry
      /\ m.coh_action # "ALLOCATE" => RevokeOK(m, e)
  BY DEF ProbeEntryOK
<1>4. EntryOf(k)' = e
  BY <1>1, <1>2 DEF EntryOf
<1> HIDE DEF e
<1>5. (ReplaceOK(m, e) => ReplaceOK(k, e)) /\ (RevokeOK(m, e) => RevokeOK(k, e))
  BY DEF SameProbe, ReplaceOK, RevokeOK
<1>6. /\ MatchingWays(k.line)' = MatchingWays(m.line)
      /\ VictimWay(SetOf[k.line])' = VictimWay(SetOf[m.line])
  BY <1>1, <1>2
<1> QED
  BY <1>1, <1>3, <1>4, <1>5, <1>6 DEF ProbeEntryOK, ReplaceOK, RevokeOK

LEMMA EntriesKept ==
    ASSUME L2TypeOK, ProbeEntries,
           \A i \in ProbingIds' :
              /\ i \in ProbingIds /\ SameProbe(l2mshr[i], l2mshr'[i])
              /\ SameRow(SetOf[l2mshr[i].line])
    PROVE  ProbeEntries'
<1> SUFFICES ASSUME NEW i \in ProbingIds'
             PROVE  ProbeEntryOK(l2mshr[i])'
  BY DEF ProbeEntries
<1>1. PICK m : m = l2mshr[i]
  OBVIOUS
<1>2. PICK k : k = l2mshr'[i]
  OBVIOUS
<1>3. i \in MshrIds /\ i \in ProbingIds /\ SameProbe(m, k)
      /\ SameRow(SetOf[m.line])
  BY <1>1, <1>2 DEF ProbingIds
<1>4. m.line \in Lines /\ m.entry \in Ways
  BY <1>1, <1>3, MshrTyped
<1>5. ProbeEntryOK(m)
  BY <1>1, <1>3 DEF ProbeEntries
<1>6. ProbeEntryOK(k)'
  BY <1>3, <1>4, <1>5, EntryKept
<1> QED
  BY <1>2, <1>6 DEF ProbeEntryOK, EntryOf


\* A command that waits in an MSHR, or whose answer is on its way.
LEMMA WaiterFacts ==
    ASSUME L2Inv, NEW i \in MshrIds, NEW n \in DOMAIN l2mshr[i].waiters
    PROVE  LET w == l2mshr[i].waiters[n]
           IN  /\ w \in Commands /\ Legal(w) /\ Waits(w)
               /\ w.line = l2mshr[i].line /\ i \in Busy
               /\ w.cacheable <=> l2mshr[i].cacheable
               /\ DFill(w) => /\ l2mshr[i].private_fill /\ ~l2mshr[i].bypass
                              /\ l2mshr[i].cacheable
                              /\ l2mshr[i].line \in DLines
<1>1. L2TypeOK /\ ServiceInv /\ MshrShape(l2mshr[i])
  BY DEF L2Inv, TypeOK, MshrInv
<1>2. l2mshr[i].waiters \in Seq(Commands)
  BY <1>1, MshrTyped
<1> DEFINE w == l2mshr[i].waiters[n]
<1>3. w \in Commands
  BY <1>2
<1>4. MshrAt(i) \in Spots /\ Pending[MshrAt(i)] = l2mshr[i].waiters
  BY PendingAt, SpotsApart
<1>5. w \in Contents(Spots, Pending)
  BY <1>3, <1>4 DEF Contents
<1>6. Legal(w) /\ Waits(w)
  BY <1>1, <1>5 DEF ServiceInv
<1>7. i \in Busy
  BY <1>1, <1>2 DEF MshrShape, Busy
<1>8. /\ w.line = l2mshr[i].line
      /\ w.cacheable <=> l2mshr[i].cacheable
      /\ PrivateFill(w) => l2mshr[i].private_fill
      /\ l2mshr[i].private_fill => ~l2mshr[i].bypass
  BY <1>1 DEF MshrShape, WaitersOK
<1> HIDE DEF w
<1>9. DFill(w) => PrivateFill(w) /\ w.line \in DLines /\ w.cacheable
  BY <1>6 DEF DFill, PrivateFill, IsRead, Legal
<1> QED
  BY <1>3, <1>6, <1>7, <1>8, <1>9 DEF w

LEMMA InstallingFacts ==
    ASSUME L2Inv, NEW c \in Installing
    PROVE  c \in Commands /\ Legal(c) /\ Waits(c) /\ DFill(c)
<1>1. L2TypeOK /\ ServiceInv
  BY DEF L2Inv, TypeOK
<1>2. PICK r \in Elements(hit) \cup Elements(responses) : r.cmd = c /\ DFill(c)
  BY DEF Installing
<1>3. c \in Contents(Spots, Pending)
  <2>1. CASE r \in Elements(hit)
    <3>1. PICK n \in DOMAIN hit : r = hit[n]
      BY <2>1 DEF Elements
    <3>2. Pending[HitAt][n] = c /\ n \in DOMAIN Pending[HitAt]
          /\ hit[n] \in Responses
      BY <1>1, <1>2, <3>1, PendingAt DEF CommandsOf, L2TypeOK
    <3> QED BY <1>2, <3>1, <3>2, SpotsApart DEF Contents, Responses
  <2>2. CASE r \in Elements(responses)
    <3>1. PICK n \in DOMAIN responses : r = responses[n]
      BY <2>2 DEF Elements
    <3>2. Pending[ResponsesAt][n] = c /\ n \in DOMAIN Pending[ResponsesAt]
          /\ responses[n] \in Responses
      BY <1>1, <1>2, <3>1, PendingAt DEF CommandsOf, L2TypeOK
    <3> QED BY <1>2, <3>1, <3>2, SpotsApart DEF Contents, Responses
  <2> QED BY <1>2, <2>1, <2>2
<1> QED
  BY <1>1, <1>2, <1>3 DEF ServiceInv, Contents

\* A probing MSHR is busy, for a cacheable line.
LEMMA ProbingFacts ==
    ASSUME L2Inv, NEW i \in ProbingIds
    PROVE  /\ i \in MshrIds /\ i \in Busy /\ l2mshr[i].cacheable
           /\ l2mshr[i].state \in ProbeStates
           /\ \A j \in Busy : l2mshr[j].cacheable
                              /\ l2mshr[j].line = l2mshr[i].line => j = i
<1>1. i \in MshrIds /\ i \in Busy /\ l2mshr[i].state \in ProbeStates
  BY DEF ProbingIds, Busy, ProbeStates
<1>2. MshrShape(l2mshr[i]) /\ MshrInv
  BY <1>1 DEF L2Inv, MshrInv
<1>3. l2mshr[i].cacheable
  BY <1>1, <1>2 DEF MshrShape
<1> QED
  BY <1>1, <1>2, <1>3 DEF MshrInv

\* A fill that waits in an MSHR is not about a line of a probe.
LEMMA WaitingApart ==
    ASSUME L2Inv, TrackInv, NEW j \in MshrIds \ ProbingIds,
           NEW n \in DOMAIN l2mshr[j].waiters, DFill(l2mshr[j].waiters[n]),
           NEW i \in ProbingIds
    PROVE  l2mshr[j].line # l2mshr[i].line
           /\ l2mshr[j].line # l2mshr[i].probe_line
<1>1. /\ j \in Busy /\ l2mshr[j].private_fill /\ l2mshr[j].cacheable
      /\ l2mshr[j].line \in DLines
  BY WaiterFacts
<1>2. l2mshr[j].line # l2mshr[i].line
  BY <1>1, ProbingFacts
<1>3. CASE l2mshr[i].coh_action = "ALLOCATE"
  BY <1>1, <1>2, <1>3 DEF TrackInv, ProbeApart
<1>4. CASE l2mshr[i].coh_action # "ALLOCATE"
  BY <1>2, <1>4 DEF TrackInv, ProbeEntries, ProbeEntryOK, RevokeOK
<1> QED
  BY <1>2, <1>3, <1>4

\* An MSHR that does not probe goes on.
GoesOn(m, k) ==
    /\ k.line = m.line
    /\ k.cacheable <=> m.cacheable
    /\ k.private_fill <=> m.private_fill
    /\ Settled(m) => Settled(k)

\* No MSHR turns to a line that a replacement is about to forget.
LEMMA ApartKept ==
    ASSUME L2Inv, TrackInv,
           \A i \in ProbingIds' :
              i \in ProbingIds /\ SameTarget(l2mshr[i], l2mshr'[i]),
           \A k \in Busy' :
              \/ k \in ProbingIds'
              \/ k \in Busy /\ GoesOn(l2mshr[k], l2mshr'[k])
              \/ \A i \in ProbingIds' :
                    /\ l2mshr[i].coh_action = "ALLOCATE"
                    /\ l2mshr'[k].cacheable /\ l2mshr'[k].line \in DLines
                    => l2mshr'[k].line # l2mshr[i].probe_line,
           \A c \in Installing' :
              \/ c \in Installing
              \/ \E j \in MshrIds \ ProbingIds :
                    \E n \in DOMAIN l2mshr[j].waiters :
                        c = l2mshr[j].waiters[n] /\ DFill(c)
              \/ \A i \in ProbingIds' : SetOf[l2mshr[i].line] # SetOf[c.line]
    PROVE  ProbeApart'
<1>0. ProbeApart /\ ProbeEntries
  BY DEF TrackInv
<1>1. \A i \in ProbingIds' : /\ i \in ProbingIds
                             /\ l2mshr'[i].line = l2mshr[i].line
                             /\ l2mshr'[i].probe_line = l2mshr[i].probe_line
                             /\ l2mshr'[i].coh_action = l2mshr[i].coh_action
  BY DEF SameTarget
<1>2. \A i \in ProbingIds : SetOf[l2mshr[i].probe_line] = SetOf[l2mshr[i].line]
  BY <1>0 DEF ProbeEntries, ProbeEntryOK
<1>3. \A i, j \in ProbingIds' :
         SetOf[l2mshr'[i].line] = SetOf[l2mshr'[j].line] => i = j
  BY <1>0, <1>1 DEF ProbeApart
<1>4. ASSUME NEW i \in ProbingIds', NEW c \in Installing'
      PROVE  c.line # l2mshr'[i].line /\ c.line # l2mshr'[i].probe_line
  <2>1. i \in ProbingIds
    BY <1>1
  <2>2. CASE c \in Installing
    BY <1>0, <1>1, <2>1, <2>2 DEF ProbeApart
  <2>3. ASSUME NEW j \in MshrIds \ ProbingIds,
               NEW n \in DOMAIN l2mshr[j].waiters,
               c = l2mshr[j].waiters[n], DFill(c)
        PROVE  c.line # l2mshr[i].line /\ c.line # l2mshr[i].probe_line
    <3>1. c.line = l2mshr[j].line
      BY <2>3, WaiterFacts
    <3> QED BY <2>1, <2>3, <3>1, WaitingApart
  <2>4. CASE SetOf[l2mshr[i].line] # SetOf[c.line]
    BY <1>2, <2>1, <2>4, <1>1
  <2> QED BY <1>1, <2>1, <2>2, <2>3, <2>4
<1>5. ASSUME NEW i \in ProbingIds', NEW k \in Busy',
             l2mshr'[i].coh_action = "ALLOCATE",
             l2mshr'[k].cacheable, l2mshr'[k].line = l2mshr'[i].probe_line,
             l2mshr'[k].line \in DLines
      PROVE  ~l2mshr'[k].private_fill /\ Settled(l2mshr[k])'
  <2>1. /\ i \in ProbingIds /\ l2mshr[i].coh_action = "ALLOCATE"
        /\ l2mshr[i].probe_line = l2mshr'[k].line
        /\ SetOf[l2mshr'[k].line] = SetOf[l2mshr[i].line]
    BY <1>1, <1>2, <1>5
  <2>2. CASE k \in ProbingIds'
    <3>1. SetOf[l2mshr'[k].line] = SetOf[l2mshr'[i].line] => k = i
      BY <1>3, <2>2
    <3>2. k = i
      BY <1>1, <2>1, <3>1
    <3>3. l2mshr[i].probe_line # l2mshr[i].line
      BY <1>0, <2>1 DEF ProbeEntries, ProbeEntryOK, ReplaceOK
    <3> QED BY <1>1, <2>1, <3>2, <3>3
  <2>3. CASE k \in Busy /\ GoesOn(l2mshr[k], l2mshr'[k])
    <3>1. /\ l2mshr[k].cacheable /\ l2mshr[k].line = l2mshr[i].probe_line
          /\ l2mshr[k].line \in DLines
          /\ l2mshr'[k].private_fill <=> l2mshr[k].private_fill
          /\ Settled(l2mshr[k]) => Settled(l2mshr'[k])
      BY <1>5, <2>1, <2>3 DEF GoesOn
    <3>2. ~l2mshr[k].private_fill /\ Settled(l2mshr[k])
      BY <1>0, <2>1, <2>3, <3>1 DEF ProbeApart
    <3> QED BY <3>1, <3>2 DEF Settled
  <2> QED BY <1>5, <2>1, <2>2, <2>3
<1> QED
  BY <1>3, <1>4, <1>5 DEF ProbeApart

\* While the tracker rests, nothing gets hold of its line again.
LEMMA RevokedKept ==
    ASSUME L2Inv, Revoked, UNCHANGED <<tracker, endpoint, active_probe>>,
           \A h \in Harts : HoldsD(h, tracker.line)' => HoldsD(h, tracker.line),
           \A i \in ProbingIds' :
              l2mshr'[i].state = "PROBE_INFLIGHT" =>
                  /\ i \in ProbingIds /\ l2mshr[i].state = "PROBE_INFLIGHT"
                  /\ SameTarget(l2mshr[i], l2mshr'[i])
    PROVE  Revoked'
<1>1. tracker.line \in Lines
  BY DEF L2Inv, TypeOK, ProbeTypeOK, TrackerRegisters
<1>2. ASSUME NEW i \in ProbingIds', l2mshr'[i].state = "PROBE_INFLIGHT"
      PROVE  /\ i = active_probe /\ (tracker.busy \/ tracker.done)
             /\ tracker.line = l2mshr'[i].probe_line
             /\ tracker.mask = l2mshr'[i].mask
             /\ "D" \in l2mshr'[i].mask =>
                   \A h \in l2mshr'[i].targets :
                       \/ h \in tracker.issue \cup tracker.ack
                       \/ ~HoldsD(h, tracker.line)'
  <2>1. /\ i \in ProbingIds /\ l2mshr[i].state = "PROBE_INFLIGHT"
        /\ l2mshr'[i].probe_line = l2mshr[i].probe_line
        /\ l2mshr'[i].mask = l2mshr[i].mask
        /\ l2mshr'[i].targets = l2mshr[i].targets
    BY <1>2 DEF SameTarget
  <2>2. l2mshr[i].targets \subseteq Harts
    BY <2>1, MshrTyped DEF L2Inv, TypeOK, ProbingIds
  <2> QED BY <1>1, <2>1, <2>2 DEF Revoked
<1>3. \A h \in Harts : ~EndpointReady(h)' =>
          /\ tracker.busy /\ h \in tracker.ack
          /\ endpoint[h].line = tracker.line
          /\ ~(endpoint[h].invalidate /\ endpoint[h].response)
          /\ endpoint[h].response /\ "D" \in tracker.mask =>
                ~HoldsD(h, tracker.line)'
  <2>1. \A h \in Harts : EndpointReady(h)' <=> EndpointReady(h)
    BY DEF EndpointReady
  <2> QED BY <1>1, <2>1 DEF Revoked
<1>4. \A i \in ProbingIds' : l2mshr'[i].state = "PROBE_INFLIGHT" =>
         l2mshr'[i].probe_line = tracker.line
  BY <1>2
<1> QED
  BY <1>2, <1>3 DEF Revoked, HoldsD

\* What is needed stays recorded.
LEMMA TrackedKept ==
    ASSUME Tracked,
           \A h \in Harts, l \in Lines :
              Needed(h, l)' => Needed(h, l) \/ RecordedD(h, l)',
           \A h \in Harts, l \in Lines :
              Needed(h, l) /\ RecordedD(h, l) => RecordedD(h, l)'
    PROVE  Tracked'
  BY DEF Tracked

\* A copy, a waiting fill and an answer are needed if they were, or recorded.
LEMMA NeededStep ==
    ASSUME \A h \in Harts, l \in Lines : HoldsD(h, l)' =>
              Needed(h, l) \/ RecordedD(h, l)',
           \A h \in Harts, l \in Lines :
              \A j \in MshrIds \ ProbingIds' :
                 \A n \in DOMAIN l2mshr'[j].waiters :
                    /\ l2mshr'[j].line = l /\ DFill(l2mshr'[j].waiters[n])
                    /\ l2mshr'[j].waiters[n].hart = h
                    => Needed(h, l) \/ RecordedD(h, l)',
           \A h \in Harts, l \in Lines :
              \A c \in Installing' : c.hart = h /\ c.line = l =>
                  Needed(h, l) \/ RecordedD(h, l)'
    PROVE  \A h \in Harts, l \in Lines :
              Needed(h, l)' => Needed(h, l) \/ RecordedD(h, l)'
<1> SUFFICES ASSUME NEW h \in Harts, NEW l \in Lines, Needed(h, l)'
             PROVE  Needed(h, l) \/ RecordedD(h, l)'
  OBVIOUS
<1>1. \/ HoldsD(h, l)'
      \/ \E j \in MshrIds \ ProbingIds' :
            /\ l2mshr'[j].line = l
            /\ \E n \in DOMAIN l2mshr'[j].waiters :
                  DFill(l2mshr'[j].waiters[n])
                  /\ l2mshr'[j].waiters[n].hart = h
      \/ \E c \in Installing' : c.hart = h /\ c.line = l
  BY DEF Needed
<1> QED
  BY <1>1

\* A fill that waits without a probe, or whose answer is on its way, is needed.
LEMMA NeededFills ==
    ASSUME L2Inv
    PROVE  /\ \A j \in MshrIds \ ProbingIds :
                 \A n \in DOMAIN l2mshr[j].waiters :
                    DFill(l2mshr[j].waiters[n]) =>
                        Needed(l2mshr[j].waiters[n].hart, l2mshr[j].line)
           /\ \A c \in Installing : Needed(c.hart, c.line)
  BY DEF Needed

\* Steps that leave the directory and the probes' MSHRs alone: the other MSHRs
\* go on, answers leave them or go on, copies come from answers.
LEMMA QuietKeeps ==
    ASSUME L2Inv, L2Inv', TrackInv, Revoked', UNCHANGED <<dir, replace>>,
           \A h \in Harts, l \in Lines : HoldsD(h, l)' => Needed(h, l),
           \A i \in MshrIds : i \in ProbingIds \/ i \in ProbingIds' =>
              /\ i \in ProbingIds /\ i \in ProbingIds'
              /\ SameProbe(l2mshr[i], l2mshr'[i]),
           \A k \in Busy' : k \in Busy /\ GoesOn(l2mshr[k], l2mshr'[k]),
           \A j \in MshrIds : \A n \in DOMAIN l2mshr'[j].waiters :
              \E m \in DOMAIN l2mshr[j].waiters :
                 l2mshr'[j].waiters[n] = l2mshr[j].waiters[m],
           \A c \in Installing' :
              \/ c \in Installing
              \/ \E j \in MshrIds \ ProbingIds :
                    \E n \in DOMAIN l2mshr[j].waiters :
                        c = l2mshr[j].waiters[n] /\ DFill(c)
    PROVE  TrackInv'
<1>1. /\ L2TypeOK /\ DirectoryInv /\ ProbeEntries /\ ProbeApart /\ Revoked
      /\ MergeQuiet /\ Tracked
  BY DEF TrackInv, L2Inv, TypeOK
<1>2. /\ \A i \in ProbingIds' : /\ i \in ProbingIds /\ i \in MshrIds
                                /\ SameProbe(l2mshr[i], l2mshr'[i])
                                /\ SameTarget(l2mshr[i], l2mshr'[i])
      /\ \A i \in MshrIds : i \in ProbingIds => i \in ProbingIds'
  BY DEF ProbingIds, SameProbe, SameTarget
<1>3. \A s : SameRow(s)
  BY DEF SameRow
<1>4. DirectoryInv'
  BY <1>1 DEF DirectoryInv
<1>5. ProbeEntries'
  BY <1>1, <1>2, <1>3, EntriesKept
<1>6. ProbeApart'
  BY <1>2, ApartKept
<1>7. Revoked'
  OBVIOUS
<1>8. \A l \in Lines : /\ MatchingWays(l)' = MatchingWays(l)
                       /\ \A h : RecordedD(h, l)' <=> RecordedD(h, l)
  BY <1>3, RowFrame
<1>9. MergeQuiet'
  <2> SUFFICES ASSUME NEW k \in Busy' PROVE QuietOK(l2mshr[k])'
    BY DEF MergeQuiet
  <2>1. k \in Busy /\ k \in MshrIds /\ GoesOn(l2mshr[k], l2mshr'[k])
    BY DEF Busy
  <2>2. l2mshr[k].state \in ProbeStates => l2mshr'[k].state \in ProbeStates
    BY <2>1 DEF ProbingIds
  <2>3. PICK m : m = l2mshr[k]
    OBVIOUS
  <2>4. PICK n : n = l2mshr'[k]
    OBVIOUS
  <2>5. QuietOK(m) /\ m.line \in Lines /\ n.line = m.line
    BY <1>1, <2>1, <2>3, <2>4, MshrTyped DEF MergeQuiet, GoesOn
  <2>6. QuietOK(n)'
    <3>1. MatchingWays(n.line)' = MatchingWays(m.line)
      BY <1>8, <2>5
    <3> QED BY <2>1, <2>2, <2>3, <2>4, <2>5, <3>1 DEF QuietOK, GoesOn
  <2> QED BY <2>4, <2>6 DEF QuietOK
<1>10. Tracked'
  <2>1. \A h \in Harts, l \in Lines : HoldsD(h, l)' => Needed(h, l)
    OBVIOUS
  <2>2. ASSUME NEW j \in MshrIds \ ProbingIds',
               NEW n \in DOMAIN l2mshr'[j].waiters,
               DFill(l2mshr'[j].waiters[n])
        PROVE  Needed(l2mshr'[j].waiters[n].hart, l2mshr'[j].line)
    <3>1. PICK m \in DOMAIN l2mshr[j].waiters :
             l2mshr'[j].waiters[n] = l2mshr[j].waiters[m]
      OBVIOUS
    <3>2. j \in MshrIds \ ProbingIds /\ j \in Busy
      BY <1>2, <3>1, WaiterFacts
    <3>3. Needed(l2mshr[j].waiters[m].hart, l2mshr[j].line)
      BY <2>2, <3>1, <3>2, NeededFills
    <3>4. l2mshr'[j].line = l2mshr[j].line
      <4>1. CASE l2mshr'[j].state = "IDLE"
        <5>1. l2mshr'[j].waiters = << >>
          BY <4>1 DEF L2Inv, MshrInv, MshrShape
        <5> QED BY <5>1
      <4>2. CASE l2mshr'[j].state # "IDLE"
        BY <4>2 DEF Busy, GoesOn
      <4> QED BY <4>1, <4>2
    <3> QED BY <3>1, <3>3, <3>4
  <2>3. ASSUME NEW c \in Installing' PROVE Needed(c.hart, c.line)
    <3>1. ASSUME NEW j \in MshrIds \ ProbingIds,
                 NEW n \in DOMAIN l2mshr[j].waiters,
                 c = l2mshr[j].waiters[n], DFill(c)
          PROVE  Needed(c.hart, c.line)
      BY <3>1, WaiterFacts, NeededFills
    <3> QED BY <2>3, <3>1, NeededFills
  <2>4. \A h \in Harts, l \in Lines :
           Needed(h, l)' => Needed(h, l) \/ RecordedD(h, l)'
    BY <2>1, <2>2, <2>3, NeededStep
  <2> QED BY <1>1, <1>8, <2>4, TrackedKept
<1> QED
  BY <1>4, <1>5, <1>6, <1>7, <1>9, <1>10 DEF TrackInv



\* Steps of the requesters, the private caches and the endpoints.
LEMMA IdleKeeps ==
    ASSUME L2Inv, L2Inv', TrackInv, Revoked',
           UNCHANGED <<dir, replace, l2mshr, hit, responses>>,
           \A h \in Harts, l \in Lines : HoldsD(h, l)' => HoldsD(h, l)
    PROVE  TrackInv'
<1>1. \A h \in Harts, l \in Lines : HoldsD(h, l)' => Needed(h, l)
  BY DEF Needed
<1>2. \A i \in MshrIds : i \in ProbingIds \/ i \in ProbingIds' =>
         /\ i \in ProbingIds /\ i \in ProbingIds'
         /\ SameProbe(l2mshr[i], l2mshr'[i])
  BY DEF ProbingIds, SameProbe
<1>3. \A k \in Busy' : k \in Busy /\ GoesOn(l2mshr[k], l2mshr'[k])
  BY DEF Busy, GoesOn
<1>4. \A c \in Installing' : c \in Installing
  BY DEF Installing
<1> QED
  BY <1>1, <1>2, <1>3, <1>4, QuietKeeps

LEMMA DropsKeep ==
    ASSUME L2Inv, L2Inv', TrackInv,
           UNCHANGED <<dir, replace, l2mshr, hit, responses, tracker,
                       endpoint, active_probe>>,
           \A h \in Harts, l \in Lines : HoldsD(h, l)' => HoldsD(h, l)
    PROVE  TrackInv'
<1>1. \A i \in ProbingIds' :
         l2mshr'[i].state = "PROBE_INFLIGHT" =>
             /\ i \in ProbingIds /\ l2mshr[i].state = "PROBE_INFLIGHT"
             /\ SameTarget(l2mshr[i], l2mshr'[i])
  BY DEF ProbingIds, SameTarget
<1>2. \A h \in Harts : HoldsD(h, tracker.line)' => HoldsD(h, tracker.line)
  BY DEF L2Inv, TypeOK, ProbeTypeOK, TrackerRegisters
<1>3. Revoked'
  BY <1>1, <1>2, RevokedKept DEF TrackInv
<1> QED
  BY <1>3, IdleKeeps

\* A push, a write beat and a capture.
LEMMA QueuesTrack ==
    ASSUME L2Inv, L2Inv', TrackInv,
           \/ \E h \in Harts : Send(h)
           \/ \E n \in 1 .. COMMAND_ENTRIES : WriteBeat(n)
           \/ Capture
    PROVE  TrackInv'
<1>1. /\ UNCHANGED <<directoryVars, l2mshr, hit, responses, probeVars,
                     active_probe>>
      /\ UNCHANGED dcache
      /\ \A h \in Harts : mshr'[h].state = "complete" =>
            mshr[h].state = "complete" /\ mshr'[h].line = mshr[h].line
  <2>1. ASSUME NEW h \in Harts, Send(h)
        PROVE  /\ UNCHANGED <<directoryVars, l2mshr, hit, responses,
                              probeVars, active_probe>>
               /\ UNCHANGED dcache
               /\ \A g \in Harts : mshr'[g].state = "complete" =>
                     mshr[g].state = "complete" /\ mshr'[g].line = mshr[g].line
    <3>1. /\ \E c \in Commands : Push(c)
          /\ PrivateTypeOK
      BY <2>1, SendService DEF L2Inv, TypeOK
    <3>2. UNCHANGED <<directoryVars, l2mshr, hit, responses, probeVars,
                      active_probe>>
      BY <3>1 DEF Push
    <3>3. CASE SendFill(h)
      <4>1. mshr' = [mshr EXCEPT ![h].state = "issued"] /\ UNCHANGED dcache
        BY <3>3 DEF SendFill
      <4>2. mshr \in [Harts -> Mshrs]
        BY <3>1 DEF PrivateTypeOK
      <4>3. \A g \in Harts : g # h => mshr'[g] = mshr[g]
        BY <4>1, <4>2
      <4>4. mshr'[h].state = "issued"
        BY <4>1, <4>2 DEF Mshrs
      <4> QED BY <3>2, <4>1, <4>3, <4>4
    <3>4. CASE ~SendFill(h)
      <4>1. UNCHANGED privateVars
        BY <2>1, <3>4 DEF Send, SendStore, SendMarked, SendFetch, SendPtw,
           SendDevice, SendMalformed
      <4> QED BY <3>2, <4>1 DEF privateVars
    <3> QED BY <3>3, <3>4
  <2>2. ASSUME NEW n, WriteBeat(n)
        PROVE  UNCHANGED <<directoryVars, l2mshr, hit, responses, probeVars,
                           active_probe, privateVars>>
    BY <2>2 DEF WriteBeat
  <2>3. CASE Capture
    BY <2>3 DEF Capture, privateVars
  <2> QED BY <2>1, <2>2, <2>3 DEF privateVars
<1>2. \A h \in Harts, l \in Lines : HoldsD(h, l)' => HoldsD(h, l)
  BY <1>1 DEF HoldsD
<1> QED
  BY <1>1, <1>2, DropsKeep DEF directoryVars, probeVars



\* A probe is issued, or answered.
LEMMA ProbeStepTracks ==
    ASSUME L2Inv, L2Inv', TrackInv, NEW h \in Harts, ProbeStep(h)
    PROVE  TrackInv'
<1>1. /\ TypeOK /\ ProbeTypeOK /\ ProbeActive /\ Revoked
      /\ tracker \in TrackerRegisters
      /\ endpoint \in [Harts -> EndpointSlots]
  BY DEF L2Inv, TypeOK, ProbeTypeOK, TrackInv
<1>2. /\ ProbeIssue(h) \/ ProbeAck(h)
      /\ UNCHANGED <<dir, replace, l2mshr, hit, responses, active_probe>>
      /\ UNCHANGED privateVars
  BY DEF ProbeStep, directoryVars, l2Vars
<1>3. \A g \in Harts, l \in Lines : HoldsD(g, l)' <=> HoldsD(g, l)
  BY <1>2 DEF privateVars, HoldsD
<1>4. /\ tracker.line \in Lines
      /\ \A g \in Harts : g # h => endpoint'[g] = endpoint[g]
  BY <1>1, <1>2 DEF ProbeIssue, ProbeAck, TrackerRegisters
<1>5. /\ tracker'.line = tracker.line /\ tracker'.mask = tracker.mask
      /\ tracker'.issue \subseteq tracker.issue
      /\ tracker.busy \/ tracker.done => tracker'.busy \/ tracker'.done
      /\ tracker'.done => tracker'.issue = {} /\ tracker'.ack = {}
      /\ tracker'.issue \cap tracker'.ack = {}
      /\ \A g \in tracker.issue \cup tracker.ack :
            \/ g \in tracker'.issue \cup tracker'.ack
            \/ g = h /\ ("D" \in tracker.mask => ~HoldsD(h, tracker.line))
      /\ \A g \in Harts : ~EndpointReady(g)' =>
            /\ tracker'.busy /\ g \in tracker'.ack
            /\ endpoint'[g].line = tracker.line
            /\ ~(endpoint'[g].invalidate /\ endpoint'[g].response)
            /\ endpoint'[g].response /\ "D" \in tracker.mask =>
                  ~HoldsD(g, tracker.line)
  <2>1. CASE ProbeIssue(h)
    <3>1. /\ tracker.busy /\ h \in tracker.issue
          /\ tracker' = [tracker EXCEPT !.issue = @ \ {h}, !.ack = @ \cup {h}]
          /\ endpoint' = [endpoint EXCEPT ![h] =
                             [invalidate |-> "D" \in tracker.mask,
                              response |-> "D" \notin tracker.mask,
                              id |-> tracker.id, line |-> tracker.line]]
      BY <2>1 DEF ProbeIssue
    <3>2. /\ tracker'.line = tracker.line /\ tracker'.mask = tracker.mask
          /\ tracker'.issue = tracker.issue \ {h}
          /\ tracker'.ack = tracker.ack \cup {h}
      BY <1>1, <3>1 DEF TrackerRegisters
    <3>3. /\ tracker'.busy = tracker.busy /\ tracker'.done = tracker.done
      BY <1>1, <3>1 DEF TrackerRegisters
    <3>4. /\ endpoint'[h].line = tracker.line
          /\ endpoint'[h].invalidate = ("D" \in tracker.mask)
          /\ endpoint'[h].response = ("D" \notin tracker.mask)
      BY <1>1, <3>1
    <3>5. ~tracker.done /\ tracker.issue \cap tracker.ack = {}
      BY <1>1, <3>1 DEF ProbeActive, Revoked
    <3>6. \A g \in Harts : g # h => (EndpointReady(g)' <=> EndpointReady(g))
      BY <1>4 DEF EndpointReady
    <3>7. \A g \in Harts : ~EndpointReady(g)' =>
            /\ tracker'.busy /\ g \in tracker'.ack
            /\ endpoint'[g].line = tracker.line
            /\ ~(endpoint'[g].invalidate /\ endpoint'[g].response)
            /\ endpoint'[g].response /\ "D" \in tracker.mask =>
                  ~HoldsD(g, tracker.line)
      <4> SUFFICES ASSUME NEW g \in Harts, ~EndpointReady(g)'
                   PROVE  /\ tracker'.busy /\ g \in tracker'.ack
                          /\ endpoint'[g].line = tracker.line
                          /\ ~(endpoint'[g].invalidate /\ endpoint'[g].response)
                          /\ endpoint'[g].response /\ "D" \in tracker.mask =>
                                ~HoldsD(g, tracker.line)
        OBVIOUS
      <4>1. CASE g = h
        BY <3>1, <3>2, <3>3, <3>4, <4>1
      <4>2. CASE g # h
        BY <1>1, <1>4, <3>2, <3>3, <3>6, <4>2 DEF Revoked
      <4> QED BY <4>1, <4>2
    <3>8. tracker'.issue \cap tracker'.ack = {}
      BY <3>2, <3>5
    <3> QED BY <3>1, <3>2, <3>3, <3>5, <3>7, <3>8
  <2>2. CASE ProbeAck(h)
    <3>1. /\ endpoint[h].response
          /\ endpoint' = [endpoint EXCEPT ![h].response = FALSE]
          /\ IF AckAccepted(h)
             THEN LET ack == tracker.ack \ {h}
                      complete == tracker.issue = {} /\ ack = {}
                  IN  tracker' = [tracker EXCEPT !.ack = ack,
                                                 !.busy = ~complete,
                                                 !.done = complete]
             ELSE UNCHANGED tracker
      BY <2>2 DEF ProbeAck
    <3>2. /\ tracker.busy /\ h \in tracker.ack /\ ~endpoint[h].invalidate
          /\ "D" \in tracker.mask => ~HoldsD(h, tracker.line)
          /\ ~tracker.done
      BY <1>1, <3>1 DEF Revoked, EndpointReady, ProbeActive
    <3>3. endpoint'[h].response = FALSE /\ endpoint'[h].invalidate = FALSE
      BY <1>1, <3>1, <3>2 DEF EndpointSlots
    <3>4. \A g \in Harts : ~EndpointReady(g)' =>
             g # h /\ ~EndpointReady(g) /\ endpoint'[g] = endpoint[g]
      BY <1>4, <3>3 DEF EndpointReady
    <3>5. \A g \in Harts : ~EndpointReady(g)' =>
            /\ g \in tracker.ack /\ g # h
            /\ endpoint'[g].line = tracker.line
            /\ ~(endpoint'[g].invalidate /\ endpoint'[g].response)
            /\ endpoint'[g].response /\ "D" \in tracker.mask =>
                  ~HoldsD(g, tracker.line)
      <4> SUFFICES ASSUME NEW g \in Harts, ~EndpointReady(g)'
                   PROVE  /\ g \in tracker.ack /\ g # h
                          /\ endpoint'[g].line = tracker.line
                          /\ ~(endpoint'[g].invalidate /\ endpoint'[g].response)
                          /\ endpoint'[g].response /\ "D" \in tracker.mask =>
                                ~HoldsD(g, tracker.line)
        OBVIOUS
      <4> QED BY <1>1, <3>4 DEF Revoked
    <3>6. CASE AckAccepted(h)
      <4> DEFINE ack == tracker.ack \ {h}
                 complete == tracker.issue = {} /\ ack = {}
      <4>1. tracker' = [tracker EXCEPT !.ack = ack, !.busy = ~complete,
                                       !.done = complete]
        BY <3>1, <3>6
      <4>2. complete \in BOOLEAN
        OBVIOUS
      <4>3. complete <=> tracker.issue = {} /\ ack = {}
        OBVIOUS
      <4> HIDE DEF complete
      <4>4. /\ tracker'.line = tracker.line /\ tracker'.mask = tracker.mask
            /\ tracker'.issue = tracker.issue /\ tracker'.ack = ack
        BY <1>1, <4>1 DEF TrackerRegisters
      <4>5. /\ tracker'.busy <=> ~complete
            /\ tracker'.done <=> complete
        BY <1>1, <4>1, <4>2 DEF TrackerRegisters
      <4>6. tracker.issue \cap tracker.ack = {}
        BY <1>1 DEF Revoked
      <4> QED BY <3>2, <3>5, <4>3, <4>4, <4>5, <4>6
    <3>7. CASE ~AckAccepted(h)
      <4>1. tracker' = tracker
        BY <3>1, <3>7
      <4>2. tracker.issue \cap tracker.ack = {}
        BY <1>1 DEF Revoked
      <4> QED BY <3>2, <3>5, <4>1, <4>2
    <3> QED BY <3>6, <3>7
  <2> QED BY <1>2, <2>1, <2>2
<1>6. PICK l : l = tracker.line /\ l = tracker'.line /\ l \in Lines
  BY <1>4, <1>5
<1>7. ASSUME NEW i \in ProbingIds', l2mshr'[i].state = "PROBE_INFLIGHT"
      PROVE  /\ i = active_probe' /\ (tracker'.busy \/ tracker'.done)
             /\ l = l2mshr'[i].probe_line
             /\ tracker'.mask = l2mshr'[i].mask
             /\ "D" \in l2mshr'[i].mask =>
                   \A g \in l2mshr'[i].targets :
                       \/ g \in tracker'.issue \cup tracker'.ack
                       \/ ~HoldsD(g, l)'
  <2>1. i \in ProbingIds /\ l2mshr[i].state = "PROBE_INFLIGHT"
        /\ l2mshr'[i] = l2mshr[i]
    BY <1>2, <1>7 DEF ProbingIds
  <2>2. l2mshr[i].targets \subseteq Harts
    BY <1>1, <2>1, MshrTyped DEF TypeOK, ProbingIds
  <2>3. /\ i = active_probe /\ (tracker.busy \/ tracker.done)
        /\ l = l2mshr[i].probe_line
        /\ tracker.mask = l2mshr[i].mask
        /\ "D" \in l2mshr[i].mask =>
              \A g \in l2mshr[i].targets :
                  \/ g \in tracker.issue \cup tracker.ack
                  \/ ~HoldsD(g, l)
    BY <1>1, <1>6, <2>1 DEF Revoked
  <2>4. ASSUME "D" \in l2mshr[i].mask, NEW g \in l2mshr[i].targets
        PROVE  \/ g \in tracker'.issue \cup tracker'.ack
               \/ ~HoldsD(g, l)'
    BY <1>3, <1>5, <1>6, <2>2, <2>3, <2>4
  <2> QED BY <1>2, <1>5, <2>1, <2>3, <2>4
<1>8. ASSUME NEW g \in Harts, ~EndpointReady(g)'
      PROVE  /\ tracker'.busy /\ g \in tracker'.ack
             /\ endpoint'[g].line = l
             /\ ~(endpoint'[g].invalidate /\ endpoint'[g].response)
             /\ endpoint'[g].response /\ "D" \in tracker'.mask =>
                   ~HoldsD(g, l)'
  BY <1>3, <1>5, <1>6, <1>8
<1>9. Revoked'
  <2>1. \A g : HoldsD(g, tracker.line)' <=> HoldsD(g, l)'
    BY <1>6 DEF HoldsD
  <2>2. ASSUME NEW i \in ProbingIds', l2mshr'[i].state = "PROBE_INFLIGHT",
               "D" \in l2mshr'[i].mask, NEW g \in l2mshr'[i].targets
        PROVE  g \in tracker'.issue \cup tracker'.ack
               \/ ~HoldsD(g, l2mshr[i].probe_line)'
    BY <1>7, <2>2 DEF HoldsD
  <2> QED BY <1>5, <1>6, <1>7, <1>8, <2>1, <2>2 DEF Revoked
<1> QED
  BY <1>2, <1>3, <1>9, IdleKeeps



\* An endpoint's L1D has revoked the line.
LEMMA InvalidateTracks ==
    ASSUME L2Inv, L2Inv', TrackInv, NEW h \in Harts, InvalidateL1D(h)
    PROVE  TrackInv'
<1>1. /\ TypeOK /\ ProbeTypeOK /\ PrivateTypeOK /\ Revoked
      /\ tracker \in TrackerRegisters
      /\ endpoint \in [Harts -> EndpointSlots]
  BY DEF L2Inv, TypeOK, ProbeTypeOK, TrackInv
<1>2. /\ EndpointInvalidated(h) /\ SnoopInvalidate(h, endpoint[h].line)
      /\ UNCHANGED <<dir, replace, l2mshr, hit, responses, active_probe>>
      /\ UNCHANGED tracker
  BY DEF InvalidateL1D, directoryVars, l2Vars
<1>3. PICK l : l = tracker.line
  OBVIOUS
<1>4. /\ endpoint[h].invalidate /\ ~endpoint[h].response
      /\ tracker.busy /\ h \in tracker.ack /\ endpoint[h].line = l
      /\ l \in Lines
  BY <1>1, <1>2, <1>3
     DEF EndpointInvalidated, Revoked, EndpointReady, TrackerRegisters
<1>5. /\ \A g \in Harts, x \in Lines : HoldsD(g, x)' => HoldsD(g, x)
      /\ ~HoldsD(h, l)'
  <2>1. Drops(h, l)
    BY <1>1, <1>2, <1>4, SnoopedHolders
  <2> QED BY <1>4, <2>1 DEF Drops
<1>6. /\ \A g \in Harts : g # h => endpoint'[g] = endpoint[g]
      /\ endpoint'[h].response /\ endpoint'[h].line = l
      /\ endpoint'[h].invalidate = FALSE
  <2>1. endpoint' = [endpoint EXCEPT ![h] = [@ EXCEPT !.invalidate = FALSE,
                                                      !.response = TRUE]]
    BY <1>2 DEF EndpointInvalidated
  <2> QED BY <1>1, <1>4, <2>1 DEF EndpointSlots
<1>7. ASSUME NEW i \in ProbingIds', l2mshr'[i].state = "PROBE_INFLIGHT"
      PROVE  /\ i = active_probe /\ (tracker.busy \/ tracker.done)
             /\ l = l2mshr'[i].probe_line
             /\ tracker.mask = l2mshr'[i].mask
             /\ "D" \in l2mshr'[i].mask =>
                   \A g \in l2mshr'[i].targets :
                       \/ g \in tracker.issue \cup tracker.ack
                       \/ ~HoldsD(g, l)'
  <2>1. i \in ProbingIds /\ l2mshr[i].state = "PROBE_INFLIGHT"
        /\ l2mshr'[i] = l2mshr[i]
    BY <1>2, <1>7 DEF ProbingIds
  <2>2. l2mshr[i].targets \subseteq Harts
    BY <1>1, <2>1, MshrTyped DEF TypeOK, ProbingIds
  <2>3. /\ i = active_probe /\ (tracker.busy \/ tracker.done)
        /\ l = l2mshr[i].probe_line
        /\ tracker.mask = l2mshr[i].mask
        /\ "D" \in l2mshr[i].mask =>
              \A g \in l2mshr[i].targets :
                  \/ g \in tracker.issue \cup tracker.ack
                  \/ ~HoldsD(g, l)
    BY <1>1, <1>3, <2>1 DEF Revoked
  <2> QED BY <1>4, <1>5, <2>1, <2>2, <2>3
<1>8. ASSUME NEW g \in Harts, ~EndpointReady(g)'
      PROVE  /\ tracker.busy /\ g \in tracker.ack
             /\ endpoint'[g].line = l
             /\ ~(endpoint'[g].invalidate /\ endpoint'[g].response)
             /\ endpoint'[g].response /\ "D" \in tracker.mask =>
                   ~HoldsD(g, l)'
  <2>1. CASE g = h
    BY <1>4, <1>5, <1>6, <2>1
  <2>2. CASE g # h
    <3>1. ~EndpointReady(g) /\ endpoint'[g] = endpoint[g]
      BY <1>6, <1>8, <2>2 DEF EndpointReady
    <3> QED BY <1>1, <1>3, <1>4, <1>5, <3>1 DEF Revoked
  <2> QED BY <2>1, <2>2
<1>9. Revoked'
  <2>1. \A g : HoldsD(g, tracker.line)' <=> HoldsD(g, l)'
    BY <1>2, <1>3 DEF HoldsD
  <2>2. ASSUME NEW i \in ProbingIds', l2mshr'[i].state = "PROBE_INFLIGHT",
               "D" \in l2mshr'[i].mask, NEW g \in l2mshr'[i].targets
        PROVE  g \in tracker.issue \cup tracker.ack
               \/ ~HoldsD(g, l2mshr[i].probe_line)'
    BY <1>7, <2>2 DEF HoldsD
  <2>3. /\ tracker.done => tracker.issue = {} /\ tracker.ack = {}
        /\ tracker.issue \cap tracker.ack = {}
    BY <1>1 DEF Revoked
  <2> QED BY <1>2, <1>3, <1>7, <1>8, <2>1, <2>2, <2>3 DEF Revoked
<1> QED
  BY <1>2, <1>5, <1>9, IdleKeeps

LEMMA HartTracks ==
    ASSUME L2Inv, L2Inv', TrackInv, NEW h \in Harts,
           ProbeStep(h) \/ InvalidateL1D(h) \/ L1DStep(h) \/ L1IStep(h)
    PROVE  TrackInv'
<1>1. ASSUME L1DStep(h) \/ L1IStep(h) PROVE TrackInv'
  <2>1. UNCHANGED <<dir, replace, l2mshr, hit, responses, tracker,
                    endpoint, active_probe>>
    BY <1>1 DEF L1DStep, L1IStep, directoryVars, probeVars, l2Vars
  <2>2. \A g \in Harts, l \in Lines : HoldsD(g, l)' => HoldsD(g, l)
    <3>1. CASE L1DStep(h)
      <4>1. PICK x : Drops(h, x)
        BY <3>1, AccessHolders DEF L1DStep, L2Inv, TypeOK
      <4> QED BY <4>1 DEF Drops
    <3>2. CASE L1IStep(h)
      BY <3>2 DEF L1IStep, L1IAccess, FetchMiss, FenceI, HoldsD
    <3> QED BY <1>1, <3>1, <3>2
  <2> QED BY <2>1, <2>2, DropsKeep
<1> QED
  BY <1>1, ProbeStepTracks, InvalidateTracks


-----------------------------------------------------------------------------
(* The MSHRs on their own.                                                   *)

LEMMA ElementsAppend ==
    ASSUME NEW S, NEW s \in Seq(S), NEW x \in S
    PROVE  \A y \in Elements(Append(s, x)) : y \in Elements(s) \/ y = x
<1>1. /\ Len(s) \in Nat /\ DOMAIN s = 1 .. Len(s)
      /\ DOMAIN Append(s, x) = 1 .. Len(s) + 1
      /\ \A n \in 1 .. Len(s) : Append(s, x)[n] = s[n]
      /\ Append(s, x)[Len(s) + 1] = x
  BY AppendProperties
<1>2. \A n \in 1 .. Len(s) + 1 : n \in 1 .. Len(s) \/ n = Len(s) + 1
  BY <1>1
<1> QED
  BY <1>1, <1>2 DEF Elements

LEMMA ElementsTail ==
    ASSUME NEW S, NEW s \in Seq(S), s # << >>
    PROVE  \A y \in Elements(Tail(s)) : y \in Elements(s)
<1>1. /\ Len(s) \in Nat /\ DOMAIN s = 1 .. Len(s)
      /\ DOMAIN Tail(s) = 1 .. Len(s) - 1
      /\ \A n \in 1 .. Len(s) - 1 : Tail(s)[n] = s[n + 1]
  BY HeadTailProperties
<1>2. \A n \in 1 .. Len(s) - 1 : n + 1 \in 1 .. Len(s)
  BY <1>1
<1> QED
  BY <1>1, <1>2 DEF Elements

\* An answer joins the responses.
LEMMA EnqueueInstalling ==
    ASSUME L2TypeOK, NEW r \in Responses, Enqueue(r),
           \A x \in Elements(hit') : x \in Elements(hit)
    PROVE  \A e \in Installing' :
              e \in Installing \/ (e = r.cmd /\ DFill(e) /\ ~r.error)
<1>1. responses \in Seq(Responses) /\ responses' = Append(responses, r)
  BY DEF L2TypeOK, Enqueue
<1>2. \A x \in Elements(responses') : x \in Elements(responses) \/ x = r
  BY <1>1, ElementsAppend
<1> QED
  BY <1>2 DEF Installing

\* MSHR i, which does not probe, goes on.
LEMMA MshrTracks ==
    ASSUME L2Inv, L2Inv', TrackInv, NEW i \in MshrIds,
           UNCHANGED <<dir, replace, tracker, endpoint, active_probe, dcache,
                       mshr>>,
           l2mshr[i].state \notin ProbeStates,
           l2mshr'[i].state \notin ProbeStates,
           \A j \in MshrIds : j # i => l2mshr'[j] = l2mshr[j],
           i \in Busy' => i \in Busy /\ GoesOn(l2mshr[i], l2mshr'[i]),
           \A n \in DOMAIN l2mshr'[i].waiters :
              \E m \in DOMAIN l2mshr[i].waiters :
                 l2mshr'[i].waiters[n] = l2mshr[i].waiters[m],
           \A e \in Installing' :
              \/ e \in Installing
              \/ \E n \in DOMAIN l2mshr[i].waiters :
                    e = l2mshr[i].waiters[n] /\ DFill(e)
    PROVE  TrackInv'
<1>1. i \notin ProbingIds /\ i \notin ProbingIds'
  BY DEF ProbingIds
<1>2. \A j \in MshrIds : j \in ProbingIds \/ j \in ProbingIds' =>
         /\ j \in ProbingIds /\ j \in ProbingIds'
         /\ l2mshr'[j] = l2mshr[j]
  BY <1>1 DEF ProbingIds
<1>3. \A j \in MshrIds : j \in ProbingIds \/ j \in ProbingIds' =>
         /\ j \in ProbingIds /\ j \in ProbingIds'
         /\ SameProbe(l2mshr[j], l2mshr'[j])
  BY <1>2 DEF SameProbe
<1>4. \A h \in Harts, l \in Lines :
         /\ HoldsD(h, l)' => HoldsD(h, l)
         /\ HoldsD(h, l)' => Needed(h, l)
  BY DEF HoldsD, Needed
<1>5. Revoked'
  <2>1. \A j \in ProbingIds' :
           l2mshr'[j].state = "PROBE_INFLIGHT" =>
               /\ j \in ProbingIds /\ l2mshr[j].state = "PROBE_INFLIGHT"
               /\ SameTarget(l2mshr[j], l2mshr'[j])
    BY <1>2 DEF ProbingIds, SameTarget
  <2>2. \A h \in Harts : HoldsD(h, tracker.line)' => HoldsD(h, tracker.line)
    BY DEF HoldsD
  <2> QED BY <2>1, <2>2, RevokedKept DEF TrackInv
<1>6. \A k \in Busy' : k \in Busy /\ GoesOn(l2mshr[k], l2mshr'[k])
  <2> SUFFICES ASSUME NEW k \in Busy'
               PROVE  k \in Busy /\ GoesOn(l2mshr[k], l2mshr'[k])
    OBVIOUS
  <2>1. CASE k = i
    BY <2>1
  <2>2. CASE k # i
    BY <2>2 DEF Busy, GoesOn
  <2> QED BY <2>1, <2>2
<1>7. \A j \in MshrIds : \A n \in DOMAIN l2mshr'[j].waiters :
         \E m \in DOMAIN l2mshr[j].waiters :
            l2mshr'[j].waiters[n] = l2mshr[j].waiters[m]
  <2> SUFFICES ASSUME NEW j \in MshrIds, NEW n \in DOMAIN l2mshr'[j].waiters
               PROVE  \E m \in DOMAIN l2mshr[j].waiters :
                         l2mshr'[j].waiters[n] = l2mshr[j].waiters[m]
    OBVIOUS
  <2>1. CASE j = i
    BY <2>1
  <2>2. CASE j # i
    BY <2>2
  <2> QED BY <2>1, <2>2
<1>8. \A e \in Installing' :
         \/ e \in Installing
         \/ \E j \in MshrIds \ ProbingIds :
               \E n \in DOMAIN l2mshr[j].waiters :
                   e = l2mshr[j].waiters[n] /\ DFill(e)
  BY <1>1
<1> QED
  BY <1>3, <1>4, <1>5, <1>6, <1>7, <1>8, QuietKeeps

LEMMA BusRequestTracks ==
    ASSUME L2Inv, L2Inv', TrackInv, NEW i \in MshrIds, BusRequest(i)
    PROVE  TrackInv'
<1>1. PICK a \in BusActions :
         /\ l2mshr[i].state = NeedState(a)
         /\ l2mshr' = [l2mshr EXCEPT ![i].state = InflightState(a)]
  BY DEF BusRequest
<1> DEFINE m == l2mshr[i]
           st == InflightState(a)
           k == [m EXCEPT !.state = st]
<1>2. l2mshr \in [MshrIds -> L2Mshrs] /\ m \in L2Mshrs
  BY DEF L2Inv, TypeOK, L2TypeOK
<1>3. /\ m.state \in {"NEED_WB", "NEED_FILL", "NEED_BYPASS"}
      /\ st \in {"WB_INFLIGHT", "FILL_INFLIGHT", "BYPASS_INFLIGHT"}
      /\ st \in L2MshrStates
  BY <1>1, BusStates DEF BusActions, L2MshrStates
<1>4. l2mshr'[i] = k /\ \A j \in MshrIds : j # i => l2mshr'[j] = l2mshr[j]
  BY <1>1, <1>2
<1>5. m = l2mshr[i]
  OBVIOUS
<1> HIDE DEF m, st
<1>6. /\ k.state = st /\ k.bypass = m.bypass /\ k.cacheable = m.cacheable
      /\ k.private_fill = m.private_fill /\ k.line = m.line
      /\ k.waiters = m.waiters
  BY <1>2, <1>3, StateFields
<1> HIDE DEF k
<1>7. m.state \notin ProbeStates /\ k.state \notin ProbeStates
  BY <1>3, <1>6 DEF ProbeStates
<1>8. i \in Busy' => i \in Busy /\ GoesOn(m, k)
  BY <1>3, <1>5, <1>6 DEF Busy, GoesOn, Settled
<1>9. UNCHANGED <<dir, replace, tracker, endpoint, active_probe, dcache, mshr,
                  hit, responses>>
  BY DEF BusRequest, directoryVars, probeVars, privateVars
<1>10. \A e \in Installing' : e \in Installing
  BY <1>9 DEF Installing
<1> QED
  BY <1>4, <1>5, <1>6, <1>7, <1>8, <1>9, <1>10, MshrTracks

LEMMA BusResponseTracks ==
    ASSUME L2Inv, L2Inv', TrackInv, BusResponse
    PROVE  TrackInv'
<1> DEFINE i == Head(bus).mshr
           a == Head(bus).action
           m == l2mshr[i]
           v == mem[m.line]
<1>1. PICK error \in BOOLEAN :
         l2mshr' = [l2mshr EXCEPT ![i] =
              IF error THEN [m EXCEPT !.state = "ERROR"]
              ELSE IF a = "WB" THEN [m EXCEPT !.state = "NEED_FILL"]
              ELSE [m EXCEPT !.state = "REPLAY", !.data = v]]
  BY DEF BusResponse
<1>2. L2TypeOK /\ MshrInv /\ BusInv /\ bus # << >>
  BY DEF L2Inv, TypeOK, BusResponse
<1>3. /\ i \in MshrIds /\ m \in L2Mshrs
      /\ m.state \in {"WB_INFLIGHT", "FILL_INFLIGHT", "BYPASS_INFLIGHT"}
  BY <1>2, BusHead
<1> DEFINE k == IF error THEN [m EXCEPT !.state = "ERROR"]
                ELSE IF a = "WB" THEN [m EXCEPT !.state = "NEED_FILL"]
                ELSE [m EXCEPT !.state = "REPLAY", !.data = v]
<1>4. l2mshr'[i] = k /\ \A j \in MshrIds : j # i => l2mshr'[j] = l2mshr[j]
  BY <1>1, <1>2, <1>3 DEF L2TypeOK
<1>5. m = l2mshr[i]
  OBVIOUS
<1> HIDE DEF v, m, i, a
<1>6. /\ k.state \in {"ERROR", "NEED_FILL", "REPLAY"}
      /\ k.bypass = m.bypass /\ k.cacheable = m.cacheable
      /\ k.private_fill = m.private_fill /\ k.line = m.line
      /\ k.waiters = m.waiters
  BY <1>3 DEF L2Mshrs
<1> HIDE DEF k
<1>7. m.state \notin ProbeStates /\ k.state \notin ProbeStates
  BY <1>3, <1>6 DEF ProbeStates
<1>8. i \in Busy /\ GoesOn(m, k)
  BY <1>3, <1>5, <1>6 DEF Busy, GoesOn, Settled
<1>9. UNCHANGED <<dir, replace, tracker, endpoint, active_probe, dcache, mshr,
                  hit, responses>>
  BY DEF BusResponse, directoryVars, probeVars, privateVars
<1>10. \A e \in Installing' : e \in Installing
  BY <1>9 DEF Installing
<1> QED
  BY <1>3, <1>4, <1>5, <1>6, <1>7, <1>8, <1>9, <1>10, MshrTracks

LEMMA ReplayTracks ==
    ASSUME L2Inv, L2Inv', TrackInv, NEW i \in MshrIds, Replay(i)
    PROVE  TrackInv'
<1> DEFINE m == l2mshr[i]
           final == Len(m.waiters) = 1
           t == Tail(m.waiters)
           d == ReplayData(m)
           k == IF final THEN FreeL2Mshr
                ELSE [m EXCEPT !.waiters = t, !.data = d]
           r == ReplayResponse(m)
<1>1. /\ L2TypeOK /\ MshrShape(m) /\ m \in L2Mshrs
  BY DEF L2Inv, TypeOK, MshrInv, L2TypeOK
<1>2. /\ ReplayReady(m) /\ Enqueue(r)
      /\ l2mshr' = [l2mshr EXCEPT ![i] = k]
      /\ UNCHANGED <<dir, replace, tracker, endpoint, active_probe, dcache,
                     mshr, hit>>
  BY DEF Replay, directoryVars, probeVars, privateVars
<1>3. m.state \in {"REPLAY", "ERROR"} /\ m.waiters # << >>
      /\ m.waiters \in Seq(Commands)
  BY <1>1, <1>2 DEF ReplayReady, MshrShape, L2Mshrs
<1>4. /\ r \in Responses /\ r.cmd = Head(m.waiters) /\ d \in Values
      /\ Head(m.waiters) = m.waiters[1] /\ 1 \in DOMAIN m.waiters
  BY <1>1, <1>3, ReplayResponseType, FirstWaiter
<1>5. l2mshr'[i] = k /\ \A j \in MshrIds : j # i => l2mshr'[j] = l2mshr[j]
  BY <1>1, <1>2 DEF L2TypeOK
<1>6. m = l2mshr[i]
  OBVIOUS
<1>7. /\ t \in Seq(Commands)
      /\ \A n \in DOMAIN t : n + 1 \in DOMAIN m.waiters
                             /\ t[n] = m.waiters[n + 1]
  BY <1>3
<1>8. final => FreeL2Mshr.state = "IDLE" /\ FreeL2Mshr.waiters = << >>
  BY DEF FreeL2Mshr
<1> HIDE DEF r, d, t, m, final
<1>9. \/ k.state = "IDLE" /\ k.waiters = << >>
      \/ /\ k.state = m.state
         /\ k.bypass = m.bypass /\ k.cacheable = m.cacheable
         /\ k.private_fill = m.private_fill /\ k.line = m.line
         /\ k.waiters = t
  BY <1>1, <1>4, <1>7, <1>8 DEF L2Mshrs
<1> HIDE DEF k
<1>10. m.state \notin ProbeStates /\ k.state \notin ProbeStates
  BY <1>3, <1>9 DEF ProbeStates
<1>11. i \in Busy' => i \in Busy /\ GoesOn(m, k)
  BY <1>3, <1>5, <1>6, <1>9 DEF Busy, GoesOn, Settled
<1>12. \A n \in DOMAIN k.waiters :
          \E x \in DOMAIN m.waiters : k.waiters[n] = m.waiters[x]
  BY <1>7, <1>9
<1>13. \A e \in Installing' :
          e \in Installing \/ (e = r.cmd /\ DFill(e) /\ ~r.error)
  BY <1>1, <1>2, <1>4, EnqueueInstalling
<1>14. \A e \in Installing' :
          \/ e \in Installing
          \/ \E n \in DOMAIN m.waiters : e = m.waiters[n] /\ DFill(e)
  BY <1>4, <1>13
<1> QED
  BY <1>2, <1>5, <1>6, <1>10, <1>11, <1>12, <1>14, MshrTracks

LEMMA HitEnqueueTracks ==
    ASSUME L2Inv, L2Inv', TrackInv, HitEnqueue
    PROVE  TrackInv'
<1>1. /\ hit # << >> /\ Enqueue(Head(hit)) /\ hit' = << >>
      /\ UNCHANGED <<dir, replace, tracker, endpoint, active_probe, dcache,
                     mshr, l2mshr>>
  BY DEF HitEnqueue, directoryVars, probeVars, privateVars
<1>2. L2TypeOK /\ hit \in Seq(Responses)
  BY DEF L2Inv, TypeOK, L2TypeOK
<1>3. Head(hit) \in Elements(hit) /\ Head(hit) \in Responses
  <2>1. Len(hit) \in Nat /\ Len(hit) # 0 /\ DOMAIN hit = 1 .. Len(hit)
    BY <1>1, <1>2, EmptySeq
  <2>2. Head(hit) = hit[1] /\ 1 \in DOMAIN hit
    BY <1>1, <1>2, <2>1, HeadTailProperties
  <2>3. Head(hit) \in Responses
    BY <1>1, <1>2, HeadTailProperties
  <2> QED BY <2>2, <2>3 DEF Elements
<1>4. \A x \in Elements(hit') : x \in Elements(hit)
  BY <1>1 DEF Elements
<1>5. \A e \in Installing' : e \in Installing
  BY <1>1, <1>2, <1>3, <1>4, EnqueueInstalling DEF Installing
<1>6. \A i \in MshrIds : i \in ProbingIds \/ i \in ProbingIds' =>
         /\ i \in ProbingIds /\ i \in ProbingIds'
         /\ SameProbe(l2mshr[i], l2mshr'[i])
         /\ SameTarget(l2mshr[i], l2mshr'[i])
  BY <1>1 DEF ProbingIds, SameProbe, SameTarget
<1>7. \A k \in Busy' : k \in Busy /\ GoesOn(l2mshr[k], l2mshr'[k])
  BY <1>1 DEF Busy, GoesOn
<1>8. /\ \A h \in Harts, l \in Lines : HoldsD(h, l)' => Needed(h, l)
      /\ \A h \in Harts : HoldsD(h, tracker.line)' => HoldsD(h, tracker.line)
  BY <1>1 DEF HoldsD, Needed
<1>9. Revoked'
  <2>1. \A j \in ProbingIds' :
           l2mshr'[j].state = "PROBE_INFLIGHT" =>
               /\ j \in ProbingIds /\ l2mshr[j].state = "PROBE_INFLIGHT"
               /\ SameTarget(l2mshr[j], l2mshr'[j])
    BY <1>1 DEF ProbingIds, SameTarget
  <2> QED BY <1>1, <1>8, <2>1, RevokedKept DEF TrackInv
<1> QED
  BY <1>1, <1>5, <1>6, <1>7, <1>8, <1>9, QuietKeeps



\* The tracker starts on the probe of an MSHR.
LEMMA ProbeStartTracks ==
    ASSUME L2Inv, L2Inv', TrackInv, ProbeStart
    PROVE  TrackInv'
<1> DEFINE i == First(NeedProbe)
           m == l2mshr[i]
           k == [m EXCEPT !.state = "PROBE_INFLIGHT"]
<1>1. /\ L2TypeOK /\ ProbeTypeOK /\ Revoked
  BY DEF L2Inv, TypeOK, TrackInv
<1>2. /\ TrackerStart(m.targets, next_probe_id, m.mask, m.probe_line)
      /\ active_probe' = i
      /\ l2mshr' = [l2mshr EXCEPT ![i].state = "PROBE_INFLIGHT"]
      /\ UNCHANGED <<endpoint, dir, replace, hit, responses, dcache, mshr>>
  BY DEF ProbeStart, directoryVars, privateVars
<1>3. i \in NeedProbe
  <2>1. NeedProbe \in SUBSET MshrIds /\ NeedProbe # {}
    BY DEF ProbeStart, NeedProbe
  <2> QED BY <2>1, FirstMshr
<1> HIDE DEF i
<1>4. i \in MshrIds /\ m.state = "NEED_PROBE" /\ m \in L2Mshrs
  BY <1>1, <1>3 DEF NeedProbe, L2TypeOK
<1>5. l2mshr'[i] = k /\ \A j \in MshrIds : j # i => l2mshr'[j] = l2mshr[j]
  BY <1>1, <1>2, <1>4 DEF L2TypeOK
<1>6. m = l2mshr[i]
  OBVIOUS
<1> HIDE DEF m
<1>7. /\ k.state = "PROBE_INFLIGHT" /\ SameProbe(m, k) /\ k.bypass = m.bypass
  <2>1. /\ k.state = "PROBE_INFLIGHT" /\ k.bypass = m.bypass
        /\ k.cacheable = m.cacheable /\ k.private_fill = m.private_fill
        /\ k.line = m.line /\ k.waiters = m.waiters
    BY <1>4 DEF L2Mshrs
  <2>2. /\ k.probe_line = m.probe_line /\ k.targets = m.targets
        /\ k.mask = m.mask /\ k.coh_action = m.coh_action
        /\ k.entry = m.entry
    BY <1>4 DEF L2Mshrs
  <2>3. /\ k.add_i = m.add_i /\ k.add_d = m.add_d /\ k.clear_d = m.clear_d
    BY <1>4 DEF L2Mshrs
  <2> HIDE DEF k
  <2> QED BY <2>1, <2>2, <2>3 DEF SameProbe
<1> HIDE DEF k
<1>8. \A j \in MshrIds : j # i => /\ l2mshr'[j] = l2mshr[j]
                                  /\ SameProbe(l2mshr[j], l2mshr'[j])
  BY <1>5 DEF SameProbe
<1>9. i \in ProbingIds /\ i \in ProbingIds' /\ i \in Busy
  BY <1>4, <1>5, <1>6, <1>7 DEF ProbingIds, ProbeStates, Busy
<1>10. \A j \in MshrIds : j \in ProbingIds \/ j \in ProbingIds' =>
          /\ j \in ProbingIds /\ j \in ProbingIds'
          /\ SameProbe(l2mshr[j], l2mshr'[j])
  <2> SUFFICES ASSUME NEW j \in MshrIds, j \in ProbingIds \/ j \in ProbingIds'
               PROVE  /\ j \in ProbingIds /\ j \in ProbingIds'
                      /\ SameProbe(l2mshr[j], l2mshr'[j])
    OBVIOUS
  <2>1. CASE j = i
    BY <1>5, <1>6, <1>7, <1>9, <2>1
  <2>2. CASE j # i
    BY <1>8, <2>2 DEF ProbingIds
  <2> QED BY <2>1, <2>2
<1>11. \A j \in Busy' : j \in Busy /\ GoesOn(l2mshr[j], l2mshr'[j])
  <2>1. GoesOn(m, k)
    BY <1>4, <1>7 DEF GoesOn, SameProbe, Settled
  <2> SUFFICES ASSUME NEW j \in Busy'
               PROVE  j \in Busy /\ GoesOn(l2mshr[j], l2mshr'[j])
    OBVIOUS
  <2>2. CASE j = i
    BY <1>5, <1>6, <1>9, <2>1, <2>2
  <2>3. CASE j # i
    BY <1>5, <2>3 DEF Busy, GoesOn
  <2> QED BY <2>2, <2>3
<1>12. \A j \in MshrIds : l2mshr'[j].waiters = l2mshr[j].waiters
  <2> SUFFICES ASSUME NEW j \in MshrIds
               PROVE  l2mshr'[j].waiters = l2mshr[j].waiters
    OBVIOUS
  <2>1. CASE j = i
    BY <1>5, <1>6, <1>7, <2>1 DEF SameProbe
  <2>2. CASE j # i
    BY <1>5, <2>2
  <2> QED BY <2>1, <2>2
<1>13. \A e \in Installing' : e \in Installing
  BY <1>2 DEF Installing
<1>14. \A h \in Harts, l \in Lines : HoldsD(h, l)' => Needed(h, l)
  BY <1>2 DEF HoldsD, Needed
<1>15. Revoked'
  <2>1. ~tracker.busy /\ ~tracker.done
        /\ tracker' = [busy |-> TRUE, done |-> FALSE, issue |-> m.targets,
                       ack |-> {}, id |-> next_probe_id, mask |-> m.mask,
                       line |-> m.probe_line]
    BY <1>2, <1>6 DEF TrackerStart, TrackerStartReady
  <2>2. \A h \in Harts : EndpointReady(h)'
    BY <1>1, <1>2, <2>1 DEF Revoked, EndpointReady
  <2>3. ASSUME NEW j \in ProbingIds', l2mshr'[j].state = "PROBE_INFLIGHT"
        PROVE  j = i
    <3>1. ASSUME j # i PROVE FALSE
      <4>1. j \in ProbingIds /\ l2mshr[j].state = "PROBE_INFLIGHT"
        BY <1>8, <2>3, <3>1 DEF ProbingIds
      <4> QED BY <1>1, <2>1, <4>1 DEF Revoked
    <3> QED BY <3>1
  <2>4. /\ k.probe_line = m.probe_line /\ k.targets = m.targets
        /\ k.mask = m.mask
    BY <1>7 DEF SameProbe
  <2>5. /\ tracker'.busy /\ ~tracker'.done /\ tracker'.issue = m.targets
        /\ tracker'.ack = {} /\ tracker'.line = m.probe_line
        /\ tracker'.mask = m.mask
    BY <2>1
  <2>6. \A j \in ProbingIds' : l2mshr'[j].state = "PROBE_INFLIGHT" =>
           /\ j = i /\ l2mshr'[j].targets = tracker'.issue
           /\ l2mshr'[j].probe_line = tracker'.line
           /\ l2mshr'[j].mask = tracker'.mask
    BY <1>5, <2>3, <2>4, <2>5
  <2> QED BY <1>2, <2>2, <2>5, <2>6 DEF Revoked
<1> QED
  BY <1>2, <1>10, <1>11, <1>12, <1>13, <1>14, <1>15, QuietKeeps

\* A requester takes an answer: a fill becomes a copy.
LEMMA RespondHolders ==
    ASSUME L2Inv, Respond
    PROVE  \A g \in Harts, x \in Lines : HoldsD(g, x)' =>
              HoldsD(g, x) \/ \E e \in Installing : e.hart = g /\ e.line = x
<1> DEFINE r == Head(responses)
           e == r.cmd
           h == e.hart
<1>1. /\ responses \in Seq(Responses) /\ responses # << >>
      /\ mshr \in [Harts -> Mshrs] /\ ServiceInv /\ L2TypeOK
      /\ Response(e, r.error, r.data)
  BY DEF L2Inv, TypeOK, L2TypeOK, PrivateTypeOK, Respond
<1>2. r \in Elements(responses) /\ r \in Responses
  <2>1. Len(responses) \in Nat /\ Len(responses) # 0
        /\ DOMAIN responses = 1 .. Len(responses)
    BY <1>1, EmptySeq
  <2>2. Head(responses) = responses[1] /\ 1 \in DOMAIN responses
    BY <1>1, <2>1, HeadTailProperties
  <2>3. Head(responses) \in Responses
    BY <1>1, HeadTailProperties
  <2> QED BY <2>2, <2>3 DEF Elements
<1>3. e \in Commands /\ h \in Harts /\ e.line \in Lines
  BY <1>2 DEF Responses, Commands
<1>4. CASE UNCHANGED <<dcache, mshr>>
  BY <1>4 DEF HoldsD
<1>5. CASE FillResponse(h, r.error, r.data) /\ e.source = "DCACHE"
           /\ e.cacheable /\ e.op = "READ"
  <2>1. DFill(e)
    BY <1>5 DEF DFill
  <2>2. /\ UNCHANGED dcache
        /\ \A g \in Harts : g # h => mshr'[g] = mshr[g]
        /\ mshr'[h] = IF mshr[h].reissue
                      THEN [mshr[h] EXCEPT !.state = "need", !.reissue = FALSE]
                      ELSE IF r.error THEN FreeMshr
                      ELSE [mshr[h] EXCEPT !.state = "complete",
                                           !.data = r.data]
    BY <1>1, <1>3, <1>5 DEF FillResponse
  <2> DEFINE b == r.error
  <2>3. mshr'[h].state = "complete" => ~b /\ mshr'[h].line = mshr[h].line
    <3>1. mshr[h] \in Mshrs /\ mshr[h].reissue \in BOOLEAN
      BY <1>1, <1>3 DEF Mshrs
    <3> HIDE DEF b, h
    <3>2. CASE mshr[h].reissue
      <4>1. mshr'[h].state = "need"
        BY <2>2, <3>1, <3>2 DEF Mshrs
      <4> QED BY <4>1
    <3>3. CASE ~mshr[h].reissue /\ b
      BY <2>2, <3>3 DEF b, FreeMshr
    <3>4. CASE ~mshr[h].reissue /\ ~b
      BY <2>2, <3>1, <3>4 DEF b, Mshrs
    <3> QED BY <3>2, <3>3, <3>4
  <2>4. ASSUME ~b PROVE e \in Installing /\ mshr[h].line = e.line
    <3>1. e \in Installing
      BY <1>2, <2>1, <2>4 DEF Installing
    <3>2. Waits(e)
      BY <3>1, InstallingFacts
    <3> QED BY <2>1, <3>1, <3>2 DEF Waits
  <2> SUFFICES ASSUME NEW g \in Harts, NEW x \in Lines, HoldsD(g, x)',
                      ~HoldsD(g, x)
               PROVE  \E f \in Installing : f.hart = g /\ f.line = x
    OBVIOUS
  <2>5. g = h /\ mshr'[h].state = "complete" /\ mshr'[h].line = x
    BY <2>2 DEF HoldsD
  <2>6. e \in Installing /\ e.line = x /\ e.hart = g
    BY <2>3, <2>4, <2>5
  <2> HIDE DEF e
  <2> QED BY <2>6
<1> QED
  BY <1>1, <1>4, <1>5 DEF Response, FetchResponse, StoreResponse,
     MarkedResponse, privateVars

LEMMA RespondTracks ==
    ASSUME L2Inv, L2Inv', TrackInv, Respond
    PROVE  TrackInv'
<1>1. /\ responses # << >> /\ responses' = Tail(responses)
      /\ UNCHANGED <<dir, replace, l2mshr, hit, tracker, endpoint,
                     active_probe>>
      /\ responses \in Seq(Responses)
      /\ tracker.line \in Lines
  BY DEF Respond, directoryVars, probeVars, L2Inv, TypeOK, L2TypeOK,
     ProbeTypeOK, TrackerRegisters
<1>2. \A e \in Installing' : e \in Installing
  <2>1. \A x \in Elements(responses') : x \in Elements(responses)
    BY <1>1, ElementsTail
  <2> QED BY <1>1, <2>1 DEF Installing
<1>3. /\ \A i \in MshrIds : i \in ProbingIds \/ i \in ProbingIds' =>
            /\ i \in ProbingIds /\ i \in ProbingIds'
            /\ SameProbe(l2mshr[i], l2mshr'[i])
      /\ \A k \in Busy' : k \in Busy /\ GoesOn(l2mshr[k], l2mshr'[k])
      /\ \A i \in ProbingIds' :
            l2mshr'[i].state = "PROBE_INFLIGHT" =>
                /\ i \in ProbingIds /\ l2mshr[i].state = "PROBE_INFLIGHT"
                /\ SameTarget(l2mshr[i], l2mshr'[i])
  BY <1>1 DEF ProbingIds, SameProbe, SameTarget, Busy, GoesOn
<1>4. \A h \in Harts, l \in Lines : HoldsD(h, l)' => Needed(h, l)
  BY RespondHolders DEF Needed
<1>5. CASE tracker.busy \/ tracker.done
  <2>1. /\ l2mshr[active_probe].state = "PROBE_INFLIGHT"
        /\ active_probe \in MshrIds
    BY <1>5 DEF L2Inv, ProbeActive, TypeOK, L2TypeOK
  <2>2. active_probe \in ProbingIds
    BY <2>1 DEF ProbingIds, ProbeStates
  <2>3. l2mshr[active_probe].probe_line = tracker.line
    BY <2>1, <2>2 DEF TrackInv, Revoked
  <2>4. \A e \in Installing : e.line # tracker.line
    BY <2>2, <2>3 DEF TrackInv, ProbeApart
  <2>5. \A h \in Harts : HoldsD(h, tracker.line)' => HoldsD(h, tracker.line)
    <3>1. PICK l : l = tracker.line
      OBVIOUS
    <3>2. \A h \in Harts : HoldsD(h, l)' => HoldsD(h, l)
      BY <1>1, <2>4, <3>1, RespondHolders
    <3> QED BY <1>1, <3>1, <3>2 DEF HoldsD
  <2>6. Revoked'
    BY <1>1, <1>3, <2>5, RevokedKept DEF TrackInv
  <2> QED BY <1>1, <1>2, <1>3, <1>4, <2>6, QuietKeeps
<1>6. CASE ~tracker.busy /\ ~tracker.done
  <2>1. \A h \in Harts : EndpointReady(h)'
    BY <1>1, <1>6 DEF TrackInv, Revoked, EndpointReady
  <2>2. \A i \in ProbingIds' : l2mshr'[i].state # "PROBE_INFLIGHT"
    BY <1>1, <1>6 DEF TrackInv, Revoked, ProbingIds
  <2>3. Revoked'
    BY <1>1, <1>6, <2>1, <2>2 DEF TrackInv, Revoked
  <2> QED BY <1>1, <1>2, <1>3, <1>4, <2>3, QuietKeeps
<1> QED
  BY <1>5, <1>6
-----------------------------------------------------------------------------
(* What a dispatch does to the directory.                                    *)

\* The two dispatches that write the directory: a fill that needs no probe,
\* and a successful SC that nobody else shares.
RecordsFill == Cmd.err = "none" /\ PrivateFill(Cmd) /\ ~PrivateProbeNeeded

ForgetsSharer ==
    /\ Cmd.err = "none" /\ Cmd.op = "SC" /\ ~ScFailed
    /\ LookupHit(Cmd.line) /\ WriteProbeTargets = {}

CmdEntry(w) == dir[SetOf[Cmd.line]][w]

LEMMA DispatchWritten ==
    ASSUME L2Inv, DirectoryInv, Dispatch
    PROVE  \/ UNCHANGED <<dir, replace>> /\ ~RecordsFill /\ ~ForgetsSharer
           \/ \E w \in Ways, i, d \in SUBSET Harts :
                 /\ Written(Cmd.line, w, i, d)
                 /\ MatchingWays(Cmd.line) \subseteq {w}
                 /\ \A s \in Sets : s # SetOf[Cmd.line] =>
                       replace'[s] = replace[s]
                 /\ i # {} => Cmd.line \in FetchLines
                 /\ \/ /\ RecordsFill /\ w \in MatchingWays(Cmd.line)
                       /\ i = CmdEntry(w).i \cup ISharer
                       /\ d = CmdEntry(w).d \cup DSharer
                       /\ UNCHANGED replace
                    \/ /\ RecordsFill /\ MatchingWays(Cmd.line) = {}
                       /\ w = VictimWay(SetOf[Cmd.line])
                       /\ i = ISharer /\ d = DSharer
                       /\ CmdEntry(w).valid =>
                             CmdEntry(w).i \cup CmdEntry(w).d = {}
                    \/ /\ ForgetsSharer /\ ~RecordsFill
                       /\ w \in MatchingWays(Cmd.line)
                       /\ i = CmdEntry(w).i /\ d = {}
                       /\ UNCHANGED replace
<1> DEFINE l == Cmd.line
<1>1. TypeOK /\ DirectoryTypeOK /\ L2TypeOK /\ ServiceInv /\ lookup # << >>
      /\ DirectoryAtDispatch
  BY DEF L2Inv, TypeOK, Dispatch
<1>2. l \in Lines /\ SetOf[l] \in Sets /\ Legal(Cmd)
  BY <1>1, CmdFacts
<1>3. /\ LookupHit(l) => LookupWay(l) \in MatchingWays(l)
      /\ MatchingWays(l) \subseteq Ways /\ VictimWay(SetOf[l]) \in Ways
      /\ ISharer \in SUBSET Harts /\ DSharer \in SUBSET Harts
      /\ LookupHit(l) <=> MatchingWays(l) # {}
  BY <1>1, <1>2, LookupWays, ProbeFacts DEF LookupHit
<1>4. \A w \in MatchingWays(l) :
         /\ MatchingWays(l) \subseteq {w}
         /\ CmdEntry(w).i # {} => l \in FetchLines
  BY <1>2 DEF DirectoryInv, MatchingWays, CmdEntry
<1>5. ISharer # {} => l \in FetchLines
  BY <1>2 DEF ISharer, Legal
<1>6. \A w \in Ways : CmdEntry(w).i \in SUBSET Harts
                      /\ CmdEntry(w).d \in SUBSET Harts
  BY <1>1, <1>2 DEF DirectoryTypeOK, Entries, CmdEntry
<1>7. CASE RecordsFill /\ LookupHit(l)
  <2> DEFINE w == LookupWay(l)
  <2>1. w \in MatchingWays(l) /\ w \in Ways
    BY <1>3, <1>7
  <2>2. DirectoryMerge(l, w, ISharer, DSharer, {})
    BY <1>1, <1>7 DEF DirectoryAtDispatch, RecordsFill
  <2> HIDE DEF l, w
  <2>3. /\ UNCHANGED replace
        /\ Written(l, w, dir[SetOf[l]][w].i \cup ISharer,
                         (dir[SetOf[l]][w].d \cup DSharer) \ {})
    BY <1>1, <1>2, <1>3, <2>1, <2>2, MergeWritten
  <2>4. Written(l, w, CmdEntry(w).i \cup ISharer, CmdEntry(w).d \cup DSharer)
    <3>1. (CmdEntry(w).d \cup DSharer) \ {} = CmdEntry(w).d \cup DSharer
      OBVIOUS
    <3> QED BY <2>3, <3>1 DEF CmdEntry, l
  <2>5. CmdEntry(w).i \cup ISharer \in SUBSET Harts
        /\ CmdEntry(w).d \cup DSharer \in SUBSET Harts
        /\ (CmdEntry(w).i \cup ISharer # {} => l \in FetchLines)
        /\ MatchingWays(l) \subseteq {w}
    BY <1>3, <1>4, <1>5, <1>6, <2>1
  <2> QED BY <1>7, <2>1, <2>3, <2>4, <2>5 DEF l
<1>8. CASE RecordsFill /\ ~LookupHit(l)
  <2> DEFINE w == VictimWay(SetOf[l])
  <2>1. MatchingWays(l) = {} /\ w \in Ways
    BY <1>3, <1>8
  <2>2. DirectoryAllocateFor(l, w, ISharer, DSharer)
    BY <1>1, <1>8 DEF DirectoryAtDispatch, RecordsFill
  <2>3. CmdEntry(w).valid => CmdEntry(w).i \cup CmdEntry(w).d = {}
    BY <1>8 DEF RecordsFill, PrivateProbeNeeded, DirVictim, CmdEntry
  <2>0. w = VictimWay(SetOf[Cmd.line])
    OBVIOUS
  <2> HIDE DEF l, w
  <2>4. /\ Written(l, w, ISharer, DSharer)
        /\ \A s \in Sets : s # SetOf[l] => replace'[s] = replace[s]
    BY <1>1, <1>2, <1>3, <2>1, <2>2, EntryWritten
  <2> QED BY <1>3, <1>5, <1>8, <2>0, <2>1, <2>3, <2>4 DEF l
<1>9. CASE ForgetsSharer /\ ~RecordsFill
  <2> DEFINE w == LookupWay(l)
  <2>1. w \in MatchingWays(l) /\ w \in Ways
    BY <1>3, <1>9 DEF ForgetsSharer
  <2>2. DirectoryMerge(l, w, {}, {}, Harts)
    BY <1>1, <1>9 DEF DirectoryAtDispatch, RecordsFill, ForgetsSharer
  <2> HIDE DEF l, w
  <2>3. /\ UNCHANGED replace
        /\ Written(l, w, dir[SetOf[l]][w].i \cup {},
                         (dir[SetOf[l]][w].d \cup {}) \ Harts)
    BY <1>1, <1>2, <1>3, <2>1, <2>2, MergeWritten
  <2>4. Written(l, w, CmdEntry(w).i, {})
    <3>1. /\ CmdEntry(w).i \cup {} = CmdEntry(w).i
          /\ (CmdEntry(w).d \cup {}) \ Harts = {}
      BY <1>6, <2>1
    <3> QED BY <2>3, <3>1 DEF CmdEntry, l
  <2>5. /\ CmdEntry(w).i \in SUBSET Harts /\ {} \in SUBSET Harts
        /\ CmdEntry(w).i # {} => l \in FetchLines
        /\ MatchingWays(l) \subseteq {w}
    BY <1>4, <1>6, <2>1
  <2> QED BY <1>9, <2>1, <2>3, <2>4, <2>5 DEF l
<1>10. CASE ~RecordsFill /\ ~ForgetsSharer
  BY <1>1, <1>10 DEF DirectoryAtDispatch, RecordsFill, ForgetsSharer,
     directoryVars
<1> QED
  BY <1>7, <1>8, <1>9, <1>10

\* The hart of an SC holds nothing and waits for no fill.
LEMMA ScNotNeeded ==
    ASSUME L2Inv, lookup # << >>, Cmd.op = "SC"
    PROVE  ~Needed(Cmd.hart, Cmd.line)
<1>1. L2TypeOK /\ ServiceInv /\ AccessInv
  BY DEF L2Inv, TypeOK, ServiceInv
<1>2. Cmd.hart \in Harts /\ Legal(Cmd) /\ Waits(Cmd)
  BY <1>1, CmdFacts
<1>3. /\ mshr[Cmd.hart].state = "free"
      /\ dcache[Cmd.hart][Cmd.line] = Absent
  BY <1>1, <1>2 DEF Legal, Waits, AccessInv
<1>4. ~HoldsD(Cmd.hart, Cmd.line)
  BY <1>3 DEF HoldsD
<1>5. \A j \in MshrIds : \A n \in DOMAIN l2mshr[j].waiters :
         ~(DFill(l2mshr[j].waiters[n])
           /\ l2mshr[j].waiters[n].hart = Cmd.hart)
  BY <1>3, WaiterFacts DEF Waits
<1>6. \A e \in Installing : e.hart # Cmd.hart
  BY <1>3, InstallingFacts DEF Waits
<1> QED
  BY <1>4, <1>5, <1>6 DEF Needed

LEMMA DispatchRow ==
    ASSUME L2Inv, TrackInv, LinesApart, Dispatch, NEW l, l = Cmd.line
    PROVE  /\ DirectoryInv'
           /\ \A s \in Sets : s # SetOf[l] => SameRow(s)
           /\ \A x \in Lines \ {l} :
                 /\ MatchingWays(x)' \subseteq MatchingWays(x)
                 /\ \A y \in MatchingWays(x)' :
                       dir'[SetOf[x]][y] = dir[SetOf[x]][y]
           /\ \A h \in Harts, x \in Lines :
                 Needed(h, x) /\ RecordedD(h, x) => RecordedD(h, x)'
           /\ RecordsFill =>
                 \A h \in DSharer : RecordedD(h, l)'
           /\ Cmd.op = "SC" /\ Cmd.err = "none" /\ ~ScFailed
              /\ WriteProbeTargets = {} =>
                 \A w \in MatchingWays(l)' :
                    /\ dir'[SetOf[l]][w].d = {}
                    /\ dir'[SetOf[l]][w].i = {}
           /\ ~RecordsFill /\ ~ForgetsSharer => UNCHANGED <<dir, replace>>
<1>1. /\ DirectoryTypeOK /\ L2TypeOK /\ ServiceInv /\ lookup # << >>
      /\ DirectoryInv /\ Tracked
  BY DEF L2Inv, TypeOK, TrackInv, Dispatch
<1>2. l \in Lines /\ SetOf[l] \in Sets /\ Legal(Cmd)
  BY <1>1, CmdFacts
<1>3. CASE UNCHANGED <<dir, replace>> /\ ~RecordsFill /\ ~ForgetsSharer
  <2>1. DirectoryInv' /\ \A s \in Sets : SameRow(s)
    BY <1>1, <1>3 DEF DirectoryInv, SameRow
  <2>2. \A x \in Lines :
           /\ MatchingWays(x)' = MatchingWays(x)
           /\ \A h : RecordedD(h, x)' <=> RecordedD(h, x)
    BY <2>1, RowFrame, GeometryAssumption
  <2>3. Cmd.op = "SC" /\ Cmd.err = "none" /\ ~ScFailed
           /\ WriteProbeTargets = {} => MatchingWays(l)' = {}
    BY <1>2, <1>3, <2>2 DEF ForgetsSharer, LookupHit
  <2> QED BY <1>3, <2>1, <2>2, <2>3
<1>4. ASSUME NEW w \in Ways, NEW i \in SUBSET Harts, NEW d \in SUBSET Harts,
             Written(l, w, i, d), MatchingWays(l) \subseteq {w},
             \A s \in Sets : s # SetOf[l] => replace'[s] = replace[s],
             i # {} => l \in FetchLines,
             \/ /\ RecordsFill /\ w \in MatchingWays(l)
                /\ i = CmdEntry(w).i \cup ISharer
                /\ d = CmdEntry(w).d \cup DSharer
             \/ /\ RecordsFill /\ MatchingWays(l) = {}
                /\ w = VictimWay(SetOf[l])
                /\ i = ISharer /\ d = DSharer
                /\ CmdEntry(w).valid =>
                      CmdEntry(w).i \cup CmdEntry(w).d = {}
             \/ /\ ForgetsSharer /\ ~RecordsFill /\ w \in MatchingWays(l)
                /\ i = CmdEntry(w).i /\ d = {}
      PROVE  /\ DirectoryInv'
             /\ \A s \in Sets : s # SetOf[l] => SameRow(s)
             /\ \A x \in Lines \ {l} :
                   /\ MatchingWays(x)' \subseteq MatchingWays(x)
                   /\ \A y \in MatchingWays(x)' :
                         dir'[SetOf[x]][y] = dir[SetOf[x]][y]
             /\ \A h \in Harts, x \in Lines :
                   Needed(h, x) /\ RecordedD(h, x) => RecordedD(h, x)'
             /\ RecordsFill => \A h \in DSharer : RecordedD(h, l)'
             /\ Cmd.op = "SC" /\ Cmd.err = "none" /\ ~ScFailed
                /\ WriteProbeTargets = {} =>
                   \A x \in MatchingWays(l)' :
                      dir'[SetOf[l]][x].d = {} /\ dir'[SetOf[l]][x].i = {}
             /\ RecordsFill \/ ForgetsSharer
  <2>1. /\ DirectoryInv'
        /\ MatchingWays(l)' = {w}
        /\ \A x \in Lines \ {l} :
              /\ MatchingWays(x)' \subseteq MatchingWays(x)
              /\ \A y \in MatchingWays(x)' :
                    dir'[SetOf[x]][y] = dir[SetOf[x]][y]
        /\ \A h \in d : RecordedD(h, l)'
        /\ \A h \in Harts, x \in Lines : RecordedD(h, x) =>
              \/ RecordedD(h, x)'
              \/ /\ dir[SetOf[l]][w].valid /\ dir[SetOf[l]][w].line = x
                 /\ h \in dir[SetOf[l]][w].d /\ ~(x = l /\ h \in d)
    BY <1>1, <1>2, <1>4, WrittenDirectory
  <2>2. \A s \in Sets : s # SetOf[l] => SameRow(s)
    BY <1>4 DEF Written, SameRow
  <2>3. CmdEntry(w) = dir[SetOf[l]][w]
        /\ (w \in MatchingWays(l) => CmdEntry(w).line = l)
    BY DEF CmdEntry, MatchingWays
  <2>4. ASSUME NEW h \in Harts, NEW x \in Lines, Needed(h, x),
               RecordedD(h, x), ~RecordedD(h, x)'
        PROVE  FALSE
    <3>1. /\ CmdEntry(w).valid /\ CmdEntry(w).line = x
          /\ h \in CmdEntry(w).d /\ ~(x = l /\ h \in d)
      BY <2>1, <2>3, <2>4
    <3>2. ForgetsSharer /\ x = l
      BY <1>4, <2>3, <3>1
    <3>3. h = Cmd.hart
      <4>1. LookupWay(l) \in MatchingWays(l)
        BY <1>1, <1>2, <3>2, LookupWays DEF ForgetsSharer
      <4>2. LookupWay(l) = w
        BY <1>4, <4>1
      <4>3. CmdEntry(w).d \ {Cmd.hart} = {}
        BY <3>2, <4>2 DEF ForgetsSharer, WriteProbeTargets, CmdEntry
      <4> QED BY <3>1, <4>3
    <3>4. ~Needed(Cmd.hart, Cmd.line)
      BY <1>1, <3>2, ScNotNeeded DEF ForgetsSharer
    <3> QED BY <2>4, <3>2, <3>3, <3>4
  <2>5. RecordsFill => DSharer \subseteq d
    BY <1>4
  <2>6. ASSUME Cmd.op = "SC", Cmd.err = "none", ~ScFailed,
               WriteProbeTargets = {}
        PROVE  dir'[SetOf[l]][w].d = {} /\ dir'[SetOf[l]][w].i = {}
    <3>1. l \notin FetchLines
      BY <1>2, <2>6 DEF Legal, LinesApart
    <3>2. ~RecordsFill
      BY <2>6 DEF RecordsFill, PrivateFill, IsRead
    <3>3. i = {} /\ d = {}
      BY <1>4, <3>1, <3>2
    <3> QED BY <1>4, <3>3 DEF Written
  <2> QED BY <1>4, <2>1, <2>2, <2>4, <2>5, <2>6
<1> QED
  <2>1. \/ UNCHANGED <<dir, replace>> /\ ~RecordsFill /\ ~ForgetsSharer
        \/ \E w \in Ways, i, d \in SUBSET Harts :
             /\ Written(l, w, i, d)
             /\ MatchingWays(l) \subseteq {w}
             /\ \A s \in Sets : s # SetOf[l] => replace'[s] = replace[s]
             /\ i # {} => l \in FetchLines
             /\ \/ /\ RecordsFill /\ w \in MatchingWays(l)
                   /\ i = CmdEntry(w).i \cup ISharer
                   /\ d = CmdEntry(w).d \cup DSharer
                \/ /\ RecordsFill /\ MatchingWays(l) = {}
                   /\ w = VictimWay(SetOf[l])
                   /\ i = ISharer /\ d = DSharer
                   /\ CmdEntry(w).valid =>
                         CmdEntry(w).i \cup CmdEntry(w).d = {}
                \/ /\ ForgetsSharer /\ ~RecordsFill /\ w \in MatchingWays(l)
                   /\ i = CmdEntry(w).i /\ d = {}
    BY <1>1, DispatchWritten
  <2>2. CASE UNCHANGED <<dir, replace>> /\ ~RecordsFill /\ ~ForgetsSharer
    BY <1>3, <2>2
  <2>3. CASE ~(UNCHANGED <<dir, replace>> /\ ~RecordsFill /\ ~ForgetsSharer)
    <3>1. PICK w \in Ways, i \in SUBSET Harts, d \in SUBSET Harts :
             /\ Written(l, w, i, d)
             /\ MatchingWays(l) \subseteq {w}
             /\ \A s \in Sets : s # SetOf[l] => replace'[s] = replace[s]
             /\ i # {} => l \in FetchLines
             /\ \/ /\ RecordsFill /\ w \in MatchingWays(l)
                   /\ i = CmdEntry(w).i \cup ISharer
                   /\ d = CmdEntry(w).d \cup DSharer
                \/ /\ RecordsFill /\ MatchingWays(l) = {}
                   /\ w = VictimWay(SetOf[l])
                   /\ i = ISharer /\ d = DSharer
                   /\ CmdEntry(w).valid =>
                         CmdEntry(w).i \cup CmdEntry(w).d = {}
                \/ /\ ForgetsSharer /\ ~RecordsFill /\ w \in MatchingWays(l)
                   /\ i = CmdEntry(w).i /\ d = {}
      BY <2>1, <2>3
    <3>2. /\ DirectoryInv'
          /\ \A s \in Sets : s # SetOf[l] => SameRow(s)
          /\ \A x \in Lines \ {l} :
                /\ MatchingWays(x)' \subseteq MatchingWays(x)
                /\ \A y \in MatchingWays(x)' :
                      dir'[SetOf[x]][y] = dir[SetOf[x]][y]
          /\ \A h \in Harts, x \in Lines :
                Needed(h, x) /\ RecordedD(h, x) => RecordedD(h, x)'
          /\ RecordsFill => \A h \in DSharer : RecordedD(h, l)'
          /\ Cmd.op = "SC" /\ Cmd.err = "none" /\ ~ScFailed
             /\ WriteProbeTargets = {} =>
                \A x \in MatchingWays(l)' :
                   dir'[SetOf[l]][x].d = {} /\ dir'[SetOf[l]][x].i = {}
          /\ RecordsFill \/ ForgetsSharer
      BY <1>4, <3>1
    <3> QED BY <3>2
  <2> QED BY <2>2, <2>3

\* Nothing is probed, and no fill is on its way, in the directory set of a
\* command that is dispatched without an owner of its line.
LEMMA OpenRow ==
    ASSUME L2Inv, Dispatch
    PROVE  /\ \A e \in Installing : SetOf[e.line] # SetOf[Cmd.line]
           /\ MatchingMshrs = {} /\ Cmd.cacheable =>
                 \A i \in ProbingIds :
                    SetOf[l2mshr[i].line] # SetOf[Cmd.line]
<1>1. ~PendingFillSetLocked /\ (~SetLocked \/ MatchingMshrs # {})
  BY DEF Dispatch
<1>2. \A e \in Installing : SetOf[e.line] # SetOf[Cmd.line]
  BY <1>1 DEF Installing, PendingFillSetLocked, DFill, PrivateFill, IsRead
<1>3. ASSUME MatchingMshrs = {}, NEW i \in ProbingIds,
             SetOf[l2mshr[i].line] = SetOf[Cmd.line]
      PROVE  FALSE
  <2>1. /\ i \in Busy /\ l2mshr[i].cacheable
        /\ l2mshr[i].state \in ProbeStates
    BY ProbingFacts
  <2>2. l2mshr[i].line = Cmd.line
    BY <1>1, <1>3, <2>1 DEF SetLocked
  <2> QED BY <1>3, <2>1, <2>2 DEF MatchingMshrs
<1> QED
  BY <1>2, <1>3

\* An MSHR that a dispatch without a probe takes.
TakenOK(k) ==
    /\ k.state \notin ProbeStates
    /\ k.line = Cmd.line /\ k.waiters = <<Cmd>>
    /\ k.cacheable <=> Cmd.cacheable
    /\ k.private_fill <=> PrivateFill(Cmd)
    /\ ~Terminates
    /\ k.cacheable =>
          /\ MatchingMshrs = {} /\ ~ProbeNeeded
          /\ k.bypass \/ Cmd.op # "WRITE"

\* ... is no MSHR of a quiet line with sharers.
LEMMA TakenQuiet ==
    ASSUME L2Inv, TrackInv, LinesApart, Dispatch, NEW k, TakenOK(k)
    PROVE  QuietOK(k)'
<1> SUFFICES ASSUME k.cacheable, ~Settled(k), ~k.private_fill,
                    k.line \in DLines, NEW w \in MatchingWays(k.line)'
             PROVE  dir'[SetOf[k.line]][w].d = {}
                    /\ dir'[SetOf[k.line]][w].i = {}
  BY DEF QuietOK, Settled
<1>1. L2TypeOK /\ ServiceInv /\ lookup # << >>
  BY DEF L2Inv, TypeOK, Dispatch
<1>2. Cmd \in Commands /\ Legal(Cmd)
  BY <1>1, CmdFacts
<1>3. /\ k.line = Cmd.line /\ Cmd.cacheable /\ ~PrivateFill(Cmd)
      /\ ~Terminates /\ ~ProbeNeeded /\ Cmd.op # "WRITE"
  BY DEF TakenOK, Settled
<1>4. Cmd.op = "SC"
  <2>1. Cmd.op \in {"READ", "LR", "SC"}
    BY <1>2, <1>3 DEF Commands, Ops, Terminates
  <2>2. Cmd.op # "LR"
    BY <1>2, <1>3 DEF PrivateFill, IsRead, Legal
  <2>3. Cmd.op # "READ"
    <3>1. Cmd.op = "READ" => Cmd.source \in {"PTW", "LEGACY"}
      BY <1>2, <1>3 DEF PrivateFill, IsRead, Commands, Sources
    <3>2. Cmd.source # "LEGACY"
      BY <1>2, <1>3 DEF Legal, Terminates
    <3>3. Cmd.source # "PTW"
      BY <1>2, <1>3 DEF Legal, LinesApart
    <3> QED BY <3>1, <3>2, <3>3
  <2> QED BY <2>1, <2>2, <2>3
<1>5. Cmd.err = "none" /\ ~ScFailed /\ WriteProbeTargets = {}
  BY <1>3, <1>4 DEF Terminates, ProbeNeeded, WriteProbeNeeded, CoherentWrite,
     OpWrites
<1>6. PICK l : l = k.line
  OBVIOUS
<1>7. \A x \in MatchingWays(l)' :
         dir'[SetOf[l]][x].d = {} /\ dir'[SetOf[l]][x].i = {}
  BY <1>3, <1>4, <1>5, <1>6, DispatchRow
<1>8. w \in MatchingWays(l)'
  BY <1>6 DEF MatchingWays
<1> QED
  BY <1>6, <1>7, <1>8

\* A dispatch that starts no probe and joins no MSHR.
LEMMA DispatchTracks ==
    ASSUME L2Inv, L2Inv', TrackInv, LinesApart, Dispatch, NEW t \in MshrIds,
           \A j \in MshrIds : j # t => l2mshr'[j] = l2mshr[j],
           \/ l2mshr'[t] = l2mshr[t]
           \/ l2mshr[t].state = "IDLE" /\ TakenOK(l2mshr'[t]),
           l2mshr'[t] = l2mshr[t] \/ (DFill(Cmd) => RecordsFill),
           RecordsFill \/ ForgetsSharer => MatchingMshrs = {} /\ Cmd.cacheable,
           \A e \in Installing' :
              e \in Installing \/ (e = Cmd /\ DFill(Cmd) /\ RecordsFill)
    PROVE  TrackInv'
<1>1. /\ L2TypeOK /\ DirectoryInv /\ ProbeEntries /\ ProbeApart /\ Revoked
      /\ MergeQuiet /\ Tracked /\ lookup # << >> /\ ServiceInv /\ MshrInv
  BY DEF TrackInv, L2Inv, TypeOK, Dispatch
<1>2. UNCHANGED <<tracker, endpoint, active_probe, dcache, mshr>>
  BY DEF Dispatch, probeVars, privateVars
<1>3. PICK l : l = Cmd.line
  OBVIOUS
<1>4. PICK f : f = Cmd
  OBVIOUS
<1>5. l \in Lines /\ f.hart \in Harts /\ f.line = l /\ f \in Commands
  BY <1>1, <1>3, <1>4, CmdFacts
<1>6. /\ DirectoryInv'
      /\ \A s \in Sets : s # SetOf[l] => SameRow(s)
      /\ \A x \in Lines \ {l} :
            /\ MatchingWays(x)' \subseteq MatchingWays(x)
            /\ \A y \in MatchingWays(x)' :
                  dir'[SetOf[x]][y] = dir[SetOf[x]][y]
      /\ \A h \in Harts, x \in Lines :
            Needed(h, x) /\ RecordedD(h, x) => RecordedD(h, x)'
      /\ RecordsFill => \A h \in DSharer : RecordedD(h, l)'
      /\ ~RecordsFill /\ ~ForgetsSharer => UNCHANGED <<dir, replace>>
  BY <1>3, DispatchRow
<1>7. \A i \in ProbingIds' : /\ i \in ProbingIds /\ i \in MshrIds
                             /\ l2mshr'[i] = l2mshr[i]
  <2> SUFFICES ASSUME NEW i \in ProbingIds'
               PROVE  /\ i \in ProbingIds /\ i \in MshrIds
                      /\ l2mshr'[i] = l2mshr[i]
    OBVIOUS
  <2>1. i \in MshrIds /\ l2mshr'[i].state \in ProbeStates
    BY DEF ProbingIds
  <2>2. l2mshr'[i] = l2mshr[i]
    BY <2>1 DEF TakenOK
  <2> QED BY <2>1, <2>2 DEF ProbingIds
<1>8. \A j \in MshrIds \ ProbingIds' :
         l2mshr'[j] = l2mshr[j] => j \notin ProbingIds
  BY DEF ProbingIds
<1>9. \A i \in ProbingIds : /\ SetOf[l2mshr[i].line] \in Sets
                            /\ SameRow(SetOf[l2mshr[i].line])
                            /\ SetOf[l2mshr[i].probe_line]
                                  = SetOf[l2mshr[i].line]
  <2> SUFFICES ASSUME NEW i \in ProbingIds
               PROVE  /\ SetOf[l2mshr[i].line] \in Sets
                      /\ SameRow(SetOf[l2mshr[i].line])
                      /\ SetOf[l2mshr[i].probe_line] = SetOf[l2mshr[i].line]
    OBVIOUS
  <2>1. SetOf[l2mshr[i].line] \in Sets
    BY <1>1, MshrTyped DEF ProbingIds
  <2>2. SameRow(SetOf[l2mshr[i].line])
    <3>1. CASE RecordsFill \/ ForgetsSharer
      BY <1>3, <1>6, <2>1, <3>1, OpenRow
    <3>2. CASE ~RecordsFill /\ ~ForgetsSharer
      BY <1>6, <3>2 DEF SameRow
    <3> QED BY <3>1, <3>2
  <2> QED BY <1>1, <2>1, <2>2 DEF ProbeEntries, ProbeEntryOK
<1>10. ProbeEntries'
  BY <1>1, <1>7, <1>9, EntriesKept DEF SameProbe
<1>11. ProbeApart'
  <2>1. \A i \in ProbingIds' :
           i \in ProbingIds /\ SameTarget(l2mshr[i], l2mshr'[i])
    BY <1>7 DEF SameTarget
  <2>2. \A k \in Busy' :
           \/ k \in Busy /\ GoesOn(l2mshr[k], l2mshr'[k])
           \/ \A i \in ProbingIds' :
                 /\ l2mshr[i].coh_action = "ALLOCATE"
                 /\ l2mshr'[k].cacheable /\ l2mshr'[k].line \in DLines
                 => l2mshr'[k].line # l2mshr[i].probe_line
    <3> SUFFICES ASSUME NEW k \in Busy'
                 PROVE  \/ k \in Busy /\ GoesOn(l2mshr[k], l2mshr'[k])
                        \/ \A i \in ProbingIds' :
                              l2mshr'[k].cacheable =>
                                  l2mshr'[k].line # l2mshr[i].probe_line
      OBVIOUS
    <3>1. CASE l2mshr'[k] = l2mshr[k]
      BY <3>1 DEF Busy, GoesOn
    <3>2. CASE l2mshr'[k] # l2mshr[k]
      <4>1. TakenOK(l2mshr'[k])
        BY <3>2 DEF Busy
      <4>2. ASSUME l2mshr'[k].cacheable, NEW i \in ProbingIds'
            PROVE  l2mshr'[k].line # l2mshr[i].probe_line
        <5>1. i \in ProbingIds
          BY <1>7
        <5>2. SetOf[l2mshr[i].line] # SetOf[Cmd.line]
          BY <4>1, <4>2, <5>1, OpenRow DEF TakenOK
        <5>3. l2mshr'[k].line = Cmd.line
          BY <4>1 DEF TakenOK
        <5> QED BY <1>9, <5>1, <5>2, <5>3
      <4> QED BY <4>2
    <3> QED BY <3>1, <3>2
  <2>3. \A e \in Installing' :
           \/ e \in Installing
           \/ \A i \in ProbingIds' : SetOf[l2mshr[i].line] # SetOf[e.line]
    BY <1>7, OpenRow
  <2> QED BY <2>1, <2>2, <2>3, ApartKept
<1>12. Revoked'
  <2>1. \A i \in ProbingIds' :
           l2mshr'[i].state = "PROBE_INFLIGHT" =>
               /\ i \in ProbingIds /\ l2mshr[i].state = "PROBE_INFLIGHT"
               /\ SameTarget(l2mshr[i], l2mshr'[i])
    BY <1>7 DEF SameTarget
  <2>2. \A h \in Harts : HoldsD(h, tracker.line)' => HoldsD(h, tracker.line)
    BY <1>2 DEF HoldsD
  <2> QED BY <1>1, <1>2, <2>1, <2>2, RevokedKept
<1>13. MergeQuiet'
  <2> SUFFICES ASSUME NEW k \in Busy' PROVE QuietOK(l2mshr[k])'
    BY DEF MergeQuiet
  <2>1. PICK m : m = l2mshr'[k]
    OBVIOUS
  <2>2. CASE m = l2mshr[k]
    <3>1. k \in Busy /\ QuietOK(m) /\ m.line \in Lines
      BY <1>1, <2>1, <2>2, MshrTyped DEF Busy, MergeQuiet
    <3>2. CASE m.line # l
      <4>1. /\ MatchingWays(m.line)' \subseteq MatchingWays(m.line)
            /\ \A y \in MatchingWays(m.line)' :
                  dir'[SetOf[m.line]][y] = dir[SetOf[m.line]][y]
        BY <1>6, <3>1, <3>2
      <4>2. QuietOK(m)'
        BY <3>1, <4>1 DEF QuietOK, Settled
      <4> QED BY <2>1, <4>2 DEF QuietOK
    <3>3. CASE m.line = l
      <4>1. m.cacheable => MatchingMshrs # {}
        BY <1>3, <2>2, <3>1, <3>3 DEF MatchingMshrs
      <4>2. m.cacheable => UNCHANGED <<dir, replace>>
        BY <1>6, <4>1
      <4>3. QuietOK(m)'
        BY <3>1, <4>2 DEF QuietOK, Settled, MatchingWays
      <4> QED BY <2>1, <4>3 DEF QuietOK
    <3> QED BY <3>2, <3>3
  <2>3. CASE m # l2mshr[k]
    <3>1. TakenOK(m)
      BY <2>1, <2>3 DEF Busy
    <3>2. QuietOK(m)'
      BY <3>1, TakenQuiet
    <3> QED BY <2>1, <3>2 DEF QuietOK
  <2> QED BY <2>2, <2>3
<1>14. Tracked'
  <2>1. \A h \in Harts, x \in Lines : HoldsD(h, x)' => Needed(h, x)
    BY <1>2 DEF HoldsD, Needed
  <2>0. DFill(f) => DSharer = {f.hart}
    BY <1>4 DEF DFill, DSharer
  <2>2. ASSUME NEW j \in MshrIds \ ProbingIds',
               NEW n \in DOMAIN l2mshr'[j].waiters,
               DFill(l2mshr'[j].waiters[n]),
               NEW h, h = l2mshr'[j].waiters[n].hart
        PROVE  \/ Needed(h, l2mshr'[j].line)
               \/ l2mshr'[j].line = l /\ RecordedD(h, l)'
    <3>1. CASE l2mshr'[j] = l2mshr[j]
      BY <1>8, <2>2, <3>1, NeededFills
    <3>2. CASE l2mshr'[j] # l2mshr[j]
      <4>1. TakenOK(l2mshr'[j]) /\ (DFill(f) => RecordsFill)
        BY <1>4, <3>2
      <4>2. l2mshr'[j].waiters = <<f>> /\ l2mshr'[j].line = l
        BY <1>3, <1>4, <4>1 DEF TakenOK
      <4>3. l2mshr'[j].waiters[n] = f
        BY <4>2
      <4> QED BY <1>6, <2>0, <2>2, <4>1, <4>2, <4>3
    <3> QED BY <3>1, <3>2
  <2>3. ASSUME NEW e \in Installing'
        PROVE  Needed(e.hart, e.line) \/ (e.line = l /\ RecordedD(e.hart, l)')
    <3>1. CASE e \in Installing
      BY <3>1, NeededFills
    <3>2. CASE e = f /\ DFill(f) /\ RecordsFill
      BY <1>5, <1>6, <2>0, <3>2
    <3> QED BY <1>4, <3>1, <3>2
  <2>4. \A h \in Harts, x \in Lines :
           Needed(h, x)' => Needed(h, x) \/ RecordedD(h, x)'
    BY <2>1, <2>2, <2>3, NeededStep
  <2> QED BY <1>1, <1>6, <2>4, TrackedKept
<1> QED
  BY <1>6, <1>10, <1>11, <1>12, <1>13, <1>14 DEF TrackInv

\* The answer of a dispatch.
LEMMA ToHitInstalling ==
    ASSUME NEW v, ToHit(v), UNCHANGED responses
    PROVE  \A e \in Installing' :
              \/ e \in Installing
              \/ e = Cmd /\ DFill(Cmd) /\ Cmd.err = "none"
<1> DEFINE t == Cmd.op = "SC" /\ Cmd.err = "none" /\ ScReservationMatch
           r == [cmd |-> Cmd, data |-> v, error |-> Cmd.err # "none",
                 sc_success |-> t]
<1>1. hit' = <<r>>
  BY DEF ToHit
<1>2. r.cmd = Cmd /\ (r.error <=> Cmd.err # "none")
  OBVIOUS
<1> HIDE DEF r
<1>3. \A x \in Elements(hit') : x = r
  BY <1>1 DEF Elements
<1> QED
  BY <1>2, <1>3 DEF Installing

LEMMA FillRecorded ==
    DFill(Cmd) /\ Cmd.err = "none" /\ ~PrivateProbeNeeded => RecordsFill
  BY DEF RecordsFill, DFill, PrivateFill, IsRead

\* Only a cacheable command writes the directory, unless it terminates.
LEMMA WritesCacheable ==
    ASSUME L2Inv, lookup # << >>, RecordsFill \/ ForgetsSharer
    PROVE  ~Terminates /\ Cmd.cacheable
<1>1. Legal(Cmd)
  BY CmdFacts DEF L2Inv, TypeOK
<1>2. CASE RecordsFill
  BY <1>2 DEF RecordsFill, PrivateFill, IsRead, Terminates, ScFailed
<1>3. CASE ForgetsSharer
  BY <1>1, <1>3, AccessAssumption DEF ForgetsSharer, Legal, Terminates
<1> QED
  BY <1>2, <1>3

LEMMA ImmediateTracks ==
    ASSUME L2Inv, L2Inv', TrackInv, LinesApart, DispatchImmediate
    PROVE  TrackInv'
<1>1. /\ Dispatch /\ Terminates /\ ToHit(InitValue) /\ lookup # << >>
      /\ UNCHANGED <<l2mshr, responses>>
  BY DEF DispatchImmediate, Dispatch
<1>2. ~RecordsFill /\ ~ForgetsSharer
  BY <1>1, WritesCacheable
<1>3. ~(DFill(Cmd) /\ Cmd.err = "none")
  BY <1>1 DEF DFill, Terminates, ScFailed
<1>4. \A e \in Installing' : e \in Installing
  BY <1>1, <1>3, ToHitInstalling
<1>5. 0 \in MshrIds
  BY IdsNat
<1> QED
  BY <1>1, <1>2, <1>4, <1>5, DispatchTracks

LEMMA HitTracks ==
    ASSUME L2Inv, L2Inv', TrackInv, LinesApart,
           DispatchVictimHit \/ DispatchHit
    PROVE  TrackInv'
<1>1. /\ Dispatch /\ Unowned /\ ~ProbeNeeded /\ lookup # << >>
      /\ \E v : ToHit(v)
      /\ UNCHANGED <<l2mshr, responses>>
  BY DEF DispatchVictimHit, DispatchHit, Dispatch, NotVictim
<1>2. MatchingMshrs = {} /\ Cmd.cacheable
  BY <1>1 DEF Unowned, Cached
<1>3. \A e \in Installing' :
         e \in Installing \/ (e = Cmd /\ DFill(Cmd) /\ RecordsFill)
  BY <1>1, ToHitInstalling, FillRecorded DEF ProbeNeeded
<1>4. 0 \in MshrIds
  BY IdsNat
<1> QED
  BY <1>1, <1>2, <1>3, <1>4, DispatchTracks

\* A command takes a free MSHR.
LEMMA TakeTracks ==
    ASSUME L2Inv, L2Inv', TrackInv, LinesApart, Dispatch, FreeMshrs # {},
           NEW m, TakeMshr(m), TakenOK(m), UNCHANGED hit
    PROVE  TrackInv'
<1> DEFINE t == First(FreeMshrs)
<1>1. /\ L2TypeOK /\ MshrInv /\ lookup # << >> /\ UNCHANGED responses
  BY DEF L2Inv, TypeOK, Dispatch
<1>2. t \in MshrIds /\ l2mshr[t].state = "IDLE"
  BY <1>1, FreeFacts
<1>3. l2mshr' = [l2mshr EXCEPT ![t] = m]
  BY DEF TakeMshr
<1> HIDE DEF t
<1>4. l2mshr'[t] = m /\ \A j \in MshrIds : j # t => l2mshr'[j] = l2mshr[j]
  BY <1>1, <1>2, <1>3 DEF L2TypeOK
<1>5. \A e \in Installing' : e \in Installing
  BY <1>1 DEF Installing
<1>6. RecordsFill \/ ForgetsSharer => MatchingMshrs = {} /\ Cmd.cacheable
  BY <1>1, WritesCacheable DEF TakenOK
<1>7. DFill(Cmd) => RecordsFill
  <2>1. DFill(Cmd) => ~PrivateProbeNeeded /\ Cmd.err = "none"
    BY DEF TakenOK, DFill, ProbeNeeded, Terminates
  <2> QED BY <2>1, FillRecorded
<1> QED
  BY <1>2, <1>4, <1>5, <1>6, <1>7, DispatchTracks

LEMMA TakesTrack ==
    ASSUME L2Inv, L2Inv', TrackInv, LinesApart,
           DispatchBypass \/ DispatchWriteAround \/ DispatchAlloc
    PROVE  TrackInv'
<1>1. L2TypeOK /\ ServiceInv
  BY DEF L2Inv, TypeOK
<1>2. CASE DispatchBypass \/ DispatchWriteAround
  <2> DEFINE m == [NewMshr("NEED_BYPASS") EXCEPT !.bypass = TRUE]
  <2>1. /\ Dispatch /\ lookup # << >> /\ FreeMshrs # {} /\ TakeMshr(m)
        /\ UNCHANGED hit
        /\ ~Terminates
        /\ Cmd.cacheable => MatchingMshrs = {} /\ ~ProbeNeeded
    BY <1>2 DEF DispatchBypass, DispatchWriteAround, Dispatch, WritesAround,
       Misses, NotVictim, Unowned, Cached
  <2>2. /\ m.state = "NEED_BYPASS" /\ m.bypass = TRUE
        /\ m.line = Cmd.line /\ m.cacheable = Cmd.cacheable
        /\ m.private_fill = PrivateFill(Cmd) /\ m.waiters = <<Cmd>>
    BY <1>1, <2>1, BypassFields
  <2> HIDE DEF m
  <2>3. TakenOK(m)
    BY <2>1, <2>2 DEF TakenOK, ProbeStates
  <2> QED BY <2>1, <2>3, TakeTracks
<1>3. CASE DispatchAlloc
  <2> DEFINE m == AllocMshr
  <2>1. /\ Dispatch /\ lookup # << >> /\ FreeMshrs # {} /\ OpenWays # {}
        /\ TakeMshr(m) /\ UNCHANGED hit
        /\ ~Terminates /\ MatchingMshrs = {} /\ ~ProbeNeeded
        /\ Cmd.op # "WRITE"
    BY <1>3 DEF DispatchAlloc, Dispatch, WritesAround, Misses, NotVictim,
       Unowned, Cached
  <2>2. /\ m.state \in {"NEED_WB", "NEED_FILL"} /\ m.bypass = FALSE
        /\ m.line = Cmd.line /\ m.cacheable = Cmd.cacheable
        /\ m.private_fill = PrivateFill(Cmd) /\ m.waiters = <<Cmd>>
    BY <1>1, <2>1, AllocMshrFields
  <2> HIDE DEF m
  <2>3. TakenOK(m)
    BY <2>1, <2>2 DEF TakenOK, ProbeStates
  <2> QED BY <2>1, <2>3, TakeTracks
<1> QED
  BY <1>2, <1>3

\* The MSHR of a probing dispatch fits the entry that it was promised.
LEMMA NewProbeEntry ==
    ASSUME L2Inv, TrackInv, LinesApart, Dispatch, ProbeNeeded,
           NEW b \in L2Mshrs, b.waiters = <<Cmd>>, b.line = Cmd.line,
           b.private_fill <=> PrivateFill(Cmd), b.clear_d = {},
           NEW k, k = Probing(b), UNCHANGED <<dir, replace>>
    PROVE  ProbeEntryOK(k)'
<1>1. /\ DirectoryTypeOK /\ L2TypeOK /\ ServiceInv /\ lookup # << >>
      /\ DirectoryInv
  BY DEF L2Inv, TypeOK, Dispatch, TrackInv
<1>2. Legal(Cmd) /\ Cmd.line \in Lines /\ SetOf[Cmd.line] \in Sets
  BY <1>1, CmdFacts
<1> DEFINE e == dir[SetOf[Cmd.line]][LookupWay(Cmd.line)]
           v == DirVictim
<1>3. /\ k.private_fill = b.private_fill /\ k.line = Cmd.line
      /\ k.waiters = <<Cmd>>
      /\ PrivateProbeNeeded =>
            /\ k.coh_action = "ALLOCATE"
            /\ k.entry = VictimWay(SetOf[Cmd.line])
            /\ k.targets = v.i \cup v.d
            /\ v.d # {} => "D" \in k.mask
            /\ k.probe_line = v.line
            /\ k.add_i = ISharer /\ k.add_d = DSharer
            /\ k.clear_d = {}
      /\ ~PrivateProbeNeeded =>
            /\ k.coh_action = "CLEAR"
            /\ k.entry = LookupWay(Cmd.line)
            /\ k.targets = WriteProbeTargets /\ k.mask = {"D"}
            /\ k.probe_line = Cmd.line
            /\ k.add_i = e.i /\ k.add_d = e.d
            /\ k.clear_d = IF Cmd.op = "SC" THEN Harts ELSE WriteProbeTargets
  BY <1>1, ProbingFields
<1>4. k.waiters # << >> /\ Len(k.waiters) = 1 /\ Head(k.waiters) = Cmd
      /\ \A n \in DOMAIN k.waiters : k.waiters[n] = Cmd
  BY <1>3
<1>5. CASE PrivateProbeNeeded
  <2>1. /\ PrivateFill(Cmd) /\ MatchingWays(Cmd.line) = {}
        /\ v.valid /\ v.i \cup v.d # {}
    BY <1>5 DEF PrivateProbeNeeded, LookupHit
  <2>2. v = dir[SetOf[Cmd.line]][k.entry] /\ k.entry \in Ways
        /\ k.entry = VictimWay(SetOf[k.line])
    BY <1>1, <1>3, <1>5, ProbeFacts DEF DirVictim
  <2>3. SetOf[v.line] = SetOf[Cmd.line]
    BY <1>1, <1>2, <2>1, <2>2 DEF DirectoryInv
  <2>4. v.line # Cmd.line
    BY <2>1, <2>2 DEF MatchingWays
  <2>5. ISharer # {} => Cmd.line \in FetchLines
    BY <1>2 DEF ISharer, Legal
  <2>6. DFill(Cmd) => Cmd.hart \in DSharer
    BY DEF DFill, DSharer
  <2> HIDE DEF v
  <2>7. ReplaceOK(k, v)
    BY <1>3, <1>4, <1>5, <2>1, <2>4, <2>5, <2>6 DEF ReplaceOK
  <2>8. EntryOf(k)' = v /\ EntryOf(k) = v
    BY <1>3, <2>2 DEF EntryOf
  <2>9. /\ MatchingWays(k.line)' = {}
        /\ VictimWay(SetOf[k.line])' = VictimWay(SetOf[k.line])
    BY <1>3, <2>1 DEF MatchingWays, VictimWay, InvalidWays
  <2> QED
    BY <1>3, <1>5, <2>1, <2>2, <2>3, <2>7, <2>8, <2>9
       DEF ProbeEntryOK, ReplaceOK
<1>6. CASE ~PrivateProbeNeeded
  <2>1. /\ Cmd.cacheable /\ OpWrites(Cmd.op) /\ WriteProbeTargets # {}
    BY <1>6 DEF ProbeNeeded, WriteProbeNeeded, CoherentWrite
  <2>2. ~PrivateFill(Cmd)
    BY <2>1 DEF PrivateFill, IsRead, OpWrites
  <2>3. /\ LookupWay(Cmd.line) \in MatchingWays(Cmd.line)
        /\ WriteProbeTargets = e.d \ {Cmd.hart}
    BY <1>1, <2>1, ProbeFacts
  <2>4. e.valid /\ e.line = Cmd.line
    BY <2>3 DEF MatchingWays
  <2>5. EntryOf(k)' = e
    BY <1>3, <1>6 DEF EntryOf
  <2> HIDE DEF e
  <2>6. RevokeOK(k, e)
    BY <1>3, <1>4, <1>6, <2>1, <2>2, <2>3 DEF RevokeOK
  <2> QED
    BY <1>3, <1>6, <2>4, <2>5, <2>6 DEF ProbeEntryOK, RevokeOK
<1> QED
  BY <1>5, <1>6

LEMMA ProbeTakenTracks ==
    ASSUME L2Inv, L2Inv', TrackInv, LinesApart, Dispatch, ProbeNeeded,
           FreeMshrs # {}, NEW b \in L2Mshrs, TakeMshr(Probing(b)),
           Cmd.cacheable, MatchingMshrs = {},
           b.waiters = <<Cmd>>, b.line = Cmd.line,
           b.private_fill <=> PrivateFill(Cmd), b.clear_d = {},
           UNCHANGED hit
    PROVE  TrackInv'
<1> DEFINE t == First(FreeMshrs)
<1>0. PICK k : k = Probing(b)
  OBVIOUS
<1>1. /\ DirectoryTypeOK /\ L2TypeOK /\ ServiceInv /\ MshrInv
      /\ lookup # << >>
      /\ DirectoryInv /\ ProbeEntries /\ ProbeApart /\ Revoked
      /\ MergeQuiet /\ Tracked
  BY DEF L2Inv, TypeOK, Dispatch, TrackInv
<1>2. UNCHANGED <<tracker, endpoint, active_probe, dcache, mshr, responses>>
  BY DEF Dispatch, probeVars, privateVars
<1>3. UNCHANGED <<dir, replace>>
  <2>1. ~RecordsFill /\ ~ForgetsSharer
    BY DEF RecordsFill, ForgetsSharer, ProbeNeeded, PrivateProbeNeeded,
       WriteProbeNeeded, CoherentWrite, PrivateFill, IsRead, OpWrites
  <2>2. PICK l : l = Cmd.line
    OBVIOUS
  <2> QED BY <2>1, <2>2, DispatchRow
<1>4. t \in MshrIds /\ l2mshr[t].state = "IDLE"
  BY <1>1, FreeFacts
<1>5. l2mshr' = [l2mshr EXCEPT ![t] = k]
  BY <1>0 DEF TakeMshr
<1> HIDE DEF t
<1>6. l2mshr'[t] = k /\ \A j \in MshrIds : j # t => l2mshr'[j] = l2mshr[j]
  BY <1>1, <1>4, <1>5 DEF L2TypeOK
<1>7. k.state = "NEED_PROBE" /\ k.line = Cmd.line
  BY <1>0, <1>1, ProbingFields
<1>8. /\ t \in ProbingIds' /\ t \notin ProbingIds /\ t \notin Busy
      /\ \A i \in ProbingIds' :
            i = t \/ (i \in ProbingIds /\ l2mshr'[i] = l2mshr[i])
      /\ \A i \in Busy' : i = t \/ (i \in Busy /\ l2mshr'[i] = l2mshr[i])
      /\ ProbingIds \subseteq ProbingIds'
  BY <1>4, <1>6, <1>7 DEF ProbingIds, ProbeStates, Busy
<1>9. DirectoryInv' /\ \A s : SameRow(s)
  BY <1>1, <1>3 DEF DirectoryInv, SameRow
<1>10. ProbeEntryOK(k)'
  BY <1>0, <1>3, NewProbeEntry
<1>11. ProbeEntries'
  <2> SUFFICES ASSUME NEW i \in ProbingIds'
               PROVE  ProbeEntryOK(l2mshr[i])'
    BY DEF ProbeEntries
  <2>1. PICK m : m = l2mshr'[i]
    OBVIOUS
  <2>2. CASE i = t
    BY <1>6, <1>10, <2>2 DEF ProbeEntryOK, EntryOf
  <2>3. CASE i # t
    <3>1. /\ m = l2mshr[i] /\ i \in ProbingIds /\ i \in MshrIds
          /\ m.line \in Lines /\ m.entry \in Ways
      BY <1>1, <1>8, <2>1, <2>3, MshrTyped DEF ProbingIds
    <3>2. ProbeEntryOK(m) /\ SameProbe(m, m)
      BY <1>1, <3>1 DEF ProbeEntries, SameProbe
    <3>3. ProbeEntryOK(m)'
      BY <1>9, <3>1, <3>2, EntryKept
    <3> QED BY <2>1, <3>3 DEF ProbeEntryOK, EntryOf
  <2> QED BY <2>2, <2>3
<1>12. /\ \A i \in ProbingIds : SetOf[l2mshr[i].line] # SetOf[k.line]
       /\ \A e \in Installing : SetOf[e.line] # SetOf[k.line]
  BY <1>7, OpenRow
<1>13. \A i \in ProbingIds' :
          SetOf[l2mshr'[i].probe_line] = SetOf[l2mshr'[i].line]
  BY <1>11 DEF ProbeEntries, ProbeEntryOK
<1>14. ProbeApart'
  <2>1. \A i, j \in ProbingIds' :
           SetOf[l2mshr'[i].line] = SetOf[l2mshr'[j].line] => i = j
    BY <1>1, <1>6, <1>8, <1>12 DEF ProbeApart
  <2>2. ASSUME NEW i \in ProbingIds', NEW e \in Installing'
        PROVE  e.line # l2mshr'[i].line /\ e.line # l2mshr'[i].probe_line
    <3>1. e \in Installing
      BY <1>2 DEF Installing
    <3>2. CASE i = t
      BY <1>6, <1>12, <1>13, <3>1, <3>2
    <3>3. CASE i # t
      BY <1>1, <1>8, <3>1, <3>3 DEF ProbeApart
    <3> QED BY <3>2, <3>3
  <2>3. ASSUME NEW i \in ProbingIds', NEW j \in Busy',
               l2mshr'[i].coh_action = "ALLOCATE",
               l2mshr'[j].cacheable, l2mshr'[j].line = l2mshr'[i].probe_line,
               l2mshr'[j].line \in DLines
        PROVE  ~l2mshr'[j].private_fill /\ Settled(l2mshr[j])'
    <3>1. CASE i # t /\ j # t
      <4>1. /\ i \in ProbingIds /\ l2mshr'[i] = l2mshr[i]
            /\ j \in Busy /\ l2mshr'[j] = l2mshr[j]
        BY <1>8, <3>1
      <4>2. ~l2mshr[j].private_fill /\ Settled(l2mshr[j])
        BY <1>1, <2>3, <4>1 DEF ProbeApart
      <4> QED BY <4>1, <4>2 DEF Settled
    <3>2. CASE i # t /\ j = t
      BY <1>6, <1>8, <1>12, <1>13, <2>3, <3>2
    <3>3. CASE i = t
      <4>1. /\ PrivateProbeNeeded /\ k.probe_line = DirVictim.line
            /\ VictimWay(SetOf[Cmd.line]) \in Ways
        <5>1. k.coh_action = "ALLOCATE"
          BY <1>6, <2>3, <3>3
        <5> QED BY <1>0, <1>1, <5>1, ProbingFields, ProbeFacts
      <4>2. DirVictim.valid /\ DirVictim.i \cup DirVictim.d # {}
            /\ ~LookupHit(Cmd.line)
        BY <4>1 DEF PrivateProbeNeeded
      <4>3. k.probe_line # Cmd.line
        BY <4>1, <4>2 DEF LookupHit, MatchingWays, DirVictim
      <4>4. j # t
        BY <1>6, <1>7, <2>3, <3>3, <4>3
      <4> DEFINE m == l2mshr[j]
      <4>5. /\ j \in Busy /\ l2mshr'[j] = m /\ m.cacheable
            /\ m.line = k.probe_line /\ m.line \in DLines
            /\ SetOf[m.line] = SetOf[Cmd.line]
        BY <1>6, <1>7, <1>8, <1>13, <2>3, <3>3, <4>4
      <4>6. ~m.private_fill /\ m.state \notin ProbeStates
        BY <4>3, <4>5 DEF Dispatch, SetLocked
      <4>7. VictimWay(SetOf[Cmd.line]) \in MatchingWays(m.line)
        BY <4>1, <4>2, <4>5 DEF MatchingWays, DirVictim
      <4>8. QuietOK(m)
        BY <1>1, <4>5 DEF MergeQuiet
      <4>9. Settled(m)
        BY <4>2, <4>5, <4>6, <4>7, <4>8 DEF QuietOK, DirVictim
      <4> QED BY <4>5, <4>6, <4>9 DEF Settled
    <3> QED BY <3>1, <3>2, <3>3
  <2> QED BY <2>1, <2>2, <2>3 DEF ProbeApart
<1>15. Revoked'
  <2>1. \A i \in ProbingIds' :
           l2mshr'[i].state = "PROBE_INFLIGHT" =>
               /\ i \in ProbingIds /\ l2mshr[i].state = "PROBE_INFLIGHT"
               /\ SameTarget(l2mshr[i], l2mshr'[i])
    <3> SUFFICES ASSUME NEW i \in ProbingIds',
                        l2mshr'[i].state = "PROBE_INFLIGHT"
                 PROVE  i \in ProbingIds /\ l2mshr'[i] = l2mshr[i]
      BY DEF SameTarget
    <3>1. i # t
      BY <1>6, <1>7
    <3> QED BY <1>8, <3>1
  <2>2. \A h \in Harts : HoldsD(h, tracker.line)' => HoldsD(h, tracker.line)
    BY <1>2 DEF HoldsD
  <2> QED BY <1>1, <1>2, <2>1, <2>2, RevokedKept
<1>16. MergeQuiet'
  <2> SUFFICES ASSUME NEW j \in Busy' PROVE QuietOK(l2mshr[j])'
    BY DEF MergeQuiet
  <2>1. PICK m : m = l2mshr'[j]
    OBVIOUS
  <2>2. QuietOK(m)'
    <3>1. CASE j = t
      BY <1>6, <1>7, <2>1, <3>1 DEF QuietOK, ProbeStates
    <3>2. CASE j # t
      <4>1. QuietOK(m)
        BY <1>1, <1>8, <2>1, <3>2 DEF MergeQuiet
      <4> QED BY <1>3, <4>1 DEF QuietOK, Settled, MatchingWays
    <3> QED BY <3>1, <3>2
  <2> QED BY <2>1, <2>2 DEF QuietOK
<1>17. Tracked'
  <2>1. \A h \in Harts, x \in Lines : HoldsD(h, x)' => Needed(h, x)
    BY <1>2 DEF HoldsD, Needed
  <2>2. ASSUME NEW j \in MshrIds \ ProbingIds',
               NEW n \in DOMAIN l2mshr'[j].waiters,
               DFill(l2mshr'[j].waiters[n])
        PROVE  Needed(l2mshr'[j].waiters[n].hart, l2mshr'[j].line)
    BY <1>6, <1>8, <2>2, NeededFills
  <2>3. \A e \in Installing' : Needed(e.hart, e.line)
    BY <1>2, NeededFills DEF Installing
  <2>4. \A h \in Harts, x \in Lines :
           Needed(h, x)' => Needed(h, x) \/ RecordedD(h, x)'
    BY <2>1, <2>2, <2>3, NeededStep
  <2>5. \A h \in Harts, x \in Lines :
           Needed(h, x) /\ RecordedD(h, x) => RecordedD(h, x)'
    BY <1>3 DEF RecordedD, MatchingWays
  <2> QED BY <1>1, <2>4, <2>5, TrackedKept
<1> QED
  BY <1>9, <1>11, <1>14, <1>15, <1>16, <1>17 DEF TrackInv

LEMMA ProbeTracks ==
    ASSUME L2Inv, L2Inv', TrackInv, LinesApart, DispatchProbe
    PROVE  TrackInv'
<1>1. L2TypeOK /\ ServiceInv /\ Dispatch /\ lookup # << >>
  BY DEF L2Inv, TypeOK, DispatchProbe, Dispatch
<1>2. ProbeNeeded /\ FreeMshrs # {} /\ UNCHANGED hit
  BY DEF DispatchProbe
<1>3. NotVictim => Cmd.cacheable /\ MatchingMshrs = {}
  BY DEF NotVictim, Unowned, Cached
<1>4. CASE /\ NotVictim /\ HitWays # {}
           /\ TakeMshr(Probing([NewMshr("REPLAY") EXCEPT
                                  !.way = First(HitWays),
                                  !.data = Row[First(HitWays)].data]))
  <2> DEFINE n == NewMshr("REPLAY")
             w == First(HitWays)
             d == Row[w].data
             f == PrivateFill(Cmd)
             b == [n EXCEPT !.way = w, !.data = d]
  <2>1. w \in L2Ways /\ Row[w] \in L2Entries
    BY <1>1, <1>4, RowFacts
  <2>2. d \in Values
    BY <2>1 DEF L2Entries
  <2>3. /\ n \in L2Mshrs /\ n.line = Cmd.line /\ n.private_fill = f
        /\ n.waiters = <<Cmd>> /\ n.clear_d = {}
    BY <1>1, NewMshrFields DEF L2MshrStates
  <2>4. TakeMshr(Probing(b))
    BY <1>4
  <2> HIDE DEF n, w, d, f
  <2>5. b \in L2Mshrs
    BY <2>1, <2>2, <2>3 DEF L2Mshrs
  <2>6. /\ b.line = Cmd.line /\ b.private_fill = f
        /\ b.waiters = <<Cmd>> /\ b.clear_d = {}
    BY <2>3 DEF L2Mshrs
  <2> HIDE DEF b
  <2> QED
    BY <1>1, <1>2, <1>3, <1>4, <2>4, <2>5, <2>6, ProbeTakenTracks DEF f
<1>5. CASE /\ WritesAround
           /\ TakeMshr(Probing([NewMshr("NEED_BYPASS") EXCEPT
                                  !.bypass = TRUE]))
  <2> DEFINE b == [NewMshr("NEED_BYPASS") EXCEPT !.bypass = TRUE]
  <2>1. /\ b \in L2Mshrs /\ b.line = Cmd.line
        /\ b.private_fill = PrivateFill(Cmd)
        /\ b.waiters = <<Cmd>> /\ b.clear_d = {}
    BY <1>1, BypassFields
  <2>2. NotVictim
    BY <1>5 DEF WritesAround, Misses
  <2>3. TakeMshr(Probing(b))
    BY <1>5
  <2> HIDE DEF b
  <2> QED BY <1>1, <1>2, <1>3, <2>1, <2>2, <2>3, ProbeTakenTracks
<1>6. CASE Misses /\ OpenWays # {} /\ TakeMshr(Probing(AllocMshr))
  <2> DEFINE b == AllocMshr
  <2>1. /\ b \in L2Mshrs /\ b.line = Cmd.line
        /\ b.private_fill = PrivateFill(Cmd)
        /\ b.waiters = <<Cmd>> /\ b.clear_d = {}
    BY <1>1, <1>6, AllocMshrFields
  <2>2. NotVictim
    BY <1>6 DEF Misses
  <2>3. TakeMshr(Probing(b))
    BY <1>6
  <2> HIDE DEF b
  <2> QED BY <1>1, <1>2, <1>3, <2>1, <2>2, <2>3, ProbeTakenTracks
<1> QED
  BY <1>4, <1>5, <1>6 DEF DispatchProbe

\* A fill that joins an MSHR of another line leaves what a probing MSHR of the
\* directory set was promised; at most it adds an I-sharer to its victim.
LEMMA MergeEntryKept ==
    ASSUME L2Inv, TrackInv, LinesApart, Dispatch, RecordsFill,
           NEW t \in Busy, ~Settled(l2mshr[t]), l2mshr[t].cacheable,
           l2mshr[t].line = Cmd.line, NEW i \in ProbingIds, i # t,
           SetOf[l2mshr[i].line] = SetOf[Cmd.line],
           NEW p, p = l2mshr[i]
    PROVE  ProbeEntryOK(p)'
<1>1. /\ DirectoryTypeOK /\ L2TypeOK /\ ServiceInv /\ lookup # << >>
      /\ DirectoryInv /\ ProbeApart /\ ProbeEntryOK(p)
      /\ p.line \in Lines /\ p.entry \in Ways /\ SetOf[p.line] \in Sets
      /\ p.targets \in SUBSET Harts
  BY MshrTyped DEF L2Inv, TypeOK, Dispatch, TrackInv, ProbeEntries, ProbingIds
<1>2. PICK l : l = Cmd.line
  OBVIOUS
<1>3. l \in Lines /\ SetOf[l] = SetOf[p.line] /\ Legal(Cmd) /\ Cmd \in Commands
  BY <1>1, <1>2, CmdFacts
<1>4. p.line # l
  BY <1>2, ProbingFacts
<1>5. PICK w \in Ways, a \in SUBSET Harts, d \in SUBSET Harts :
         /\ Written(l, w, a, d)
         /\ MatchingWays(l) \subseteq {w}
         /\ a # {} => l \in FetchLines
         /\ \/ /\ w \in MatchingWays(l)
               /\ a = CmdEntry(w).i \cup ISharer
               /\ d = CmdEntry(w).d \cup DSharer
               /\ UNCHANGED replace
            \/ /\ w = VictimWay(SetOf[l])
               /\ CmdEntry(w).valid => CmdEntry(w).i \cup CmdEntry(w).d = {}
  BY <1>1, <1>2, DispatchWritten
<1> DEFINE e == dir[SetOf[l]][p.entry]
           f == dir'[SetOf[l]][p.entry]
<1>6. /\ EntryOf(p) = e /\ EntryOf(p)' = f
      /\ e.valid /\ e.line = p.probe_line
      /\ SetOf[p.probe_line] = SetOf[p.line]
      /\ p.coh_action = "ALLOCATE" =>
            /\ ReplaceOK(p, e)
            /\ MatchingWays(p.line) = {}
            /\ VictimWay(SetOf[p.line]) = p.entry
      /\ p.coh_action # "ALLOCATE" => RevokeOK(p, e)
  BY <1>1, <1>3 DEF ProbeEntryOK, EntryOf
<1>7. CmdEntry(w) = dir[SetOf[l]][w]
      /\ (w \in MatchingWays(l) => CmdEntry(w).valid /\ CmdEntry(w).line = l)
  BY <1>2 DEF CmdEntry, MatchingWays
<1>8. /\ dir'[SetOf[l]][w].valid /\ dir'[SetOf[l]][w].line = l
      /\ dir'[SetOf[l]][w].i = a /\ dir'[SetOf[l]][w].d = d
      /\ w # p.entry => f = e
      /\ \A x \in Ways : x # w => dir'[SetOf[l]][x] = dir[SetOf[l]][x]
  BY <1>1, <1>3, <1>5 DEF Written
<1>9. MatchingWays(p.line)' \subseteq MatchingWays(p.line)
  BY <1>1, <1>2, <1>4, DispatchRow
<1>10. CASE p.coh_action = "ALLOCATE"
  <2>1. e.i \cup e.d # {}
    BY <1>6, <1>10 DEF ReplaceOK
  <2>2. w \in MatchingWays(l) /\ UNCHANGED replace
        /\ d = CmdEntry(w).d \cup DSharer
    BY <1>3, <1>5, <1>6, <1>7, <1>10, <2>1
  <2>3. \A x \in Ways : dir'[SetOf[l]][x].valid <=> dir[SetOf[l]][x].valid
    BY <1>7, <1>8, <2>2
  <2>4. VictimWay(SetOf[l])' = VictimWay(SetOf[l])
    <3>1. InvalidWays(SetOf[l])' = InvalidWays(SetOf[l])
      BY <2>3 DEF InvalidWays
    <3> QED BY <2>2, <3>1 DEF VictimWay
  <2>5. /\ VictimWay(SetOf[p.line])' = p.entry
        /\ MatchingWays(p.line)' = {}
    BY <1>3, <1>6, <1>9, <1>10, <2>4
  <2>6. f.valid /\ f.line = e.line /\ f.d = e.d /\ f.i \cup f.d # {}
    <3>1. CASE w = p.entry
      <4>1. l = p.probe_line
        BY <1>6, <1>7, <2>2, <3>1
      <4>2. l \notin DLines
        BY <1>1, <1>2, <1>10, <4>1 DEF ProbeApart
      <4>3. DSharer = {}
        BY <1>2, <1>3, <4>2 DEF RecordsFill, PrivateFill, IsRead, Legal,
           DFill, DLines, DSharer
      <4>4. d = e.d
        BY <1>7, <2>2, <3>1, <4>3
      <4>5. e.i \subseteq a
        BY <1>5, <1>6, <1>7, <1>10, <2>1, <3>1, <1>3
      <4> QED BY <1>6, <1>7, <1>8, <2>1, <2>2, <3>1, <4>1, <4>4, <4>5
    <3>2. CASE w # p.entry
      BY <1>6, <1>8, <2>1, <3>2
    <3> QED BY <3>1, <3>2
  <2> HIDE DEF e, f
  <2>7. ReplaceOK(p, f)
    BY <1>6, <1>10, <2>6 DEF ReplaceOK
  <2> QED
    BY <1>6, <1>10, <2>5, <2>6, <2>7 DEF ProbeEntryOK, ReplaceOK
<1>11. CASE p.coh_action # "ALLOCATE"
  <2>1. p.probe_line = p.line /\ e.d # {}
    BY <1>6, <1>11 DEF RevokeOK
  <2>2. w # p.entry
    BY <1>4, <1>5, <1>6, <1>7, <2>1
  <2>3. f = e
    BY <1>8, <2>2
  <2> HIDE DEF e, f
  <2> QED BY <1>6, <1>11, <2>3 DEF ProbeEntryOK, RevokeOK
<1> QED
  BY <1>10, <1>11

\* MSHR t owns the line of a read, which joins it.
MergedInto(t) ==
    /\ t \in Busy /\ l2mshr[t].line = Cmd.line
    /\ l2mshr[t].cacheable /\ ~Settled(l2mshr[t])
    /\ Cmd.cacheable /\ Cmd.err = "none" /\ Cmd.op \in {"READ", "LR"}
    /\ \A j \in MshrIds : j # t => l2mshr'[j] = l2mshr[j]
    /\ l2mshr[t].state \in ProbeStates => l2mshr[t].coh_action = "ALLOCATE"
    /\ ProbeNeeded => l2mshr[t].state \in ProbeStates

\* ... and MSHR m becomes k.
Merged(m, k) ==
    /\ SameTarget(m, k)
    /\ k.state = m.state /\ k.bypass = m.bypass /\ k.cacheable = m.cacheable
    /\ k.entry = m.entry /\ k.clear_d = m.clear_d
    /\ k.private_fill <=> m.private_fill \/ PrivateFill(Cmd)
    /\ k.add_i = IF PrivateProbeNeeded THEN m.add_i \cup ISharer ELSE m.add_i
    /\ k.add_d = IF PrivateProbeNeeded THEN m.add_d \cup DSharer ELSE m.add_d
    /\ \A n \in DOMAIN k.waiters :
          \/ n \in DOMAIN m.waiters /\ k.waiters[n] = m.waiters[n]
          \/ k.waiters[n] = Cmd

LEMMA MergeFields ==
    ASSUME L2Inv, DispatchMerge
    PROVE  \E t \in MshrIds :
              MergedInto(t) /\ Merged(l2mshr[t], l2mshr'[t])
<1> DEFINE i == First(MatchingMshrs)
           m == l2mshr[i]
           f == m.private_fill \/ PrivateFill(Cmd)
           ai == IF PrivateProbeNeeded THEN m.add_i \cup ISharer ELSE m.add_i
           ad == IF PrivateProbeNeeded THEN m.add_d \cup DSharer ELSE m.add_d
           w == Append(m.waiters, Cmd)
           k == [m EXCEPT !.waiters = w, !.private_fill = f,
                          !.add_i = ai, !.add_d = ad]
<1>1. /\ TypeOK /\ DirectoryTypeOK /\ L2TypeOK /\ ServiceInv /\ MshrInv
      /\ lookup # << >>
  BY DEF L2Inv, TypeOK, DispatchMerge, Dispatch
<1>2. Cmd \in Commands
  BY <1>1, CmdFacts
<1>3. /\ Cached /\ MatchingMshrs # {} /\ Mergeable(m) /\ ~CoherentWrite(Cmd)
      /\ ProbeNeeded => m.state \in ProbeStates
      /\ l2mshr' = [l2mshr EXCEPT ![i] = k]
  BY DEF DispatchMerge
<1>4. i \in MatchingMshrs
  <2>1. MatchingMshrs \in SUBSET MshrIds
    BY DEF MatchingMshrs, Busy
  <2> QED BY <1>3, <2>1, FirstMshr
<1> HIDE DEF i
<1>5. i \in MshrIds /\ i \in Busy /\ m.line = Cmd.line
  BY <1>4 DEF MatchingMshrs, Busy
<1>6. m \in L2Mshrs /\ MshrShape(m)
  BY <1>1, <1>5 DEF L2TypeOK, MshrInv, Busy
<1>7. /\ ~m.bypass /\ m.waiters \in Seq(Commands) /\ m.waiters # << >>
      /\ m.cacheable
      /\ m.state \notin {"REPLAY", "ERROR"}
      /\ m.state \in ProbeStates => m.coh_action = "ALLOCATE"
  BY <1>3, <1>5, <1>6 DEF Mergeable, MshrShape, L2Mshrs, Busy
<1>8. \A n \in DOMAIN w :
         \/ n \in DOMAIN m.waiters /\ w[n] = m.waiters[n]
         \/ w[n] = Cmd
  BY <1>2, <1>7, AppendToWaiters
<1>9. w \in Seq(Commands)
  BY <1>2, <1>7, AppendToWaiters
<1>10. f \in BOOLEAN /\ ai \in SUBSET Harts /\ ad \in SUBSET Harts
  <2>1. m.private_fill \in BOOLEAN /\ m.add_i \in SUBSET Harts
        /\ m.add_d \in SUBSET Harts
    BY <1>6 DEF L2Mshrs
  <2>2. ISharer \in SUBSET Harts /\ DSharer \in SUBSET Harts
    BY <1>1, ProbeFacts
  <2> QED BY <2>1, <2>2
<1>11. /\ f <=> m.private_fill \/ PrivateFill(Cmd)
       /\ ai = IF PrivateProbeNeeded THEN m.add_i \cup ISharer ELSE m.add_i
       /\ ad = IF PrivateProbeNeeded THEN m.add_d \cup DSharer ELSE m.add_d
  OBVIOUS
<1>12. /\ Cmd.err = "none" /\ Cmd.cacheable /\ Cmd.op \in {"READ", "LR"}
  BY <1>2, <1>3 DEF Cached, Terminates, CoherentWrite, OpWrites, Commands, Ops
<1>13. l2mshr'[i] = k /\ \A j \in MshrIds : j # i => l2mshr'[j] = l2mshr[j]
  BY <1>1, <1>3, <1>5 DEF L2TypeOK
<1> DEFINE p == [m EXCEPT !.waiters = w, !.private_fill = f]
           q == [p EXCEPT !.add_i = ai]
<1>14. k = [q EXCEPT !.add_d = ad]
  BY DEF k
<1>15. m = l2mshr[i]
  OBVIOUS
<1> HIDE DEF m, w, f, ai, ad, k
<1>16. p \in L2Mshrs /\ p.waiters = w /\ p.private_fill = f
  BY <1>6, <1>9, <1>10 DEF L2Mshrs
<1>17. /\ p.line = m.line /\ p.probe_line = m.probe_line
       /\ p.targets = m.targets /\ p.mask = m.mask
       /\ p.coh_action = m.coh_action
  BY <1>6 DEF L2Mshrs
<1>18. /\ p.state = m.state /\ p.bypass = m.bypass /\ p.entry = m.entry
       /\ p.cacheable = m.cacheable /\ p.clear_d = m.clear_d
  BY <1>6 DEF L2Mshrs
<1> HIDE DEF p
<1>19. /\ q \in L2Mshrs /\ q.waiters = w /\ q.private_fill = f /\ q.add_i = ai
  BY <1>10, <1>16 DEF L2Mshrs
<1>20. /\ q.line = p.line /\ q.probe_line = p.probe_line
       /\ q.targets = p.targets /\ q.mask = p.mask
       /\ q.coh_action = p.coh_action
  BY <1>16 DEF L2Mshrs
<1>21. /\ q.state = p.state /\ q.bypass = p.bypass /\ q.entry = p.entry
       /\ q.cacheable = p.cacheable /\ q.clear_d = p.clear_d
  BY <1>16 DEF L2Mshrs
<1> HIDE DEF q
<1>22. /\ k.waiters = w /\ k.private_fill = f /\ k.add_i = ai /\ k.add_d = ad
  BY <1>10, <1>14, <1>19 DEF L2Mshrs
<1>23. /\ k.line = q.line /\ k.probe_line = q.probe_line
       /\ k.targets = q.targets /\ k.mask = q.mask
       /\ k.coh_action = q.coh_action
  BY <1>14, <1>19 DEF L2Mshrs
<1>24. /\ k.state = q.state /\ k.bypass = q.bypass /\ k.entry = q.entry
       /\ k.cacheable = q.cacheable /\ k.clear_d = q.clear_d
  BY <1>14, <1>19 DEF L2Mshrs
<1>25. SameTarget(m, k)
  BY <1>17, <1>20, <1>23 DEF SameTarget
<1>26. Merged(m, k)
  <2>1. /\ k.state = m.state /\ k.bypass = m.bypass
        /\ k.cacheable = m.cacheable
        /\ k.entry = m.entry /\ k.clear_d = m.clear_d
    BY <1>18, <1>21, <1>24
  <2> QED BY <1>8, <1>11, <1>22, <1>25, <2>1 DEF Merged
<1>27. MergedInto(i)
  BY <1>3, <1>5, <1>7, <1>12, <1>13, <1>15 DEF MergedInto, Settled
<1> QED
  BY <1>5, <1>13, <1>15, <1>26, <1>27

\* A read that joins a victim probe brings its sharer to those that will be
\* recorded.
LEMMA JoinedEntry ==
    ASSUME L2Inv, TrackInv, LinesApart, Dispatch,
           NEW t \in ProbingIds, NEW m, m = l2mshr[t], NEW k,
           MergedInto(t), Merged(m, k)
    PROVE  /\ UNCHANGED <<dir, replace>>
           /\ ProbeEntryOK(k)'
<1>1. /\ DirectoryTypeOK /\ L2TypeOK /\ ServiceInv /\ lookup # << >>
      /\ ProbeEntryOK(m)
  BY DEF L2Inv, TypeOK, Dispatch, TrackInv, ProbeEntries
<1>2. /\ m.line = Cmd.line /\ m.coh_action = "ALLOCATE"
      /\ Cmd.err = "none" /\ Cmd.op \in {"READ", "LR"} /\ Legal(Cmd)
  BY <1>1, CmdFacts DEF MergedInto, ProbingIds
<1> DEFINE e == EntryOf(m)
<1>3. /\ e.valid /\ e.line = m.probe_line
      /\ SetOf[m.probe_line] = SetOf[m.line]
      /\ ReplaceOK(m, e) /\ MatchingWays(m.line) = {}
      /\ VictimWay(SetOf[m.line]) = m.entry
  BY <1>1, <1>2 DEF ProbeEntryOK
<1>4. PrivateFill(Cmd) <=> PrivateProbeNeeded
  <2>1. DirVictim = e
    BY <1>2, <1>3 DEF DirVictim, EntryOf
  <2>2. e.i \cup e.d # {}
    BY <1>3 DEF ReplaceOK
  <2> QED BY <1>2, <1>3, <2>1, <2>2 DEF PrivateProbeNeeded, LookupHit
<1>5. UNCHANGED <<dir, replace>>
  <2>1. ~RecordsFill /\ ~ForgetsSharer
    BY <1>2, <1>4 DEF RecordsFill, ForgetsSharer
  <2>2. PICK l : l = Cmd.line
    OBVIOUS
  <2> QED BY <2>1, <2>2, DispatchRow
<1>6. /\ k.line = m.line /\ k.probe_line = m.probe_line
      /\ k.targets = m.targets /\ k.mask = m.mask
      /\ k.coh_action = "ALLOCATE" /\ k.entry = m.entry
      /\ k.clear_d = m.clear_d
      /\ k.private_fill <=> m.private_fill \/ PrivateFill(Cmd)
      /\ k.add_i = IF PrivateProbeNeeded THEN m.add_i \cup ISharer ELSE m.add_i
      /\ k.add_d = IF PrivateProbeNeeded THEN m.add_d \cup DSharer ELSE m.add_d
      /\ \A n \in DOMAIN k.waiters :
            \/ n \in DOMAIN m.waiters /\ k.waiters[n] = m.waiters[n]
            \/ k.waiters[n] = Cmd
  BY <1>2 DEF Merged, SameTarget
<1>7. k.add_i # {} => k.line \in FetchLines
  BY <1>2, <1>3, <1>6 DEF ReplaceOK, ISharer, Legal
<1>8. DFill(Cmd) => Cmd.hart \in k.add_d
  BY <1>4, <1>6 DEF DFill, DSharer, PrivateFill, IsRead
<1>9. ReplaceOK(k, e)
  <2>1. \A n \in DOMAIN k.waiters :
           DFill(k.waiters[n]) => k.waiters[n].hart \in k.add_d
    BY <1>3, <1>6, <1>8 DEF ReplaceOK
  <2> HIDE DEF e
  <2> QED BY <1>3, <1>6, <1>7, <2>1 DEF ReplaceOK
<1>10. /\ EntryOf(k)' = e
       /\ MatchingWays(k.line)' = {}
       /\ VictimWay(SetOf[k.line])' = k.entry
  <2>1. \A s : SameRow(s)
    BY <1>5 DEF SameRow
  <2>2. m.line \in Lines
    BY <1>1, MshrTyped DEF ProbingIds
  <2>3. /\ MatchingWays(m.line)' = {}
        /\ VictimWay(SetOf[m.line])' = m.entry
    BY <1>3, <2>1, <2>2, RowFrame
  <2>4. MatchingWays(k.line)' = {} /\ VictimWay(SetOf[k.line])' = k.entry
    BY <1>6, <2>3
  <2>5. EntryOf(k)' = e
    BY <1>5, <1>6 DEF EntryOf
  <2> QED BY <2>4, <2>5
<1> HIDE DEF e
<1>11. ProbeEntryOK(k)'
  BY <1>3, <1>6, <1>9, <1>10 DEF ProbeEntryOK, ReplaceOK
<1> QED
  BY <1>5, <1>11

LEMMA MergeTracks ==
    ASSUME L2Inv, L2Inv', TrackInv, LinesApart, DispatchMerge
    PROVE  TrackInv'
<1>1. /\ DirectoryTypeOK /\ L2TypeOK /\ ServiceInv /\ MshrInv
      /\ DirectoryInv /\ ProbeEntries /\ ProbeApart /\ Revoked
      /\ MergeQuiet /\ Tracked /\ Dispatch /\ lookup # << >>
  BY DEF L2Inv, TypeOK, TrackInv, Dispatch, DispatchMerge
<1>2. UNCHANGED <<tracker, endpoint, active_probe, dcache, mshr, responses,
                  hit>>
  BY DEF DispatchMerge, Dispatch, probeVars, privateVars
<1>3. PICK t \in MshrIds : MergedInto(t) /\ Merged(l2mshr[t], l2mshr'[t])
  BY MergeFields
<1>4. PICK m : m = l2mshr[t]
  OBVIOUS
<1>5. PICK k : k = l2mshr'[t]
  OBVIOUS
<1>6. PICK l : l = Cmd.line
  OBVIOUS
<1>7. PICK f : f = Cmd
  OBVIOUS
<1>8. /\ l \in Lines /\ f.hart \in Harts /\ f.line = l /\ Legal(f)
      /\ t \in Busy /\ m.line = l /\ m.cacheable /\ ~Settled(m)
      /\ Cmd.cacheable /\ Cmd.err = "none" /\ Cmd.op \in {"READ", "LR"}
      /\ \A j \in MshrIds : j # t => l2mshr'[j] = l2mshr[j]
      /\ m.state \in ProbeStates => m.coh_action = "ALLOCATE"
      /\ ProbeNeeded => m.state \in ProbeStates
  BY <1>1, <1>3, <1>4, <1>6, <1>7, CmdFacts DEF MergedInto
<1>9. /\ SameTarget(m, k) /\ k.line = l /\ k.state = m.state
      /\ k.bypass = m.bypass /\ k.cacheable = m.cacheable
      /\ k.private_fill <=> m.private_fill \/ PrivateFill(Cmd)
      /\ \A n \in DOMAIN k.waiters :
            \/ n \in DOMAIN m.waiters /\ k.waiters[n] = m.waiters[n]
            \/ k.waiters[n] = f
  BY <1>3, <1>4, <1>5, <1>7, <1>8 DEF Merged, SameTarget
<1>10. /\ DirectoryInv'
       /\ \A s \in Sets : s # SetOf[l] => SameRow(s)
       /\ \A x \in Lines \ {l} :
             /\ MatchingWays(x)' \subseteq MatchingWays(x)
             /\ \A y \in MatchingWays(x)' :
                   dir'[SetOf[x]][y] = dir[SetOf[x]][y]
       /\ \A h \in Harts, x \in Lines :
             Needed(h, x) /\ RecordedD(h, x) => RecordedD(h, x)'
       /\ RecordsFill => \A h \in DSharer : RecordedD(h, l)'
       /\ ~RecordsFill /\ ~ForgetsSharer => UNCHANGED <<dir, replace>>
  BY <1>1, <1>6, DispatchRow
<1>11. ~RecordsFill => UNCHANGED <<dir, replace>>
  BY <1>8, <1>10 DEF ForgetsSharer
<1>12. /\ ProbingIds' = ProbingIds /\ Busy' = Busy
       /\ Installing' = Installing
  <2>1. \A j \in MshrIds : l2mshr'[j].state = l2mshr[j].state
    BY <1>4, <1>5, <1>8, <1>9
  <2> QED BY <1>2, <2>1 DEF ProbingIds, Busy, Installing
<1>13. t \in ProbingIds => UNCHANGED <<dir, replace>> /\ ProbeEntryOK(k)'
  BY <1>1, <1>3, <1>4, <1>5, JoinedEntry
<1>14. t \notin ProbingIds =>
          /\ m.state \notin ProbeStates /\ ~ProbeNeeded
          /\ PrivateFill(Cmd) => RecordsFill
  BY <1>4, <1>8 DEF ProbingIds, RecordsFill, ProbeNeeded
<1>15. ProbeEntries'
  <2> SUFFICES ASSUME NEW i \in ProbingIds'
               PROVE  ProbeEntryOK(l2mshr[i])'
    BY DEF ProbeEntries
  <2>1. PICK p : p = l2mshr'[i]
    OBVIOUS
  <2>2. i \in ProbingIds /\ i \in MshrIds
    BY <1>12 DEF ProbingIds
  <2>3. CASE i = t
    BY <1>5, <1>13, <2>2, <2>3 DEF ProbeEntryOK, EntryOf
  <2>4. CASE i # t
    <3>1. p = l2mshr[i] /\ p.line \in Lines /\ p.entry \in Ways
          /\ ProbeEntryOK(p) /\ SameProbe(p, p) /\ SetOf[p.line] \in Sets
      BY <1>1, <1>8, <2>1, <2>2, <2>4, MshrTyped DEF ProbeEntries, SameProbe
    <3>2. ProbeEntryOK(p)'
      <4>1. CASE SameRow(SetOf[p.line])
        BY <3>1, <4>1, EntryKept
      <4>2. CASE ~SameRow(SetOf[p.line])
        <5>1. RecordsFill /\ SetOf[p.line] = SetOf[l]
          BY <1>10, <1>11, <3>1, <4>2 DEF SameRow
        <5> QED
          BY <1>1, <1>4, <1>6, <1>8, <2>2, <2>4, <3>1, <5>1, MergeEntryKept
      <4> QED BY <4>1, <4>2
    <3> QED BY <2>1, <3>2 DEF ProbeEntryOK, EntryOf
  <2> QED BY <2>3, <2>4
<1>16. \A i \in ProbingIds' :
          i \in ProbingIds /\ i \in MshrIds
          /\ SameTarget(l2mshr[i], l2mshr'[i])
          /\ l2mshr'[i].state = l2mshr[i].state
  <2> SUFFICES ASSUME NEW i \in ProbingIds
               PROVE  /\ i \in MshrIds /\ SameTarget(l2mshr[i], l2mshr'[i])
                      /\ l2mshr'[i].state = l2mshr[i].state
    BY <1>12
  <2>1. i \in MshrIds
    BY DEF ProbingIds
  <2> QED BY <1>4, <1>5, <1>8, <1>9, <2>1 DEF SameTarget
<1>17. ProbeApart'
  <2>1. \A j \in Busy' :
           \/ j \in ProbingIds'
           \/ j \in Busy /\ GoesOn(l2mshr[j], l2mshr'[j])
           \/ \A i \in ProbingIds' :
                 /\ l2mshr[i].coh_action = "ALLOCATE"
                 /\ l2mshr'[j].cacheable /\ l2mshr'[j].line \in DLines
                 => l2mshr'[j].line # l2mshr[i].probe_line
    <3> SUFFICES ASSUME NEW j \in Busy', j \notin ProbingIds'
                 PROVE  \/ j \in Busy /\ GoesOn(l2mshr[j], l2mshr'[j])
                        \/ \A i \in ProbingIds' :
                              /\ l2mshr[i].coh_action = "ALLOCATE"
                              /\ l2mshr'[j].cacheable
                              /\ l2mshr'[j].line \in DLines
                              => l2mshr'[j].line # l2mshr[i].probe_line
      OBVIOUS
    <3>1. j \in MshrIds /\ j \in Busy
      BY <1>12 DEF Busy
    <3>2. CASE j # t
      BY <1>8, <3>1, <3>2 DEF GoesOn
    <3>3. CASE j = t
      BY <1>1, <1>4, <1>5, <1>8, <1>9, <1>12, <3>3 DEF ProbeApart
    <3> QED BY <3>2, <3>3
  <2>2. \A i \in ProbingIds' :
           i \in ProbingIds /\ SameTarget(l2mshr[i], l2mshr'[i])
    BY <1>16
  <2>3. \A e \in Installing' : e \in Installing
    BY <1>12
  <2> QED BY <2>1, <2>2, <2>3, ApartKept
<1>18. Revoked'
  <2>1. \A i \in ProbingIds' :
           l2mshr'[i].state = "PROBE_INFLIGHT" =>
               /\ i \in ProbingIds /\ l2mshr[i].state = "PROBE_INFLIGHT"
               /\ SameTarget(l2mshr[i], l2mshr'[i])
    BY <1>16
  <2>2. \A h \in Harts : HoldsD(h, tracker.line)' => HoldsD(h, tracker.line)
    BY <1>2 DEF HoldsD
  <2> QED BY <1>1, <1>2, <2>1, <2>2, RevokedKept
<1>19. MergeQuiet'
  <2> SUFFICES ASSUME NEW j \in Busy' PROVE QuietOK(l2mshr[j])'
    BY DEF MergeQuiet
  <2>1. PICK p : p = l2mshr'[j]
    OBVIOUS
  <2>2. j \in Busy /\ j \in MshrIds
    BY <1>12 DEF Busy
  <2>3. QuietOK(p)'
    <3>1. CASE j = t
      <4>1. QuietOK(m) /\ p = k
        BY <1>1, <1>4, <1>5, <2>1, <2>2, <3>1 DEF MergeQuiet
      <4>2. CASE k.state \in ProbeStates \/ k.private_fill
        BY <4>1, <4>2 DEF QuietOK
      <4>3. CASE k.state \notin ProbeStates /\ ~k.private_fill
        <5>1. ~RecordsFill
          BY <1>9, <4>3 DEF RecordsFill
        <5>2. UNCHANGED <<dir, replace>>
          BY <1>11, <5>1
        <5>3. m.line = k.line /\ ~m.private_fill /\ m.state \notin ProbeStates
          BY <1>8, <1>9, <4>3
        <5> QED BY <1>8, <4>1, <5>2, <5>3 DEF QuietOK, MatchingWays
      <4> QED BY <4>2, <4>3
    <3>2. CASE j # t
      <4>1. p = l2mshr[j] /\ QuietOK(p) /\ p.line \in Lines
        BY <1>1, <1>8, <2>1, <2>2, <3>2, MshrTyped DEF MergeQuiet
      <4>2. p.cacheable => p.line # l
        BY <1>1, <1>4, <1>8, <2>2, <3>2, <4>1 DEF MshrInv
      <4>3. p.cacheable =>
               /\ MatchingWays(p.line)' \subseteq MatchingWays(p.line)
               /\ \A y \in MatchingWays(p.line)' :
                     dir'[SetOf[p.line]][y] = dir[SetOf[p.line]][y]
        BY <1>10, <4>1, <4>2
      <4> QED BY <4>1, <4>3 DEF QuietOK, Settled
    <3> QED BY <3>1, <3>2
  <2> QED BY <2>1, <2>3 DEF QuietOK
<1>20. Tracked'
  <2>1. \A h \in Harts, x \in Lines : HoldsD(h, x)' => Needed(h, x)
    BY <1>2 DEF HoldsD, Needed
  <2>2. DFill(f) => DSharer = {f.hart}
    BY <1>7 DEF DFill, DSharer
  <2>3. ASSUME NEW j \in MshrIds \ ProbingIds',
               NEW n \in DOMAIN l2mshr'[j].waiters,
               DFill(l2mshr'[j].waiters[n]),
               NEW h, h = l2mshr'[j].waiters[n].hart
        PROVE  \/ Needed(h, l2mshr'[j].line)
               \/ l2mshr'[j].line = l /\ RecordedD(h, l)'
    <3>1. CASE j # t
      BY <1>8, <1>12, <2>3, <3>1, NeededFills
    <3>2. CASE j = t
      <4>1. k.waiters[n] = l2mshr'[j].waiters[n] /\ n \in DOMAIN k.waiters
            /\ t \notin ProbingIds
        BY <1>5, <1>12, <2>3, <3>2
      <4>2. CASE n \in DOMAIN m.waiters /\ k.waiters[n] = m.waiters[n]
        <5>1. Needed(m.waiters[n].hart, m.line)
          BY <1>4, <2>3, <4>1, <4>2, NeededFills
        <5> QED BY <1>5, <1>8, <1>9, <2>3, <3>2, <4>1, <4>2, <5>1
      <4>3. CASE k.waiters[n] = f
        <5>1. RecordsFill
          BY <1>7, <1>14, <2>3, <4>1, <4>3 DEF DFill, PrivateFill, IsRead
        <5> QED BY <1>5, <1>9, <1>10, <2>2, <2>3, <3>2, <4>1, <4>3, <5>1
      <4> QED BY <1>9, <4>1, <4>2, <4>3
    <3> QED BY <3>1, <3>2
  <2>4. \A e \in Installing' : Needed(e.hart, e.line)
    BY <1>12, NeededFills
  <2>5. \A h \in Harts, x \in Lines :
           Needed(h, x)' => Needed(h, x) \/ RecordedD(h, x)'
    BY <2>1, <2>3, <2>4, NeededStep
  <2> QED BY <1>1, <1>10, <2>5, TrackedKept
<1> QED
  BY <1>10, <1>15, <1>17, <1>18, <1>19, <1>20 DEF TrackInv
-----------------------------------------------------------------------------
(* The end of a probe.                                                       *)

\* A probe that ends has revoked every target.
LEMMA CompleteHolders ==
    ASSUME L2Inv, TrackInv, ProbeComplete, NEW m, m = l2mshr[active_probe]
    PROVE  /\ active_probe \in ProbingIds /\ active_probe \in MshrIds
           /\ m.state = "PROBE_INFLIGHT" /\ m \in L2Mshrs /\ MshrShape(m)
           /\ ProbeEntryOK(m)
           /\ "D" \in m.mask =>
                 \A h \in m.targets : ~HoldsD(h, m.probe_line)
           /\ \A h \in Harts : EndpointReady(h)
           /\ \A i \in ProbingIds :
                 i # active_probe => l2mshr[i].state = "NEED_PROBE"
<1>1. /\ L2TypeOK /\ MshrInv /\ ProbeActive /\ ProbeEntries /\ Revoked
      /\ ProbeTypeOK
  BY DEF L2Inv, TypeOK, TrackInv
<1>2. tracker.done
  BY DEF ProbeComplete, TrackerDone
<1>3. /\ active_probe \in MshrIds /\ m.state = "PROBE_INFLIGHT"
      /\ ~tracker.busy /\ m \in L2Mshrs /\ MshrShape(m)
  BY <1>1, <1>2 DEF L2TypeOK, MshrInv, ProbeActive
<1>4. active_probe \in ProbingIds
  BY <1>3 DEF ProbingIds, ProbeStates
<1>5. "D" \in m.mask => \A h \in m.targets : ~HoldsD(h, m.probe_line)
  BY <1>1, <1>2, <1>3, <1>4 DEF Revoked
<1>6. \A h \in Harts : EndpointReady(h)
  BY <1>1, <1>3 DEF Revoked
<1>7. \A i \in ProbingIds :
         i # active_probe => l2mshr[i].state = "NEED_PROBE"
  BY <1>1 DEF Revoked, ProbingIds, ProbeStates
<1> QED
  BY <1>1, <1>3, <1>4, <1>5, <1>6, <1>7 DEF ProbeEntries

\* What the directory records then: the fills that waited, or the sharers of
\* a write, and nothing that is needed is forgotten.
LEMMA CompleteRow ==
    ASSUME L2Inv, TrackInv, LinesApart, ProbeComplete,
           NEW m, m = l2mshr[active_probe], NEW l, l = m.line
    PROVE  /\ l \in Lines /\ DirectoryInv'
           /\ \A s \in Sets : s # SetOf[l] => SameRow(s)
           /\ \A x \in Lines \ {l} :
                 /\ MatchingWays(x)' \subseteq MatchingWays(x)
                 /\ \A y \in MatchingWays(x)' :
                       dir'[SetOf[x]][y] = dir[SetOf[x]][y]
           /\ \A h \in Harts, x \in Lines :
                 Needed(h, x) /\ RecordedD(h, x) => RecordedD(h, x)'
           /\ \A n \in DOMAIN m.waiters :
                 DFill(m.waiters[n]) => RecordedD(m.waiters[n].hart, l)'
           /\ \/ m.private_fill \/ m.bypass \/ m.post = "REPLAY"
              \/ \A w \in MatchingWays(l)' :
                    /\ dir'[SetOf[l]][w].d = {}
                    /\ dir'[SetOf[l]][w].i = {}
<1>1. /\ DirectoryTypeOK /\ L2TypeOK /\ DirectoryInv /\ ServiceInv /\ AccessInv
  BY DEF L2Inv, TypeOK, TrackInv, ServiceInv
<1> DEFINE p == active_probe
           e == EntryOf(m)
           d == m.add_d \ m.clear_d
<1>2. /\ p \in ProbingIds /\ p \in MshrIds
      /\ m.state = "PROBE_INFLIGHT" /\ m \in L2Mshrs /\ MshrShape(m)
      /\ ProbeEntryOK(m)
      /\ "D" \in m.mask => \A h \in m.targets : ~HoldsD(h, m.probe_line)
  BY CompleteHolders
<1>3. /\ l \in Lines /\ SetOf[l] \in Sets /\ m.entry \in Ways
      /\ m.add_i \in SUBSET Harts /\ m.add_d \in SUBSET Harts
      /\ d \in SUBSET Harts /\ m.waiters \in Seq(Commands)
      /\ m.coh_action \in {"ALLOCATE", "CLEAR"}
  BY <1>2, GeometryAssumption DEF L2Mshrs
<1>4. /\ e.valid /\ e.line = m.probe_line
      /\ m.coh_action = "ALLOCATE" =>
            ReplaceOK(m, e) /\ MatchingWays(l) = {}
      /\ m.coh_action # "ALLOCATE" => RevokeOK(m, e)
      /\ e = dir[SetOf[l]][m.entry]
  BY <1>2 DEF ProbeEntryOK, EntryOf
<1>5. DirectoryAllocateFor(l, m.entry, m.add_i, d)
      \/ DirectoryOverwrite(l, m.entry, m.add_i, d)
  BY DEF ProbeComplete
<1> HIDE DEF p, e, d
<1>6. /\ Written(l, m.entry, m.add_i, d)
      /\ \A s \in Sets : s # SetOf[l] => replace'[s] = replace[s]
  BY <1>1, <1>3, <1>5, EntryWritten
<1>7. \A s \in Sets : s # SetOf[l] => SameRow(s)
  BY <1>6 DEF Written, SameRow
<1>8. m.coh_action # "ALLOCATE" =>
         /\ m.entry \in MatchingWays(l) /\ MatchingWays(l) \subseteq {m.entry}
         /\ m.add_i # {} => l \in FetchLines
  <2> SUFFICES ASSUME m.coh_action # "ALLOCATE"
               PROVE  /\ m.entry \in MatchingWays(l)
                      /\ MatchingWays(l) \subseteq {m.entry}
                      /\ m.add_i # {} => l \in FetchLines
    OBVIOUS
  <2>1. e.line = l /\ e.i = m.add_i
    BY <1>4 DEF RevokeOK
  <2>2. /\ e.i # {} => e.line \in FetchLines
        /\ \A x \in Ways : dir[SetOf[l]][x].valid
                            /\ dir[SetOf[l]][x].line = l => x = m.entry
    <3> DEFINE y == dir[SetOf[l]][m.entry]
    <3>1. y.valid /\ y.line = l /\ y = e
      BY <1>4, <2>1
    <3>2. /\ y.i # {} => y.line \in FetchLines
          /\ \A x \in Ways : dir[SetOf[l]][x].valid
                              /\ dir[SetOf[l]][x].line = y.line => x = m.entry
      BY <1>1, <1>3, <3>1 DEF DirectoryInv
    <3> HIDE DEF y
    <3> QED BY <3>1, <3>2
  <2>3. m.entry \in MatchingWays(l)
    BY <1>3, <1>4, <2>1 DEF MatchingWays
  <2>4. MatchingWays(l) \subseteq {m.entry}
    BY <2>2 DEF MatchingWays
  <2> QED BY <2>1, <2>2, <2>3, <2>4
<1>9. /\ MatchingWays(l) \subseteq {m.entry}
      /\ m.add_i # {} => l \in FetchLines
  BY <1>4, <1>8 DEF ReplaceOK
<1>10. /\ DirectoryInv'
       /\ MatchingWays(l)' = {m.entry}
       /\ \A x \in Lines \ {l} :
             /\ MatchingWays(x)' \subseteq MatchingWays(x)
             /\ \A y \in MatchingWays(x)' :
                   dir'[SetOf[x]][y] = dir[SetOf[x]][y]
       /\ \A h \in d : RecordedD(h, l)'
       /\ \A h \in Harts, x \in Lines : RecordedD(h, x) =>
             \/ RecordedD(h, x)'
             \/ e.valid /\ e.line = x /\ h \in e.d /\ ~(x = l /\ h \in d)
  BY <1>1, <1>3, <1>4, <1>6, <1>9, WrittenDirectory
<1>11. CASE m.coh_action = "ALLOCATE"
  <2>1. /\ m.private_fill /\ d = m.add_d
        /\ e.d # {} => "D" \in m.mask
        /\ e.d \subseteq m.targets
        /\ \A n \in DOMAIN m.waiters :
              DFill(m.waiters[n]) => m.waiters[n].hart \in m.add_d
    BY <1>4, <1>11 DEF ReplaceOK, d
  <2>2. ASSUME NEW h \in Harts, NEW x \in Lines, Needed(h, x),
               RecordedD(h, x), ~RecordedD(h, x)'
        PROVE  FALSE
    <3>1. x = m.probe_line /\ h \in e.d
      BY <1>4, <1>10, <2>2
    <3>2. ~HoldsD(h, x)
      BY <1>2, <2>1, <3>1
    <3>3. CASE \E j \in MshrIds \ ProbingIds :
                  /\ l2mshr[j].line = x
                  /\ \E n \in DOMAIN l2mshr[j].waiters :
                        DFill(l2mshr[j].waiters[n])
      BY <1>2, <3>1, <3>3, WaitingApart DEF p
    <3>4. CASE \E c \in Installing : c.line = x
      BY <1>2, <3>1, <3>4 DEF p, TrackInv, ProbeApart
    <3> QED BY <2>2, <3>2, <3>3, <3>4 DEF Needed
  <2> QED BY <1>3, <1>7, <1>10, <2>1, <2>2
<1>12. CASE m.coh_action # "ALLOCATE"
  <2> DEFINE u == Head(m.waiters)
  <2>1. /\ m.probe_line = l /\ ~m.private_fill
        /\ Len(m.waiters) = 1 /\ OpWrites(u.op)
        /\ e.d = m.add_d /\ e.i = m.add_i
        /\ m.targets = m.add_d \ {u.hart} /\ m.mask = {"D"}
        /\ m.clear_d = IF u.op = "SC" THEN Harts ELSE m.targets
    BY <1>4, <1>12 DEF RevokeOK
  <2>2. 1 \in DOMAIN m.waiters /\ u = m.waiters[1]
        /\ \A n \in DOMAIN m.waiters : n = 1
    <3>1. DOMAIN m.waiters = 1 .. 1
      BY <1>3, <2>1
    <3>2. 1 \in DOMAIN m.waiters /\ \A n \in DOMAIN m.waiters : n = 1
      BY <3>1
    <3>3. u = m.waiters[1]
      BY <1>3, <2>1, HeadTailProperties
    <3> QED BY <3>2, <3>3
  <2>3. Legal(u) /\ Waits(u) /\ u.line = l
    BY <1>2, <2>2, WaiterFacts DEF p
  <2>4. \A n \in DOMAIN m.waiters : ~DFill(m.waiters[n])
    BY <2>1, <2>2 DEF DFill, OpWrites
  <2>5. u.op = "SC" => ~HoldsD(u.hart, l)
    <3> SUFFICES ASSUME u.op = "SC" PROVE ~HoldsD(u.hart, l)
      OBVIOUS
    <3>1. marked[u.hart].state = "sc_send" /\ marked[u.hart].line = l
      BY <2>3 DEF Legal, Waits
    <3>2. u.hart \in Harts
      <4>1. u \in Commands
        BY <1>3, <2>2
      <4> QED BY <4>1 DEF Commands
    <3> QED BY <1>1, <3>1, <3>2 DEF AccessInv, HoldsD
  <2>6. ASSUME NEW h \in Harts, NEW x \in Lines, Needed(h, x),
               RecordedD(h, x), ~RecordedD(h, x)'
        PROVE  FALSE
    <3>1. x = l /\ h \in m.add_d /\ h \notin d
      BY <1>4, <1>10, <2>1, <2>6
    <3>2. h \in m.clear_d
      BY <3>1 DEF d
    <3>3. ~HoldsD(h, x)
      BY <1>2, <2>1, <2>5, <3>1, <3>2
    <3>4. CASE \E j \in MshrIds \ ProbingIds :
                  /\ l2mshr[j].line = x
                  /\ \E n \in DOMAIN l2mshr[j].waiters :
                        DFill(l2mshr[j].waiters[n])
      BY <1>2, <2>1, <3>1, <3>4, WaitingApart DEF p
    <3>5. CASE \E c \in Installing : c.line = x
      BY <1>2, <2>1, <3>1, <3>5 DEF p, TrackInv, ProbeApart
    <3> QED BY <2>6, <3>3, <3>4, <3>5 DEF Needed
  <2>7. \/ m.bypass \/ m.post = "REPLAY"
        \/ \A w \in MatchingWays(l)' :
              dir'[SetOf[l]][w].d = {} /\ dir'[SetOf[l]][w].i = {}
    <3>1. CASE u.op = "WRITE"
      BY <1>2, <3>1 DEF MshrShape, ProbeStates
    <3>2. CASE u.op = "SC"
      <4>1. l \notin FetchLines
        BY <2>3, <3>2 DEF Legal, LinesApart
      <4>2. m.add_i = {} /\ d = {}
        BY <1>3, <1>9, <2>1, <3>2, <4>1 DEF d
      <4> QED BY <1>6, <1>10, <4>2 DEF Written
    <3> QED BY <2>1, <3>1, <3>2 DEF OpWrites
  <2> QED BY <1>3, <1>7, <1>10, <2>4, <2>6, <2>7
<1> QED
  BY <1>11, <1>12

LEMMA ProbeCompleteTracks ==
    ASSUME L2Inv, L2Inv', TrackInv, LinesApart, ProbeComplete
    PROVE  TrackInv'
<1>1. /\ L2TypeOK /\ ProbeTypeOK /\ MshrInv /\ DirectoryInv /\ ProbeEntries
      /\ ProbeApart /\ Revoked /\ MergeQuiet /\ Tracked
  BY DEF L2Inv, TypeOK, TrackInv
<1>2. PICK p : p = active_probe
  OBVIOUS
<1>3. PICK m : m = l2mshr[p]
  OBVIOUS
<1>4. PICK l : l = m.line
  OBVIOUS
<1>5. /\ p \in ProbingIds /\ p \in MshrIds /\ m \in L2Mshrs /\ MshrShape(m)
      /\ m.state = "PROBE_INFLIGHT"
      /\ \A h \in Harts : EndpointReady(h)
      /\ \A i \in ProbingIds : i # p => l2mshr[i].state = "NEED_PROBE"
  BY <1>2, <1>3, CompleteHolders
<1>6. /\ l2mshr' = [l2mshr EXCEPT ![p].state = m.post]
      /\ tracker' = [tracker EXCEPT !.done = FALSE]
      /\ UNCHANGED <<endpoint, hit, responses, dcache, mshr>>
  BY <1>2, <1>3 DEF ProbeComplete, TrackerDone, privateVars
<1>7. /\ l \in Lines /\ DirectoryInv'
      /\ \A s \in Sets : s # SetOf[l] => SameRow(s)
      /\ \A x \in Lines \ {l} :
            /\ MatchingWays(x)' \subseteq MatchingWays(x)
            /\ \A y \in MatchingWays(x)' :
                  dir'[SetOf[x]][y] = dir[SetOf[x]][y]
      /\ \A h \in Harts, x \in Lines :
            Needed(h, x) /\ RecordedD(h, x) => RecordedD(h, x)'
      /\ \A n \in DOMAIN m.waiters :
            DFill(m.waiters[n]) => RecordedD(m.waiters[n].hart, l)'
      /\ \/ m.private_fill \/ m.bypass \/ m.post = "REPLAY"
         \/ \A w \in MatchingWays(l)' :
               dir'[SetOf[l]][w].d = {} /\ dir'[SetOf[l]][w].i = {}
  BY <1>2, <1>3, <1>4, CompleteRow
<1>8. m.post \in {"NEED_WB", "NEED_FILL", "NEED_BYPASS", "REPLAY"}
      /\ m.post \in L2MshrStates
  BY <1>5 DEF MshrShape, ProbeStates, L2MshrStates
<1> DEFINE k == [m EXCEPT !.state = m.post]
<1>9. l2mshr'[p] = k /\ \A j \in MshrIds : j # p => l2mshr'[j] = l2mshr[j]
  BY <1>1, <1>3, <1>5, <1>6 DEF L2TypeOK
<1>10. /\ k.state = m.post /\ k.bypass = m.bypass
       /\ k.cacheable = m.cacheable /\ k.private_fill = m.private_fill
       /\ k.line = l /\ k.waiters = m.waiters
  BY <1>4, <1>5, <1>8, StateFields
<1> HIDE DEF k
<1>11. /\ p \notin ProbingIds' /\ ProbingIds' \subseteq ProbingIds
       /\ ProbingIds \subseteq ProbingIds' \cup {p}
       /\ Busy' = Busy
       /\ \A i \in ProbingIds' : i \in MshrIds /\ i # p
  <2>1. k.state \notin ProbeStates /\ k.state # "IDLE"
    BY <1>8, <1>10 DEF ProbeStates
  <2>2. m.state # "IDLE"
    BY <1>5
  <2> QED BY <1>3, <1>9, <2>1, <2>2 DEF ProbingIds, Busy
<1>12. ASSUME NEW i \in ProbingIds'
       PROVE  /\ i \in ProbingIds /\ i \in MshrIds /\ i # p
              /\ l2mshr'[i] = l2mshr[i]
              /\ SetOf[l2mshr[i].line] \in Sets
              /\ SetOf[l2mshr[i].line] # SetOf[l]
              /\ SetOf[l2mshr[i].probe_line] = SetOf[l2mshr[i].line]
              /\ l2mshr'[i].state = "NEED_PROBE"
  <2>1. i \in ProbingIds /\ i \in MshrIds /\ i # p
    BY <1>11
  <2>2. SetOf[l2mshr[i].line] \in Sets
    BY <1>1, <2>1, MshrTyped
  <2>3. SetOf[l2mshr[i].line] # SetOf[l]
    BY <1>1, <1>3, <1>4, <1>5, <2>1 DEF ProbeApart
  <2>4. SetOf[l2mshr[i].probe_line] = SetOf[l2mshr[i].line]
    BY <1>1, <2>1 DEF ProbeEntries, ProbeEntryOK
  <2> QED BY <1>5, <1>9, <2>1, <2>2, <2>3, <2>4
<1>13. ProbeEntries'
  BY <1>1, <1>7, <1>12, EntriesKept DEF SameProbe
<1>14. ProbeApart'
  <2>1. \A i \in ProbingIds' :
           i \in ProbingIds /\ SameTarget(l2mshr[i], l2mshr'[i])
    BY <1>12 DEF SameTarget
  <2>2. \A j \in Busy' :
           \/ j \in Busy /\ GoesOn(l2mshr[j], l2mshr'[j])
           \/ \A i \in ProbingIds' : l2mshr'[j].line # l2mshr[i].probe_line
    <3> SUFFICES ASSUME NEW j \in Busy'
                 PROVE  \/ j \in Busy /\ GoesOn(l2mshr[j], l2mshr'[j])
                        \/ \A i \in ProbingIds' :
                              l2mshr'[j].line # l2mshr[i].probe_line
      OBVIOUS
    <3>1. j \in Busy /\ j \in MshrIds
      BY <1>11 DEF Busy
    <3>2. CASE j = p
      BY <1>9, <1>10, <1>12, <3>2
    <3>3. CASE j # p
      BY <1>9, <3>1, <3>3 DEF GoesOn
    <3> QED BY <3>2, <3>3
  <2>3. \A e \in Installing' : e \in Installing
    BY <1>6 DEF Installing
  <2> QED BY <2>1, <2>2, <2>3, ApartKept
<1>15. Revoked'
  <2>1. /\ tracker'.issue = tracker.issue /\ tracker'.ack = tracker.ack
        /\ ~tracker'.done
    BY <1>1, <1>6 DEF ProbeTypeOK, TrackerRegisters
  <2>2. tracker.issue \cap tracker.ack = {}
    BY <1>1 DEF Revoked
  <2>3. \A h \in Harts : EndpointReady(h)'
    BY <1>5, <1>6 DEF EndpointReady
  <2>4. \A i \in ProbingIds' : l2mshr'[i].state # "PROBE_INFLIGHT"
    BY <1>12
  <2> QED BY <2>1, <2>2, <2>3, <2>4 DEF Revoked
<1>16. MergeQuiet'
  <2> SUFFICES ASSUME NEW j \in Busy' PROVE QuietOK(l2mshr[j])'
    BY DEF MergeQuiet
  <2>1. PICK q : q = l2mshr'[j]
    OBVIOUS
  <2>2. j \in Busy /\ j \in MshrIds /\ p \in Busy
    BY <1>3, <1>5, <1>11 DEF Busy
  <2>3. QuietOK(q)'
    <3>1. CASE j = p
      <4>1. q = k
        BY <1>9, <2>1, <3>1
      <4> QED BY <1>7, <1>10, <4>1 DEF QuietOK, Settled
    <3>2. CASE j # p
      <4>1. q = l2mshr[j] /\ QuietOK(q) /\ q.line \in Lines
        BY <1>1, <1>9, <2>1, <2>2, <3>2, MshrTyped DEF MergeQuiet
      <4>2. m.cacheable
        BY <1>5 DEF MshrShape, ProbeStates
      <4>3. q.cacheable => q.line # l
        BY <1>1, <1>3, <1>4, <2>2, <3>2, <4>1, <4>2 DEF MshrInv
      <4>4. q.cacheable =>
               /\ MatchingWays(q.line)' \subseteq MatchingWays(q.line)
               /\ \A y \in MatchingWays(q.line)' :
                     dir'[SetOf[q.line]][y] = dir[SetOf[q.line]][y]
        BY <1>7, <4>1, <4>3
      <4> QED BY <4>1, <4>4 DEF QuietOK, Settled
    <3> QED BY <3>1, <3>2
  <2> QED BY <2>1, <2>3 DEF QuietOK
<1>17. Tracked'
  <2>1. \A h \in Harts, x \in Lines : HoldsD(h, x)' => Needed(h, x)
    BY <1>6 DEF HoldsD, Needed
  <2>2. ASSUME NEW j \in MshrIds \ ProbingIds',
               NEW n \in DOMAIN l2mshr'[j].waiters,
               DFill(l2mshr'[j].waiters[n]),
               NEW h, h = l2mshr'[j].waiters[n].hart
        PROVE  \/ Needed(h, l2mshr'[j].line)
               \/ l2mshr'[j].line = l /\ RecordedD(h, l)'
    <3>1. CASE j # p
      BY <1>9, <1>11, <2>2, <3>1, NeededFills
    <3>2. CASE j = p
      <4>1. /\ n \in DOMAIN m.waiters /\ DFill(m.waiters[n])
            /\ h = m.waiters[n].hart /\ l2mshr'[j].line = l
        BY <1>9, <1>10, <2>2, <3>2
      <4> QED BY <1>7, <4>1
    <3> QED BY <3>1, <3>2
  <2>3. \A e \in Installing' : Needed(e.hart, e.line)
    BY <1>6, NeededFills DEF Installing
  <2>4. \A h \in Harts, x \in Lines :
           Needed(h, x)' => Needed(h, x) \/ RecordedD(h, x)'
    BY <2>1, <2>2, <2>3, NeededStep
  <2> QED BY <1>1, <1>7, <2>4, TrackedKept
<1> QED
  BY <1>7, <1>13, <1>14, <1>15, <1>16, <1>17 DEF TrackInv
-----------------------------------------------------------------------------
(* The system.                                                               *)

LEMMA InitTrack == Init => TrackInv
<1> SUFFICES ASSUME Init PROVE TrackInv
  OBVIOUS
<1>1. /\ hit = << >> /\ responses = << >>
      /\ \A i \in MshrIds : l2mshr[i] = FreeL2Mshr
      /\ \A s \in Sets : \A w \in Ways : ~dir[s][w].valid
  BY DEF Init, L2Init, DirectoryInit, InvalidEntry
<1>2. FreeL2Mshr.state = "IDLE" /\ FreeL2Mshr.waiters = << >>
  BY DEF FreeL2Mshr
<1>3. ProbingIds = {} /\ Installing = {} /\ Busy = {}
  BY <1>1, <1>2 DEF ProbingIds, ProbeStates, Installing, Elements, Busy
<1>4. DirectoryInv
  BY <1>1 DEF DirectoryInv
<1>5. ProbeEntries /\ ProbeApart /\ MergeQuiet
  BY <1>3 DEF ProbeEntries, ProbeApart, MergeQuiet
<1>6. Revoked
  BY <1>3 DEF Revoked, Init, ProbeInit, EndpointReady
<1>7. Tracked
  <2>1. \A h \in Harts, l \in Lines : ~HoldsD(h, l)
    BY DEF Init, PrivateInit, FreeMshr, HoldsD
  <2>2. \A i \in MshrIds : DOMAIN l2mshr[i].waiters = {}
    BY <1>1, <1>2
  <2> QED BY <1>3, <2>1, <2>2 DEF Tracked, Needed
<1> QED
  BY <1>4, <1>5, <1>6, <1>7 DEF TrackInv

LEMMA LookupTracks ==
    ASSUME L2Inv, L2Inv', TrackInv, LinesApart, Lookup
    PROVE  TrackInv'
  BY ImmediateTracks, TakesTrack, MergeTracks, HitTracks, ProbeTracks
     DEF Lookup

LEMMA NextTrack ==
    ASSUME L2Inv, L2Inv', TrackInv, LinesApart, [Next]_vars
    PROVE  TrackInv'
<1>1. CASE L2Step
  <2>1. ASSUME NEW n \in 1 .. COMMAND_ENTRIES, WriteBeat(n) PROVE TrackInv'
    BY <2>1, QueuesTrack
  <2>2. CASE Capture
    BY <2>2, QueuesTrack
  <2>3. ASSUME NEW i \in MshrIds, BusRequest(i) \/ Replay(i) PROVE TrackInv'
    BY <2>3, BusRequestTracks, ReplayTracks
  <2> QED
    BY <1>1, <2>1, <2>2, <2>3, LookupTracks, ProbeStartTracks,
       ProbeCompleteTracks, BusResponseTracks, HitEnqueueTracks,
       RespondTracks DEF L2Step
<1>2. ASSUME NEW h \in Harts,
             \/ Send(h) \/ ProbeStep(h) \/ InvalidateL1D(h)
             \/ L1DStep(h) \/ L1IStep(h)
      PROVE  TrackInv'
  BY <1>2, QueuesTrack, HartTracks
<1>3. CASE UNCHANGED vars
  <2>1. UNCHANGED <<dir, replace, l2mshr, hit, responses, tracker, endpoint,
                    active_probe, dcache, mshr>>
    BY <1>3 DEF vars, directoryVars, probeVars, privateVars, l2Vars
  <2>2. \A h \in Harts, l \in Lines : HoldsD(h, l)' => HoldsD(h, l)
    BY <2>1 DEF HoldsD
  <2> QED BY <2>1, <2>2, DropsKeep
<1> QED
  BY <1>1, <1>2, <1>3 DEF Next

LEMMA TrackInvariant ==
    ASSUME LinesApart
    PROVE  Spec => []TrackInv
<1>1. Init => L2Inv /\ TrackInv
  BY InitInv, InitTrack
<1>2. L2Inv /\ TrackInv /\ [Next]_vars => (L2Inv /\ TrackInv)'
  BY NextKeeps, NextTrack
<1> QED
  BY <1>1, <1>2, PTL DEF Spec

\* With page tables and instructions apart from the lines that an L1D holds or
\* reserves, the directory of the L2 home knows every D-cache copy, for any
\* number of harts, ways, sets and MSHRs and whatever is in flight: a recorded
\* fill is installed long after its dispatch, victim probes and write probes
\* of several sets overlap, fills join MSHRs that wait for their own probe,
\* and an answer races the revocation of its line (l2_native.v:642-799 and
\* 1736-1945).
THEOREM L2Tracking ==
    ASSUME LinesApart
    PROVE  Spec => []CopiesTracked
<1>1. TrackInv => CopiesTracked
  BY DEF TrackInv, Tracked, Needed, CopiesTracked
<1> QED
  BY <1>1, TrackInvariant, PTL
=============================================================================
