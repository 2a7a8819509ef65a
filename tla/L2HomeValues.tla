---------------------------- MODULE L2HomeValues ----------------------------
(***************************************************************************)
(* The values of the L2 home.  First the data array: a line that requests   *)
(* can hit is in one way, and a clean way agrees with the memory, however   *)
(* evictions, writebacks, fills, replays and writes around the array        *)
(* overlap.  Then what the copies, the answers on their way, the MSHRs and  *)
(* the reservations hold of the current value of a line: a write is         *)
(* dispatched only when nothing but the writer's own copy, and copies its   *)
(* probe revokes, can be left behind.                                       *)
(*                                                                          *)
(* The memory behind the L2 does not fail (only devices may): a failed fill *)
(* leaves its way as it was, as run l2_fill_error shows.                    *)
(***************************************************************************)
EXTENDS L2HomeTracking, FiniteSetTheorems

\* No access of the backing memory fails.
MemoryWorks == BadLines \subseteq DeviceLines

\* What an MSHR does once its probe is over.
Phase(m) == IF m.state \in ProbeStates THEN m.post ELSE m.state

\* It has a dirty victim to write back, its way waits for a fill, or its way
\* has its line.
Evicting(m) == Phase(m) \in {"NEED_WB", "WB_INFLIGHT"}
Filling(m) == Phase(m) \in {"NEED_FILL", "FILL_INFLIGHT"}
Replaying(m) == Phase(m) = "REPLAY"

\* The MSHRs that reserve a way, and the way.
Holders == {i \in Busy : ~l2mshr[i].bypass}
At(m, s, w) == L2SetOf[m.line] = s /\ m.way = w

\* A lookup of the line may find the way.
Open(s, w, l) ==
    array[s][w].valid /\ ~array[s][w].reserved /\ array[s][w].line = l

\* The way e of MSHR m, whose line has value v in the memory: a dirty victim
\* is there until it is written back, and a fill overwrites nothing dirty.
HeldOK(m, e, v) ==
    /\ e.reserved
    /\ Evicting(m) => /\ e.valid /\ e.dirty
                      /\ e.line = m.victim /\ e.data = m.vdata
    /\ Filling(m) => ~(e.valid /\ e.dirty)
    /\ Replaying(m) => /\ e.valid /\ e.line = m.line /\ e.data = m.data
                       /\ ~e.dirty => e.data = v

Held ==
    \A i \in Holders :
        HeldOK(l2mshr[i], array[L2SetOf[l2mshr[i].line]][l2mshr[i].way],
               mem[l2mshr[i].line])

\* Every reserved way has one MSHR.
Reservations ==
    /\ \A i, j \in Holders, s \in L2Sets, w \in L2Ways :
          At(l2mshr[i], s, w) /\ At(l2mshr[j], s, w) => i = j
    /\ \A s \in L2Sets, w \in L2Ways :
          array[s][w].reserved => \E i \in Holders : At(l2mshr[i], s, w)

\* A way of set s holds a cacheable line of the set.
WayOK(s, e) ==
    e.valid => /\ L2SetOf[e.line] = s /\ e.line \notin DeviceLines
               /\ e.line \in Lines

Resident ==
    \A s \in L2Sets, w \in L2Ways :
        /\ WayOK(s, array[s][w])
        /\ array[s][w].valid /\ ~array[s][w].reserved /\ ~array[s][w].dirty
              => array[s][w].data = mem[array[s][w].line]

\* A line that lookups may find is in one way, and no MSHR works on it, be it
\* as its line or as its victim.
OnePlace ==
    /\ \A s, t \in L2Sets, w, x \in L2Ways, l \in Lines :
          Open(s, w, l) /\ Open(t, x, l) => s = t /\ w = x
    /\ \A i \in Busy, s \in L2Sets, w \in L2Ways :
          l2mshr[i].cacheable => ~Open(s, w, l2mshr[i].line)
    /\ \A i \in Holders, s \in L2Sets, w \in L2Ways :
          Evicting(l2mshr[i]) => ~Open(s, w, l2mshr[i].victim)

\* Nobody else works on a victim that is not written back yet.
VictimsApart ==
    \A i \in Holders : Evicting(l2mshr[i]) =>
        /\ \A j \in Busy :
              l2mshr[j].cacheable /\ j # i => l2mshr[j].line # l2mshr[i].victim
        /\ \A j \in Holders :
              Evicting(l2mshr[j]) /\ j # i
              => l2mshr[j].victim # l2mshr[i].victim

NoFailure == \A i \in Busy : l2mshr[i].cacheable => l2mshr[i].state # "ERROR"

ArrayInv ==
    /\ Held /\ Reservations /\ Resident /\ OnePlace /\ VictimsApart
    /\ NoFailure

-----------------------------------------------------------------------------
(* What the steps have in common.                                            *)

LEMMA MshrRegisters ==
    ASSUME L2TypeOK, NEW i \in MshrIds
    PROVE  /\ l2mshr[i] \in L2Mshrs
           /\ l2mshr[i].line \in Lines /\ l2mshr[i].victim \in Lines
           /\ l2mshr[i].way \in L2Ways
           /\ L2SetOf[l2mshr[i].line] \in L2Sets
<1>1. l2mshr[i] \in L2Mshrs
  BY DEF L2TypeOK
<1>2. /\ l2mshr[i].line \in Lines /\ l2mshr[i].victim \in Lines
      /\ l2mshr[i].way \in L2Ways
  BY <1>1 DEF L2Mshrs
<1>3. L2SetOf[l2mshr[i].line] \in L2Sets
  BY <1>2, L2Assumption
<1> QED
  BY <1>1, <1>2, <1>3

\* The holders of a state.
LEMMA HolderFacts ==
    /\ \A i : i \in Busy <=> i \in MshrIds /\ l2mshr[i].state # "IDLE"
    /\ \A i : i \in Holders <=> /\ i \in MshrIds /\ l2mshr[i].state # "IDLE"
                                /\ ~l2mshr[i].bypass
  BY DEF Busy, Holders

LEMMA HolderFactsNext ==
    /\ \A i : i \in Busy' <=> i \in MshrIds /\ l2mshr'[i].state # "IDLE"
    /\ \A i : i \in Holders' <=> /\ i \in MshrIds /\ l2mshr'[i].state # "IDLE"
                                 /\ ~l2mshr'[i].bypass
  BY DEF Busy, Holders

\* What MSHR m holds and works on is what MSHR k does.
SameHolding(m, k) ==
    /\ k.state = "IDLE" <=> m.state = "IDLE"
    /\ k.state = "ERROR" <=> m.state = "ERROR"
    /\ k.bypass <=> m.bypass
    /\ k.cacheable <=> m.cacheable
    /\ k.line = m.line /\ k.way = m.way
    /\ k.victim = m.victim /\ k.vdata = m.vdata /\ k.data = m.data
    /\ Evicting(k) <=> Evicting(m)
    /\ Filling(k) <=> Filling(m)
    /\ Replaying(k) <=> Replaying(m)

\* The MSHRs move on without touching the array.
LEMMA HoldingKept ==
    ASSUME ArrayInv, UNCHANGED <<array, mem>>,
           \A i \in MshrIds : SameHolding(l2mshr[i], l2mshr'[i])
    PROVE  ArrayInv'
<1>1. /\ Busy' = Busy /\ Holders' = Holders
      /\ Busy \subseteq MshrIds /\ Holders \subseteq Busy
  BY DEF Busy, Holders, SameHolding
<1>2. \A i \in MshrIds : \A s, w : At(l2mshr'[i], s, w) <=> At(l2mshr[i], s, w)
  BY DEF At, SameHolding
<1>3. Held'
  <2> SUFFICES ASSUME NEW i \in Holders
               PROVE  HeldOK(l2mshr'[i],
                             array[L2SetOf[l2mshr'[i].line]][l2mshr'[i].way],
                             mem[l2mshr'[i].line])
    BY <1>1 DEF Held
  <2>1. HeldOK(l2mshr[i], array[L2SetOf[l2mshr[i].line]][l2mshr[i].way],
               mem[l2mshr[i].line])
    BY DEF ArrayInv, Held
  <2>2. SameHolding(l2mshr[i], l2mshr'[i])
    BY <1>1
  <2> QED BY <2>1, <2>2 DEF HeldOK, SameHolding
<1>4. Reservations'
  <2>1. \A i, j \in Holders, s \in L2Sets, w \in L2Ways :
           At(l2mshr'[i], s, w) /\ At(l2mshr'[j], s, w) => i = j
    BY <1>1, <1>2 DEF ArrayInv, Reservations
  <2>2. \A s \in L2Sets, w \in L2Ways :
           array[s][w].reserved => \E i \in Holders : At(l2mshr'[i], s, w)
    BY <1>1, <1>2 DEF ArrayInv, Reservations
  <2> QED BY <1>1, <2>1, <2>2 DEF Reservations
<1>5. Resident'
  BY DEF ArrayInv, Resident
<1>6. \A s, w, l : Open(s, w, l)' <=> Open(s, w, l)
  BY DEF Open
<1>7. OnePlace'
  BY <1>1, <1>6 DEF ArrayInv, OnePlace, SameHolding
<1>8. VictimsApart'
  BY <1>1 DEF ArrayInv, VictimsApart, SameHolding
<1>9. NoFailure'
  BY <1>1 DEF ArrayInv, NoFailure, SameHolding
<1> QED
  BY <1>3, <1>4, <1>5, <1>7, <1>8, <1>9 DEF ArrayInv

\* Only way w of set s may hold the line where a lookup can find it, no MSHR
\* but i has the line, and none but i has yet to write it back.
OnlyAt(s, w, l) ==
    \A t \in L2Sets, x \in L2Ways : Open(t, x, l) => t = s /\ x = w
LineFree(i, l) ==
    \A j \in Busy : j # i /\ l2mshr[j].cacheable => l2mshr[j].line # l
VictimFree(i, l) ==
    \A j \in Holders : j # i /\ Evicting(l2mshr[j]) => l2mshr[j].victim # l

\* Nobody but MSHR i has a copy of the line.
MemOnly(i, l) ==
    /\ \A j \in Holders : j # i => l2mshr[j].line # l
    /\ \A t \in L2Sets, x \in L2Ways : ~Open(t, x, l)

\* What MSHR k and the way e it has, if it has one, must be.
MshrFits(i, s, w, k) ==
    /\ k.state # "ERROR" /\ ~k.bypass /\ k.cacheable
    /\ At(k, s, w)
    /\ OnlyAt(s, w, k.line) /\ VictimFree(i, k.line)
    /\ Evicting(k) => /\ OnlyAt(s, w, k.victim)
                      /\ LineFree(i, k.victim) /\ VictimFree(i, k.victim)

WayFits(i, s, w, e) ==
    /\ WayOK(s, e)
    /\ e.valid /\ ~e.reserved => /\ OnlyAt(s, w, e.line)
                                 /\ LineFree(i, e.line)
                                 /\ VictimFree(i, e.line)

\* MSHR i takes way w of set s, works on it or leaves it.
LEMMA HolderStep ==
    ASSUME L2TypeOK, ArrayInv,
           NEW i \in MshrIds, NEW s \in L2Sets, NEW w \in L2Ways,
           NEW k, NEW e,
           l2mshr'[i] = k, \A j \in MshrIds : j # i => l2mshr'[j] = l2mshr[j],
           array'[s][w] = e,
           \A t \in L2Sets, x \in L2Ways :
              ~(t = s /\ x = w) => array'[t][x] = array[t][x],
           i \in Holders => At(l2mshr[i], s, w),
           i \notin Holders => ~array[s][w].reserved,
           k.state # "IDLE" =>
              MshrFits(i, s, w, k) /\ HeldOK(k, e, mem'[k.line]),
           e.reserved => k.state # "IDLE",
           WayFits(i, s, w, e),
           e.valid /\ ~e.reserved /\ ~e.dirty => e.data = mem'[e.line],
           \A l \in Lines : mem'[l] = mem[l] \/ MemOnly(i, l)
    PROVE  ArrayInv'
<1>1. /\ Held /\ Reservations /\ Resident /\ OnePlace /\ VictimsApart
      /\ NoFailure
  BY DEF ArrayInv
<1>2. /\ \A j \in MshrIds : j # i => /\ j \in Holders' <=> j \in Holders
                                     /\ j \in Busy' <=> j \in Busy
      /\ i \in Busy' <=> k.state # "IDLE"
      /\ i \in Holders' <=> k.state # "IDLE"
      /\ Holders \subseteq MshrIds /\ Holders' \subseteq MshrIds
      /\ Busy \subseteq MshrIds /\ Busy' \subseteq MshrIds
      /\ Holders \subseteq Busy /\ Holders' \subseteq Busy'
  BY HolderFacts, HolderFactsNext DEF MshrFits
<1>3. ASSUME NEW j \in Holders, j # i
      PROVE  ~At(l2mshr[j], s, w)
  <2>1. CASE i \in Holders
    BY <1>1, <1>3, <2>1 DEF Reservations
  <2>2. CASE i \notin Holders
    BY <1>1, <1>3, <2>2 DEF Held, HeldOK, At
  <2> QED BY <2>1, <2>2
<1>4. \A j \in Holders : j # i => mem'[l2mshr[j].line] = mem[l2mshr[j].line]
  BY <1>2, MshrRegisters DEF MemOnly
<1>5. k.state # "IDLE" => e.reserved
  BY DEF HeldOK
<1>6. Held'
  <2> SUFFICES ASSUME NEW j \in Holders'
               PROVE  HeldOK(l2mshr'[j],
                             array'[L2SetOf[l2mshr'[j].line]][l2mshr'[j].way],
                             mem'[l2mshr'[j].line])
    BY DEF Held
  <2>1. CASE j = i
    BY <1>2, <2>1 DEF MshrFits, At
  <2>2. CASE j # i
    <3> DEFINE m == l2mshr[j]
    <3>1. j \in Holders /\ j \in MshrIds /\ l2mshr'[j] = m
      BY <1>2, <2>2
    <3>2. L2SetOf[m.line] \in L2Sets /\ m.way \in L2Ways
      BY <3>1, MshrRegisters
    <3>3. ~(L2SetOf[m.line] = s /\ m.way = w)
      BY <1>3, <2>2, <3>1 DEF At
    <3>4. array'[L2SetOf[m.line]][m.way] = array[L2SetOf[m.line]][m.way]
      BY <3>2, <3>3
    <3> QED BY <1>1, <1>4, <2>2, <3>1, <3>4 DEF Held
  <2> QED BY <2>1, <2>2
<1>7. Reservations'
  <2>1. ASSUME NEW j \in Holders', NEW n \in Holders',
               NEW t \in L2Sets, NEW x \in L2Ways,
               At(l2mshr'[j], t, x), At(l2mshr'[n], t, x)
        PROVE  j = n
    <3>1. i \in Holders' => \A u, y : At(k, u, y) <=> u = s /\ y = w
      BY <1>2 DEF MshrFits, At
    <3>2. CASE j = i \/ n = i
      BY <1>2, <1>3, <2>1, <3>1, <3>2
    <3>3. CASE j # i /\ n # i
      BY <1>1, <1>2, <2>1, <3>3 DEF Reservations
    <3> QED BY <3>2, <3>3
  <2>2. ASSUME NEW t \in L2Sets, NEW x \in L2Ways, array'[t][x].reserved
        PROVE  \E j \in Holders' : At(l2mshr'[j], t, x)
    <3>1. CASE t = s /\ x = w
      BY <1>2, <2>2, <3>1 DEF MshrFits
    <3>2. CASE ~(t = s /\ x = w)
      <4>1. PICK j \in Holders : At(l2mshr[j], t, x)
        BY <1>1, <2>2, <3>2 DEF Reservations
      <4>2. j # i
        BY <3>2, <4>1 DEF At
      <4> QED BY <1>2, <4>1, <4>2
    <3> QED BY <3>1, <3>2
  <2> QED BY <2>1, <2>2 DEF Reservations
<1>8. Resident'
  <2> SUFFICES ASSUME NEW t \in L2Sets, NEW x \in L2Ways
               PROVE  /\ WayOK(t, array'[t][x])
                      /\ array'[t][x].valid /\ ~array'[t][x].reserved
                         /\ ~array'[t][x].dirty
                            => array'[t][x].data = mem'[array'[t][x].line]
    BY DEF Resident
  <2>1. CASE t = s /\ x = w
    BY <2>1 DEF WayFits
  <2>2. CASE ~(t = s /\ x = w)
    <3>1. /\ WayOK(t, array[t][x])
          /\ array[t][x].valid /\ ~array[t][x].reserved /\ ~array[t][x].dirty
                => array[t][x].data = mem[array[t][x].line]
      BY <1>1 DEF Resident
    <3>2. array[t][x].valid /\ ~array[t][x].reserved =>
             mem'[array[t][x].line] = mem[array[t][x].line]
      BY <3>1 DEF MemOnly, Open, WayOK
    <3> QED BY <2>2, <3>1, <3>2
  <2> QED BY <2>1, <2>2
<1>9. \A t \in L2Sets, x \in L2Ways : \A l :
         Open(t, x, l)' =>
            \/ Open(t, x, l) /\ ~(t = s /\ x = w)
            \/ t = s /\ x = w /\ e.valid /\ ~e.reserved /\ e.line = l
  BY DEF Open
<1>10. OnePlace'
  <2>1. ASSUME NEW t \in L2Sets, NEW u \in L2Sets, NEW x \in L2Ways,
               NEW y \in L2Ways, NEW l \in Lines,
               Open(t, x, l)', Open(u, y, l)'
        PROVE  t = u /\ x = y
    <3>1. CASE t = s /\ x = w /\ e.valid /\ ~e.reserved /\ e.line = l
      BY <1>9, <2>1, <3>1 DEF WayFits, OnlyAt
    <3>2. CASE u = s /\ y = w /\ e.valid /\ ~e.reserved /\ e.line = l
      BY <1>9, <2>1, <3>2 DEF WayFits, OnlyAt
    <3>3. CASE Open(t, x, l) /\ Open(u, y, l)
      BY <1>1, <3>3 DEF OnePlace
    <3> QED BY <1>9, <2>1, <3>1, <3>2, <3>3
  <2>2. ASSUME NEW j \in Busy', NEW t \in L2Sets, NEW x \in L2Ways, NEW l,
               l2mshr'[j].cacheable, l = l2mshr'[j].line, Open(t, x, l)'
        PROVE  FALSE
    <3>1. CASE j = i
      BY <1>2, <1>5, <1>9, <2>2, <3>1 DEF MshrFits, OnlyAt
    <3>2. CASE j # i
      BY <1>1, <1>2, <1>9, <2>2, <3>2 DEF OnePlace, WayFits, LineFree
    <3> QED BY <3>1, <3>2
  <2>3. ASSUME NEW j \in Holders', NEW t \in L2Sets, NEW x \in L2Ways,
               NEW l, Evicting(l2mshr'[j]), l = l2mshr'[j].victim,
               Open(t, x, l)'
        PROVE  FALSE
    <3>1. CASE j = i
      BY <1>2, <1>5, <1>9, <2>3, <3>1 DEF MshrFits, OnlyAt
    <3>2. CASE j # i
      BY <1>1, <1>2, <1>9, <2>3, <3>2 DEF OnePlace, WayFits, VictimFree
    <3> QED BY <3>1, <3>2
  <2> QED BY <2>1, <2>2, <2>3 DEF OnePlace, Open
<1>11. VictimsApart'
  <2> SUFFICES ASSUME NEW j \in Holders', Evicting(l2mshr'[j])
               PROVE  /\ \A n \in Busy' :
                            l2mshr'[n].cacheable /\ n # j
                            => l2mshr'[n].line # l2mshr'[j].victim
                      /\ \A n \in Holders' :
                            Evicting(l2mshr'[n]) /\ n # j
                            => l2mshr'[n].victim # l2mshr'[j].victim
    BY DEF VictimsApart
  <2>1. CASE j = i
    BY <1>2, <2>1 DEF MshrFits, LineFree, VictimFree
  <2>2. CASE j # i
    <3>1. j \in Holders /\ l2mshr'[j] = l2mshr[j]
      BY <1>2, <2>2
    <3>2. \A n \in MshrIds : n # i /\ n # j =>
             /\ n \in Busy' /\ l2mshr'[n].cacheable =>
                   l2mshr'[n].line # l2mshr[j].victim
             /\ n \in Holders' /\ Evicting(l2mshr'[n]) =>
                   l2mshr'[n].victim # l2mshr[j].victim
      BY <1>1, <1>2, <2>2, <3>1 DEF VictimsApart
    <3>3. i \in Busy' => /\ k.line # l2mshr[j].victim
                         /\ Evicting(k) => k.victim # l2mshr[j].victim
      BY <1>2, <2>2, <3>1 DEF MshrFits, VictimFree
    <3> QED BY <1>2, <3>1, <3>2, <3>3
  <2> QED BY <2>1, <2>2
<1>12. NoFailure'
  BY <1>1, <1>2 DEF NoFailure, MshrFits
<1> QED
  BY <1>6, <1>7, <1>8, <1>10, <1>11, <1>12 DEF ArrayInv

\* MSHR i goes around the array.
LEMMA BypassStep ==
    ASSUME L2TypeOK, ArrayInv, NEW i \in MshrIds, NEW k,
           l2mshr'[i] = k, \A j \in MshrIds : j # i => l2mshr'[j] = l2mshr[j],
           UNCHANGED array, i \notin Holders, k.state = "IDLE" \/ k.bypass,
           k.state # "IDLE" /\ k.cacheable =>
              /\ k.state # "ERROR" /\ k.line \in Lines
              /\ \A t \in L2Sets, x \in L2Ways : ~Open(t, x, k.line)
              /\ VictimFree(i, k.line),
           \A l \in Lines : mem'[l] = mem[l] \/ MemOnly(i, l)
    PROVE  ArrayInv'
<1>1. /\ Held /\ Reservations /\ Resident /\ OnePlace /\ VictimsApart
      /\ NoFailure
  BY DEF ArrayInv
<1>2. /\ \A j \in MshrIds : j # i => j \in Busy' <=> j \in Busy
      /\ \A j \in Holders : j # i /\ l2mshr'[j] = l2mshr[j]
      /\ i \in Busy' <=> k.state # "IDLE"
      /\ Holders' = Holders
      /\ Holders \subseteq MshrIds
      /\ Busy \subseteq MshrIds /\ Busy' \subseteq MshrIds
  BY HolderFacts, HolderFactsNext
<1>3. \A j \in Holders : mem'[l2mshr[j].line] = mem[l2mshr[j].line]
  BY <1>2, MshrRegisters DEF MemOnly
<1>4. Held'
  <2> SUFFICES ASSUME NEW j \in Holders
               PROVE  HeldOK(l2mshr'[j],
                             array[L2SetOf[l2mshr'[j].line]][l2mshr'[j].way],
                             mem'[l2mshr'[j].line])
    BY <1>2 DEF Held
  <2> QED BY <1>1, <1>2, <1>3 DEF Held
<1>5. Reservations'
  <2>1. \A j, n \in Holders, s \in L2Sets, w \in L2Ways :
           At(l2mshr'[j], s, w) /\ At(l2mshr'[n], s, w) => j = n
    BY <1>1, <1>2 DEF Reservations
  <2>2. \A s \in L2Sets, w \in L2Ways :
           array[s][w].reserved => \E j \in Holders : At(l2mshr'[j], s, w)
    BY <1>1, <1>2 DEF Reservations
  <2> QED BY <1>2, <2>1, <2>2 DEF Reservations
<1>6. Resident'
  <2> SUFFICES ASSUME NEW t \in L2Sets, NEW x \in L2Ways
               PROVE  /\ WayOK(t, array[t][x])
                      /\ array[t][x].valid /\ ~array[t][x].reserved
                         /\ ~array[t][x].dirty
                            => array[t][x].data = mem'[array[t][x].line]
    BY DEF Resident
  <2>1. /\ WayOK(t, array[t][x])
        /\ array[t][x].valid /\ ~array[t][x].reserved /\ ~array[t][x].dirty
              => array[t][x].data = mem[array[t][x].line]
    BY <1>1 DEF Resident
  <2>2. array[t][x].valid /\ ~array[t][x].reserved =>
           mem'[array[t][x].line] = mem[array[t][x].line]
    BY <2>1 DEF MemOnly, Open, WayOK
  <2> QED BY <2>1, <2>2
<1>7. \A t, x, l : Open(t, x, l)' <=> Open(t, x, l)
  BY DEF Open
<1>8. OnePlace'
  <2>1. \A j \in Busy', t \in L2Sets, x \in L2Ways : \A l :
           l2mshr'[j].cacheable /\ l = l2mshr'[j].line => ~Open(t, x, l)
    BY <1>1, <1>2 DEF OnePlace
  <2>2. \A j \in Holders, t \in L2Sets, x \in L2Ways : \A l :
           Evicting(l2mshr'[j]) /\ l = l2mshr'[j].victim => ~Open(t, x, l)
    BY <1>1, <1>2 DEF OnePlace
  <2> QED BY <1>1, <1>2, <1>7, <2>1, <2>2 DEF OnePlace, Open
<1>9. VictimsApart'
  <2> SUFFICES ASSUME NEW j \in Holders, Evicting(l2mshr[j])
               PROVE  /\ \A n \in Busy' :
                            l2mshr'[n].cacheable /\ n # j
                            => l2mshr'[n].line # l2mshr[j].victim
                      /\ \A n \in Holders :
                            Evicting(l2mshr[n]) /\ n # j
                            => l2mshr[n].victim # l2mshr[j].victim
    BY <1>2 DEF VictimsApart
  <2> QED BY <1>1, <1>2 DEF VictimsApart, VictimFree
<1>10. NoFailure'
  BY <1>1, <1>2 DEF NoFailure
<1> QED
  BY <1>4, <1>5, <1>6, <1>8, <1>9, <1>10 DEF ArrayInv

\* A hit writes way w of set s.
LEMMA HitStep ==
    ASSUME L2TypeOK, ArrayInv,
           NEW s \in L2Sets, NEW w \in L2Ways, NEW e,
           UNCHANGED <<l2mshr, mem>>, array'[s][w] = e,
           \A t \in L2Sets, x \in L2Ways :
              ~(t = s /\ x = w) => array'[t][x] = array[t][x],
           array[s][w].valid, ~array[s][w].reserved,
           e.valid, e.dirty, ~e.reserved, e.line = array[s][w].line
    PROVE  ArrayInv'
<1>1. /\ Held /\ Reservations /\ Resident /\ OnePlace /\ VictimsApart
      /\ NoFailure
  BY DEF ArrayInv
<1>2. Busy' = Busy /\ Holders' = Holders
  BY DEF Busy, Holders
<1>3. Held'
  <2> SUFFICES ASSUME NEW j \in Holders
               PROVE  HeldOK(l2mshr[j],
                             array'[L2SetOf[l2mshr[j].line]][l2mshr[j].way],
                             mem[l2mshr[j].line])
    BY <1>2 DEF Held
  <2> DEFINE t == L2SetOf[l2mshr[j].line]
             x == l2mshr[j].way
  <2>1. t \in L2Sets /\ x \in L2Ways
    BY HolderFacts, MshrRegisters
  <2>2. HeldOK(l2mshr[j], array[t][x], mem[l2mshr[j].line])
    BY <1>1 DEF Held
  <2>3. array[t][x].reserved
    BY <2>2 DEF HeldOK
  <2> HIDE DEF t, x
  <2>4. array'[t][x] = array[t][x]
    BY <2>1, <2>3
  <2> QED BY <2>2, <2>4 DEF t, x
<1>4. Reservations'
  BY <1>1, <1>2 DEF Reservations
<1>5. Resident'
  BY <1>1 DEF Resident, WayOK
<1>6. \A t \in L2Sets, x \in L2Ways : \A l : Open(t, x, l)' <=> Open(t, x, l)
  BY DEF Open
<1>7. OnePlace'
  BY <1>1, <1>2, <1>6 DEF OnePlace
<1>8. VictimsApart' /\ NoFailure'
  BY <1>1, <1>2 DEF VictimsApart, NoFailure
<1> QED
  BY <1>3, <1>4, <1>5, <1>7, <1>8 DEF ArrayInv
-----------------------------------------------------------------------------
(* The dispatch.                                                             *)

LEMMA InvParts ==
    ASSUME L2Inv
    PROVE  /\ TypeOK /\ DirectoryTypeOK /\ L2TypeOK /\ ServiceInv
           /\ MshrInv /\ BusInv
  BY DEF L2Inv, TypeOK

LEMMA ArrayParts ==
    ASSUME ArrayInv
    PROVE  /\ Held /\ Reservations /\ Resident /\ OnePlace /\ VictimsApart
           /\ NoFailure
  BY DEF ArrayInv

\* A line that no MSHR owns and that is no dirty victim that has been sent is
\* no victim at all: the lock of the directory set covers one that waits for a
\* probe.
LEMMA CommandFree ==
    ASSUME L2Inv, ArrayInv, Dispatch, NotVictim
    PROVE  \A i : LineFree(i, Cmd.line) /\ VictimFree(i, Cmd.line)
<1>1. /\ MatchingMshrs = {} /\ DirtyVictimMshrs = {} /\ ~SetLocked
  BY DEF Dispatch, NotVictim, Unowned
<1>2. /\ L2TypeOK /\ Held /\ Resident
      /\ Cmd.line \in Lines
  BY InvParts, ArrayParts, CmdFacts DEF Dispatch
<1>3. \A j \in Busy :
         l2mshr[j].cacheable \/ ~l2mshr[j].bypass => l2mshr[j].line # Cmd.line
  BY <1>1 DEF MatchingMshrs
<1>4. ASSUME NEW j \in Holders, Evicting(l2mshr[j]),
             l2mshr[j].victim = Cmd.line
      PROVE  FALSE
  <2> DEFINE m == l2mshr[j]
             s == L2SetOf[m.line]
  <2>1. /\ j \in Busy /\ j \in MshrIds /\ ~m.bypass /\ m.line # Cmd.line
        /\ m.line \in Lines /\ s \in L2Sets /\ m.way \in L2Ways
    BY <1>2, <1>3, HolderFacts, MshrRegisters
  <2>2. CASE m.state \in ProbeStates
    <3>1. array[s][m.way].valid /\ array[s][m.way].line = Cmd.line
      BY <1>2, <1>4 DEF Held, HeldOK
    <3>2. L2SetOf[Cmd.line] = s
      BY <1>2, <2>1, <3>1 DEF Resident, WayOK
    <3>3. SetOf[m.line] = SetOf[Cmd.line]
      BY <1>2, <2>1, <3>2, IndexAssumption
    <3> QED BY <1>1, <2>1, <2>2, <3>3 DEF SetLocked
  <2>3. CASE m.state \notin ProbeStates
    BY <1>1, <1>4, <2>1, <2>3 DEF Evicting, Phase, DirtyVictimMshrs
  <2> QED BY <2>2, <2>3
<1> QED
  BY <1>3, <1>4 DEF LineFree, VictimFree

\* The ways where the lookup finds the line.
LEMMA TagFacts ==
    ASSUME L2Inv, ArrayInv, lookup # << >>
    PROVE  LET s == L2SetOf[Cmd.line]
           IN  /\ \A t \in L2Sets, x \in L2Ways :
                     Open(t, x, Cmd.line) => t = s /\ x \in TagWays
               /\ \A w \in TagWays : OnlyAt(s, w, Cmd.line)
               /\ s \in L2Sets /\ Row = array[s] /\ OpenWays \subseteq L2Ways
               /\ TagWays \subseteq OpenWays
<1>1. /\ L2TypeOK /\ ServiceInv /\ Resident /\ OnePlace
      /\ L2SetOf[Cmd.line] \in L2Sets /\ Cmd.line \in Lines
      /\ TagWays \subseteq OpenWays /\ OpenWays \subseteq L2Ways
  BY InvParts, ArrayParts, CmdFacts, RowFacts
<1>2. \A w \in TagWays : Open(L2SetOf[Cmd.line], w, Cmd.line)
  BY DEF TagWays, Open, Row
<1>3. \A t \in L2Sets, x \in L2Ways :
         Open(t, x, Cmd.line) => t = L2SetOf[Cmd.line] /\ x \in TagWays
  BY <1>1 DEF Resident, WayOK, Open, TagWays, Row
<1>4. \A w \in TagWays : OnlyAt(L2SetOf[Cmd.line], w, Cmd.line)
  BY <1>1, <1>2 DEF OnlyAt, OnePlace
<1> QED
  BY <1>1, <1>3, <1>4 DEF Row

\* A miss allocates the way that holds a stale copy, if there is one.
LEMMA MissFacts ==
    ASSUME L2Inv, ArrayInv, lookup # << >>, Misses
    PROVE  /\ OpenWays # {} => OnlyAt(L2SetOf[Cmd.line], AllocWay, Cmd.line)
           /\ Cmd.op = "WRITE" =>
                 \A t \in L2Sets, x \in L2Ways : ~Open(t, x, Cmd.line)
<1>1. TagWays = StaleWays
  BY DEF Misses, HitWays, StaleWays
<1>2. StaleWays # {} => AllocWay \in StaleWays
  <2>1. StaleWays \in SUBSET L2Ways
    BY DEF StaleWays, TagWays
  <2> QED BY <2>1, FirstWay DEF AllocWay
<1>3. Cmd.op = "WRITE" => StaleWays = {}
  BY InvParts, CmdFacts DEF StaleWays, Legal
<1> QED
  BY <1>1, <1>2, <1>3, TagFacts DEF OnlyAt

\* A free MSHR takes the command and reserves way w of its set.
LEMMA TakeStep ==
    ASSUME L2Inv, ArrayInv, Dispatch, NotVictim, FreeMshrs # {},
           NEW w \in OpenWays, NEW k, TakeMshr(k), Reserve(w),
           k.state \notin {"IDLE", "ERROR"}, ~k.bypass, k.cacheable,
           k.line = Cmd.line, k.way = w,
           OnlyAt(L2SetOf[Cmd.line], w, Cmd.line),
           HeldOK(k, [Row[w] EXCEPT !.reserved = TRUE], mem[Cmd.line]),
           Evicting(k) => Row[w].valid /\ k.victim = Row[w].line
    PROVE  ArrayInv'
<1> DEFINE i == First(FreeMshrs)
           s == L2SetOf[Cmd.line]
           o == array[s][w]
           e == [o EXCEPT !.reserved = TRUE]
<1>1. /\ L2TypeOK /\ ServiceInv /\ MshrInv /\ Resident /\ OnePlace
      /\ lookup # << >> /\ mem' = mem
  BY InvParts, ArrayParts DEF Dispatch
<1>2. /\ i \in MshrIds /\ i \notin Holders
  BY <1>1, FreeFacts, HolderFacts
<1>3. s \in L2Sets /\ w \in L2Ways /\ Row[w] = o /\ ~o.reserved
      /\ Cmd.line \in Lines
  BY <1>1, TagFacts, CmdFacts DEF OpenWays
<1>4. o \in L2Entries
  BY <1>1, <1>3, WayType
<1>5. l2mshr' = [l2mshr EXCEPT ![i] = k]
  BY DEF TakeMshr
<1>6. array' = [array EXCEPT ![s][w].reserved = TRUE]
  BY DEF Reserve
<1> HIDE DEF i, s
<1>7. l2mshr'[i] = k /\ \A j \in MshrIds : j # i => l2mshr'[j] = l2mshr[j]
  BY <1>1, <1>2, <1>5 DEF L2TypeOK
<1>8. /\ array'[s][w] = e
      /\ \A t \in L2Sets, x \in L2Ways :
            ~(t = s /\ x = w) => array'[t][x] = array[t][x]
  BY <1>1, <1>3, <1>6 DEF L2TypeOK
<1>9. /\ e.reserved /\ e.valid = o.valid /\ e.line = o.line
      /\ e.dirty = o.dirty /\ e.data = o.data
  <2> HIDE DEF o
  <2> QED BY <1>4 DEF L2Entries
<1>10. WayFits(i, s, w, e)
  BY <1>1, <1>3, <1>9 DEF WayFits, WayOK, Resident
<1>11. LineFree(i, Cmd.line) /\ VictimFree(i, Cmd.line)
  BY CommandFree
<1>12. Evicting(k) => /\ OnlyAt(s, w, k.victim)
                      /\ LineFree(i, k.victim) /\ VictimFree(i, k.victim)
  <2> SUFFICES ASSUME Evicting(k)
               PROVE  /\ OnlyAt(s, w, k.victim)
                      /\ LineFree(i, k.victim) /\ VictimFree(i, k.victim)
    OBVIOUS
  <2>1. k.victim = o.line /\ o.valid /\ o.line \in Lines
    BY <1>3, <1>4 DEF L2Entries
  <2>2. Open(s, w, k.victim)
    BY <1>3, <2>1 DEF Open
  <2> QED BY <1>1, <1>3, <2>1, <2>2 DEF OnlyAt, LineFree, VictimFree, OnePlace
<1>13. MshrFits(i, s, w, k)
  BY <1>11, <1>12 DEF MshrFits, At, s
<1>14. HeldOK(k, e, mem'[k.line])
  BY <1>1, <1>3
<1> HIDE DEF e, o
<1> QED
  BY <1>1, <1>2, <1>3, <1>7, <1>8, <1>9, <1>10, <1>13, <1>14, HolderStep DEF o

\* A free MSHR takes a command that goes around the array.
LEMMA AroundStep ==
    ASSUME L2Inv, ArrayInv, Dispatch, FreeMshrs # {}, NEW k, TakeMshr(k),
           UNCHANGED array, k.state # "ERROR", k.bypass, k.line = Cmd.line,
           k.cacheable => WritesAround
    PROVE  ArrayInv'
<1> DEFINE i == First(FreeMshrs)
<1>1. /\ L2TypeOK /\ ServiceInv /\ MshrInv /\ lookup # << >> /\ mem' = mem
      /\ Cmd.line \in Lines
  BY InvParts, CmdFacts DEF Dispatch
<1>2. /\ i \in MshrIds /\ i \notin Holders
  BY <1>1, FreeFacts, HolderFacts
<1>3. l2mshr' = [l2mshr EXCEPT ![i] = k]
  BY DEF TakeMshr
<1> HIDE DEF i
<1>4. l2mshr'[i] = k /\ \A j \in MshrIds : j # i => l2mshr'[j] = l2mshr[j]
  BY <1>1, <1>2, <1>3 DEF L2TypeOK
<1>5. k.cacheable => /\ \A t \in L2Sets, x \in L2Ways : ~Open(t, x, k.line)
                     /\ VictimFree(i, k.line)
  BY <1>1, MissFacts, CommandFree DEF WritesAround, Misses
<1> QED
  BY <1>1, <1>2, <1>4, <1>5, BypassStep

LEMMA AllocVictim ==
    ASSUME L2TypeOK, ServiceInv, lookup # << >>, OpenWays # {}
    PROVE  LET v == Row[AllocWay]
           IN  /\ AllocMshr.state =
                     IF v.valid /\ v.dirty THEN "NEED_WB" ELSE "NEED_FILL"
               /\ AllocMshr.victim = v.line /\ AllocMshr.vdata = v.data
<1> DEFINE v == Row[AllocWay]
           st == IF v.valid /\ v.dirty THEN "NEED_WB" ELSE "NEED_FILL"
           n == NewMshr(st)
<1>1. AllocWay \in L2Ways /\ v \in L2Entries
  BY RowFacts
<1>2. st \in {"NEED_WB", "NEED_FILL"} /\ st \in L2MshrStates
  BY DEF L2MshrStates
<1>3. AllocMshr = [n EXCEPT !.way = AllocWay, !.victim = v.line,
                            !.vdata = v.data]
  BY DEF AllocMshr
<1> HIDE DEF st, v
<1>4. n \in L2Mshrs /\ n.state = st
  BY <1>2, NewMshrFields
<1> HIDE DEF n
<1>5. /\ AllocMshr.state = st
      /\ AllocMshr.victim = v.line /\ AllocMshr.vdata = v.data
  BY <1>3, <1>4 DEF L2Mshrs
<1> QED
  BY <1>5 DEF st, v

LEMMA ProbingVictim ==
    ASSUME NEW b \in L2Mshrs
    PROVE  /\ Probing(b).way = b.way /\ Probing(b).victim = b.victim
           /\ Probing(b).vdata = b.vdata
  BY DEF Probing, L2Mshrs

\* The way of a miss is the victim of its MSHR.
LEMMA AllocHeld ==
    ASSUME L2Inv, lookup # << >>, OpenWays # {}, NEW k, NEW v,
           Phase(k) = AllocMshr.state,
           k.victim = AllocMshr.victim, k.vdata = AllocMshr.vdata
    PROVE  LET e == [Row[AllocWay] EXCEPT !.reserved = TRUE]
           IN  /\ HeldOK(k, e, v)
               /\ Evicting(k) => /\ Row[AllocWay].valid
                                 /\ k.victim = Row[AllocWay].line
<1> DEFINE o == Row[AllocWay]
           e == [o EXCEPT !.reserved = TRUE]
<1>1. L2TypeOK /\ ServiceInv
  BY InvParts
<1>2. o \in L2Entries
  BY <1>1, RowFacts
<1>3. /\ Phase(k) = IF o.valid /\ o.dirty THEN "NEED_WB" ELSE "NEED_FILL"
      /\ k.victim = o.line /\ k.vdata = o.data
  BY <1>1, AllocVictim
<1> HIDE DEF o
<1>4. /\ e.reserved /\ e.valid = o.valid /\ e.line = o.line
      /\ e.dirty = o.dirty /\ e.data = o.data
  BY <1>2 DEF L2Entries
<1> HIDE DEF e
<1>5. /\ Evicting(k) => o.valid /\ o.dirty
      /\ Filling(k) => ~(o.valid /\ o.dirty)
      /\ ~Replaying(k)
  BY <1>3 DEF Evicting, Filling, Replaying
<1>6. HeldOK(k, e, v) /\ (Evicting(k) => o.valid /\ k.victim = o.line)
  BY <1>3, <1>4, <1>5 DEF HeldOK
<1> QED
  BY <1>6 DEF e, o

LEMMA AllocArray == L2Inv /\ ArrayInv /\ DispatchAlloc => ArrayInv'
<1> SUFFICES ASSUME L2Inv, ArrayInv, DispatchAlloc PROVE ArrayInv'
  OBVIOUS
<1> DEFINE k == AllocMshr
           w == AllocWay
<1>1. /\ L2TypeOK /\ ServiceInv /\ Dispatch /\ lookup # << >>
      /\ Misses /\ NotVictim /\ FreeMshrs # {} /\ OpenWays # {}
      /\ TakeMshr(k) /\ Reserve(w) /\ Cmd.cacheable
  BY InvParts DEF DispatchAlloc, Dispatch, Misses, NotVictim, Unowned, Cached
<1>2. w \in OpenWays /\ OnlyAt(L2SetOf[Cmd.line], w, Cmd.line)
  BY <1>1, RowFacts, MissFacts
<1>3. /\ k.state \in {"NEED_WB", "NEED_FILL"} /\ ~k.bypass /\ k.cacheable
      /\ k.line = Cmd.line /\ k.way = w
  BY <1>1, AllocMshrFields
<1>4. Phase(k) = k.state
  BY <1>3 DEF Phase, ProbeStates
<1>5. /\ HeldOK(k, [Row[w] EXCEPT !.reserved = TRUE], mem[Cmd.line])
      /\ Evicting(k) => Row[w].valid /\ k.victim = Row[w].line
  BY <1>1, <1>4, AllocHeld
<1> HIDE DEF k, w
<1> QED
  BY <1>1, <1>2, <1>3, <1>5, TakeStep

LEMMA AroundArray ==
    ASSUME L2Inv, ArrayInv, DispatchBypass \/ DispatchWriteAround
    PROVE  ArrayInv'
<1> DEFINE k == [NewMshr("NEED_BYPASS") EXCEPT !.bypass = TRUE]
<1>1. /\ L2TypeOK /\ ServiceInv /\ Dispatch /\ lookup # << >>
      /\ FreeMshrs # {} /\ TakeMshr(k) /\ UNCHANGED array
      /\ Cmd.cacheable => WritesAround
  BY InvParts DEF DispatchBypass, DispatchWriteAround, Dispatch
<1>2. /\ k.state = "NEED_BYPASS" /\ k.bypass
      /\ k.line = Cmd.line /\ k.cacheable = Cmd.cacheable
  BY <1>1, BypassFields
<1> HIDE DEF k
<1> QED
  BY <1>1, <1>2, AroundStep

\* A hit that probes first holds the way it has hit.
LEMMA HitHeld ==
    ASSUME L2Inv, ArrayInv, lookup # << >>, NEW w \in TagWays, NEW k,
           Phase(k) = "REPLAY", k.line = Cmd.line, k.data = Row[w].data
    PROVE  /\ HeldOK(k, [Row[w] EXCEPT !.reserved = TRUE], mem[Cmd.line])
           /\ ~Evicting(k)
<1> DEFINE o == Row[w]
           e == [o EXCEPT !.reserved = TRUE]
           s == L2SetOf[Cmd.line]
<1>1. /\ L2TypeOK /\ ServiceInv /\ Resident
      /\ s \in L2Sets /\ w \in L2Ways /\ o = array[s][w]
  BY InvParts, ArrayParts, TagFacts
<1>2. o \in L2Entries /\ o.valid /\ ~o.reserved /\ o.line = Cmd.line
  BY <1>1, WayType DEF TagWays
<1>3. ~o.dirty => o.data = mem[Cmd.line]
  BY <1>1, <1>2 DEF Resident
<1> HIDE DEF o
<1>4. /\ e.reserved /\ e.valid = o.valid /\ e.line = o.line
      /\ e.dirty = o.dirty /\ e.data = o.data
  BY <1>2 DEF L2Entries
<1> HIDE DEF e
<1>5. HeldOK(k, e, mem[Cmd.line]) /\ ~Evicting(k)
  BY <1>2, <1>3, <1>4 DEF HeldOK, Evicting, Filling, o
<1> QED
  BY <1>5 DEF e, o

LEMMA ProbeArray == L2Inv /\ ArrayInv /\ DispatchProbe => ArrayInv'
<1> SUFFICES ASSUME L2Inv, ArrayInv, DispatchProbe PROVE ArrayInv'
  OBVIOUS
<1>1. /\ L2TypeOK /\ ServiceInv /\ DirectoryTypeOK /\ Dispatch
      /\ lookup # << >> /\ ProbeNeeded /\ FreeMshrs # {}
  BY InvParts DEF DispatchProbe, Dispatch
<1>2. CASE /\ NotVictim /\ HitWays # {}
           /\ TakeMshr(Probing([NewMshr("REPLAY") EXCEPT
                                  !.way = First(HitWays),
                                  !.data = Row[First(HitWays)].data]))
           /\ Reserve(First(HitWays))
  <2> DEFINE n == NewMshr("REPLAY")
             w == First(HitWays)
             d == Row[w].data
             b == [n EXCEPT !.way = w, !.data = d]
             k == Probing(b)
  <2>1. /\ w \in TagWays /\ w \in OpenWays /\ w \in L2Ways
        /\ Row[w] \in L2Entries
        /\ OnlyAt(L2SetOf[Cmd.line], w, Cmd.line) /\ Cmd.cacheable
    BY <1>1, <1>2, RowFacts, TagFacts DEF NotVictim, Unowned, Cached
  <2>2. d \in Values
    BY <2>1 DEF L2Entries
  <2>3. /\ n \in L2Mshrs /\ n.state = "REPLAY" /\ n.bypass = FALSE
        /\ n.line = Cmd.line /\ n.cacheable = Cmd.cacheable
    BY <1>1, NewMshrFields DEF L2MshrStates
  <2>4. TakeMshr(k) /\ Reserve(w) /\ NotVictim /\ d = Row[w].data
    BY <1>2
  <2> HIDE DEF n, w, d
  <2>5. /\ b \in L2Mshrs /\ b.state = "REPLAY" /\ b.bypass = FALSE
        /\ b.line = Cmd.line /\ b.cacheable = Cmd.cacheable
        /\ b.way = w /\ b.data = d
    BY <2>1, <2>2, <2>3 DEF L2Mshrs
  <2> HIDE DEF b
  <2>6. /\ k.state = "NEED_PROBE" /\ k.post = "REPLAY" /\ ~k.bypass
        /\ k.cacheable /\ k.line = Cmd.line /\ k.way = w /\ k.data = d
    BY <1>1, <2>1, <2>5, ProbingFields, ProbingVictim
  <2> HIDE DEF k
  <2>7. Phase(k) = "REPLAY"
    BY <2>6 DEF Phase, ProbeStates
  <2>8. /\ HeldOK(k, [Row[w] EXCEPT !.reserved = TRUE], mem[Cmd.line])
        /\ ~Evicting(k)
    BY <1>1, <2>1, <2>4, <2>6, <2>7, HitHeld
  <2> QED BY <1>1, <2>1, <2>4, <2>6, <2>8, TakeStep
<1>3. CASE /\ WritesAround
           /\ TakeMshr(Probing([NewMshr("NEED_BYPASS") EXCEPT
                                  !.bypass = TRUE]))
           /\ UNCHANGED array
  <2> DEFINE b == [NewMshr("NEED_BYPASS") EXCEPT !.bypass = TRUE]
             k == Probing(b)
  <2>1. /\ b \in L2Mshrs /\ b.bypass = TRUE /\ b.line = Cmd.line
    BY <1>1, BypassFields
  <2>2. TakeMshr(k) /\ UNCHANGED array /\ WritesAround
    BY <1>3
  <2> HIDE DEF b
  <2>3. k.state = "NEED_PROBE" /\ k.bypass /\ k.line = Cmd.line
    BY <1>1, <2>1, ProbingFields
  <2> HIDE DEF k
  <2> QED BY <1>1, <2>2, <2>3, AroundStep
<1>4. CASE /\ Misses /\ ~WritesAround /\ OpenWays # {}
           /\ TakeMshr(Probing(AllocMshr))
           /\ Reserve(AllocWay)
  <2> DEFINE b == AllocMshr
             k == Probing(b)
             w == AllocWay
  <2>1. /\ b \in L2Mshrs /\ b.state \in {"NEED_WB", "NEED_FILL"}
        /\ b.bypass = FALSE /\ b.line = Cmd.line
        /\ b.cacheable = Cmd.cacheable /\ b.way = w
    BY <1>1, <1>4, AllocMshrFields
  <2>2. /\ NotVictim /\ Cmd.cacheable /\ TakeMshr(k) /\ Reserve(w)
        /\ w \in OpenWays /\ OnlyAt(L2SetOf[Cmd.line], w, Cmd.line)
    BY <1>1, <1>4, RowFacts, MissFacts
       DEF Misses, NotVictim, Unowned, Cached
  <2>3. /\ k.state = "NEED_PROBE" /\ k.post = b.state /\ ~k.bypass
        /\ k.cacheable /\ k.line = Cmd.line /\ k.way = w
        /\ k.victim = b.victim /\ k.vdata = b.vdata
    BY <1>1, <2>1, <2>2, ProbingFields, ProbingVictim
  <2> HIDE DEF k
  <2>4. Phase(k) = b.state
    BY <2>3 DEF Phase, ProbeStates
  <2>5. /\ HeldOK(k, [Row[w] EXCEPT !.reserved = TRUE], mem[Cmd.line])
        /\ Evicting(k) => Row[w].valid /\ k.victim = Row[w].line
    BY <1>1, <1>4, <2>3, <2>4, AllocHeld
  <2> HIDE DEF b, w
  <2> QED BY <1>1, <2>2, <2>3, <2>5, TakeStep
<1> QED
  BY <1>2, <1>3, <1>4 DEF DispatchProbe

LEMMA HitArray == L2Inv /\ ArrayInv /\ DispatchHit => ArrayInv'
<1> SUFFICES ASSUME L2Inv, ArrayInv, DispatchHit PROVE ArrayInv'
  OBVIOUS
<1> DEFINE w == First(HitWays)
           s == L2SetOf[Cmd.line]
           o == array[s][w]
           e == [o EXCEPT !.data = Cmd.data, !.dirty = TRUE]
<1>1. /\ L2TypeOK /\ ServiceInv /\ Dispatch /\ lookup # << >>
      /\ HitWays # {} /\ UNCHANGED <<l2mshr, mem>>
  BY InvParts DEF DispatchHit, Dispatch
<1>2. /\ w \in TagWays /\ w \in L2Ways /\ s \in L2Sets /\ Row = array[s]
  BY <1>1, RowFacts, TagFacts
<1>3. o.valid /\ ~o.reserved /\ o \in L2Entries
  BY <1>1, <1>2, WayType DEF TagWays
<1>4. UNCHANGED array \/ array' = [array EXCEPT ![s][w] = e]
  BY DEF DispatchHit
<1>5. CASE UNCHANGED array
  <2>1. \A i \in MshrIds : SameHolding(l2mshr[i], l2mshr'[i])
    BY <1>1 DEF SameHolding
  <2> QED BY <1>1, <1>5, <2>1, HoldingKept
<1>6. CASE array' = [array EXCEPT ![s][w] = e]
  <2>1. /\ e.valid /\ e.dirty /\ ~e.reserved /\ e.line = o.line
    <3> HIDE DEF o
    <3> QED BY <1>3 DEF L2Entries
  <2> HIDE DEF e, s, w
  <2>2. /\ array'[s][w] = e
        /\ \A t \in L2Sets, x \in L2Ways :
              ~(t = s /\ x = w) => array'[t][x] = array[t][x]
    BY <1>1, <1>2, <1>6 DEF L2TypeOK
  <2> QED BY <1>1, <1>2, <1>3, <2>1, <2>2, HitStep
<1> QED
  BY <1>4, <1>5, <1>6

\* No MSHR, way or line of the memory changes.
LEMMA ArrayStays ==
    ASSUME ArrayInv, UNCHANGED <<l2mshr, array, mem>>
    PROVE  ArrayInv'
<1>1. \A i \in MshrIds : SameHolding(l2mshr[i], l2mshr'[i])
  BY DEF SameHolding
<1> QED
  BY <1>1, HoldingKept

LEMMA MergeArray == L2Inv /\ ArrayInv /\ DispatchMerge => ArrayInv'
<1> SUFFICES ASSUME L2Inv, ArrayInv, DispatchMerge PROVE ArrayInv'
  OBVIOUS
<1> DEFINE i == First(MatchingMshrs)
           m == l2mshr[i]
           pf == m.private_fill \/ PrivateFill(Cmd)
           ai == IF PrivateProbeNeeded THEN m.add_i \cup ISharer ELSE m.add_i
           ad == IF PrivateProbeNeeded THEN m.add_d \cup DSharer ELSE m.add_d
           wt == Append(m.waiters, Cmd)
           k == [m EXCEPT !.waiters = wt, !.private_fill = pf,
                          !.add_i = ai, !.add_d = ad]
<1>1. L2TypeOK /\ UNCHANGED <<array, mem>>
  BY InvParts DEF DispatchMerge, Dispatch
<1>2. i \in MshrIds
  <2>1. MatchingMshrs \in SUBSET MshrIds /\ MatchingMshrs # {}
    BY DEF DispatchMerge, MatchingMshrs, Busy
  <2> QED BY <2>1, FirstMshr
<1>3. m \in L2Mshrs
  BY <1>1, <1>2, MshrRegisters
<1>4. l2mshr' = [l2mshr EXCEPT ![i] = k]
  BY DEF DispatchMerge
<1> HIDE DEF i, pf, ai, ad, wt
<1>5. SameHolding(m, k)
  <2> HIDE DEF m
  <2>1. /\ k.state = m.state /\ k.post = m.post /\ k.bypass = m.bypass
        /\ k.cacheable = m.cacheable /\ k.line = m.line /\ k.way = m.way
        /\ k.victim = m.victim /\ k.vdata = m.vdata /\ k.data = m.data
    BY <1>3 DEF L2Mshrs
  <2> HIDE DEF k
  <2> QED BY <2>1 DEF SameHolding, Evicting, Filling, Replaying, Phase
<1> HIDE DEF k
<1>6. \A j \in MshrIds : SameHolding(l2mshr[j], l2mshr'[j])
  <2>1. \A j \in MshrIds : j # i => l2mshr'[j] = l2mshr[j]
    BY <1>1, <1>4 DEF L2TypeOK
  <2>2. l2mshr'[i] = k
    BY <1>1, <1>2, <1>4 DEF L2TypeOK
  <2> QED BY <1>5, <2>1, <2>2 DEF SameHolding, m
<1> QED
  BY <1>1, <1>6, HoldingKept

\* MSHR i moves on from its probe or to the bus.
LEMMA StateArray ==
    ASSUME L2TypeOK, ArrayInv, NEW i \in MshrIds, NEW st \in L2MshrStates,
           l2mshr' = [l2mshr EXCEPT ![i].state = st],
           UNCHANGED <<array, mem>>,
           l2mshr[i].state \notin {"IDLE", "ERROR"},
           st \notin {"IDLE", "ERROR"},
           \/ /\ st \notin ProbeStates /\ Phase(l2mshr[i]) = st
           \/ /\ st = "PROBE_INFLIGHT" /\ l2mshr[i].state = "NEED_PROBE"
           \/ \E a \in BusActions :
                 l2mshr[i].state = NeedState(a) /\ st = InflightState(a)
    PROVE  ArrayInv'
<1> DEFINE m == l2mshr[i]
           k == [m EXCEPT !.state = st]
<1>1. m \in L2Mshrs
  BY MshrRegisters
<1>2. l2mshr' = [l2mshr EXCEPT ![i] = k]
  OBVIOUS
<1>3. SameHolding(m, k)
  <2> HIDE DEF m
  <2>1. /\ k.state = st /\ k.post = m.post /\ k.bypass = m.bypass
        /\ k.cacheable = m.cacheable /\ k.line = m.line /\ k.way = m.way
        /\ k.victim = m.victim /\ k.vdata = m.vdata /\ k.data = m.data
    BY <1>1 DEF L2Mshrs
  <2> HIDE DEF k
  <2>2. CASE st \notin ProbeStates /\ Phase(m) = st
    BY <2>1, <2>2 DEF SameHolding, Evicting, Filling, Replaying, Phase, m
  <2>3. CASE st = "PROBE_INFLIGHT" /\ m.state = "NEED_PROBE"
    BY <2>1, <2>3
       DEF SameHolding, Evicting, Filling, Replaying, Phase, ProbeStates
  <2>4. ASSUME NEW a \in BusActions,
               m.state = NeedState(a), st = InflightState(a)
        PROVE  SameHolding(m, k)
    <3>1. \/ m.state = "NEED_WB" /\ st = "WB_INFLIGHT"
          \/ m.state = "NEED_FILL" /\ st = "FILL_INFLIGHT"
          \/ m.state = "NEED_BYPASS" /\ st = "BYPASS_INFLIGHT"
      BY <2>4 DEF BusActions, NeedState, InflightState
    <3> QED
      BY <2>1, <3>1
         DEF SameHolding, Evicting, Filling, Replaying, Phase, ProbeStates
  <2> QED BY <2>2, <2>3, <2>4 DEF m
<1> HIDE DEF k
<1>4. \A j \in MshrIds : SameHolding(l2mshr[j], l2mshr'[j])
  <2>1. \A j \in MshrIds : j # i => l2mshr'[j] = l2mshr[j]
    BY <1>2 DEF L2TypeOK
  <2>2. l2mshr'[i] = k
    BY <1>2 DEF L2TypeOK
  <2> QED BY <1>3, <2>1, <2>2 DEF SameHolding
<1> QED
  BY <1>4, HoldingKept

LEMMA ProbeStartArray == L2Inv /\ ArrayInv /\ ProbeStart => ArrayInv'
<1> SUFFICES ASSUME L2Inv, ArrayInv, ProbeStart PROVE ArrayInv'
  OBVIOUS
<1> DEFINE i == First(NeedProbe)
<1>1. /\ L2TypeOK /\ UNCHANGED <<array, mem>>
      /\ l2mshr' = [l2mshr EXCEPT ![i].state = "PROBE_INFLIGHT"]
  BY InvParts DEF ProbeStart
<1>2. i \in MshrIds /\ l2mshr[i].state = "NEED_PROBE"
  <2>1. NeedProbe \in SUBSET MshrIds /\ NeedProbe # {}
    BY DEF ProbeStart, NeedProbe
  <2>2. i \in NeedProbe
    BY <2>1, FirstMshr
  <2> QED BY <2>2 DEF NeedProbe
<1>3. "PROBE_INFLIGHT" \in L2MshrStates
  BY DEF L2MshrStates
<1> HIDE DEF i
<1> QED
  BY <1>1, <1>2, <1>3, StateArray

LEMMA ProbeCompleteArray == L2Inv /\ ArrayInv /\ ProbeComplete => ArrayInv'
<1> SUFFICES ASSUME L2Inv, ArrayInv, ProbeComplete PROVE ArrayInv'
  OBVIOUS
<1> DEFINE i == active_probe
           m == l2mshr[i]
<1>1. /\ L2TypeOK /\ MshrInv /\ ProbeActive /\ UNCHANGED <<array, mem>>
      /\ l2mshr' = [l2mshr EXCEPT ![i].state = m.post]
      /\ tracker.done
  BY InvParts DEF ProbeComplete, TrackerDone, L2Inv
<1>2. i \in MshrIds /\ m.state = "PROBE_INFLIGHT" /\ MshrShape(m)
  BY <1>1 DEF ProbeActive, L2TypeOK, MshrInv
<1>3. m.post \in {"NEED_WB", "NEED_FILL", "NEED_BYPASS", "REPLAY"}
      /\ m.post \in L2MshrStates
  BY <1>2 DEF MshrShape, ProbeStates, L2MshrStates
<1>4. m.post \notin ProbeStates /\ Phase(m) = m.post
  BY <1>2, <1>3 DEF ProbeStates, Phase
<1> QED
  BY <1>1, <1>2, <1>3, <1>4, StateArray

LEMMA BusRequestArray ==
    ASSUME L2Inv, ArrayInv, NEW i \in MshrIds, BusRequest(i)
    PROVE  ArrayInv'
<1>1. L2TypeOK /\ UNCHANGED <<array, mem>>
  BY InvParts DEF BusRequest
<1>2. PICK a \in BusActions :
         /\ l2mshr[i].state = NeedState(a)
         /\ l2mshr' = [l2mshr EXCEPT ![i].state = InflightState(a)]
  BY DEF BusRequest
<1>3. /\ InflightState(a) \in L2MshrStates
      /\ InflightState(a) \notin {"IDLE", "ERROR"}
      /\ NeedState(a) \notin {"IDLE", "ERROR"}
  BY DEF InflightState, NeedState, L2MshrStates
<1> QED
  BY <1>1, <1>2, <1>3, StateArray
-----------------------------------------------------------------------------
(* The bus and the replays.                                                  *)

\* An MSHR that may allocate is cacheable, and a line is a device's or not.
LEMMA WorkedLine ==
    ASSUME L2Inv, NEW i \in Busy
    PROVE  /\ i \in MshrIds /\ l2mshr[i] \in L2Mshrs /\ l2mshr[i].line \in Lines
           /\ MshrShape(l2mshr[i]) /\ l2mshr[i].state # "IDLE"
           /\ ~l2mshr[i].bypass => i \in Holders /\ l2mshr[i].cacheable
           /\ l2mshr[i].cacheable <=> l2mshr[i].line \notin DeviceLines
<1> DEFINE m == l2mshr[i]
           c == Head(m.waiters)
<1>1. L2TypeOK /\ ServiceInv /\ MshrInv
  BY InvParts
<1>2. /\ i \in MshrIds /\ m.state # "IDLE" /\ m \in L2Mshrs
      /\ m.line \in Lines /\ MshrShape(m)
  BY <1>1, HolderFacts, MshrRegisters DEF MshrInv
<1>3. m.waiters # << >> /\ WaitersOK(m)
  BY <1>2 DEF MshrShape
<1>4. c \in Commands /\ c = m.waiters[1] /\ 1 \in DOMAIN m.waiters
  <2> HIDE DEF m
  <2> QED BY <1>2, <1>3, FirstWaiter
<1>5. /\ c.line = m.line /\ c.op # "FENCE"
      /\ c.cacheable <=> m.cacheable
  BY <1>3, <1>4 DEF WaitersOK
<1>6. c \in Contents(Spots, Pending)
  <2>1. Pending[MshrAt(i)] = m.waiters /\ MshrAt(i) \in Spots
    BY <1>2, PendingAt, SpotsApart
  <2> HIDE DEF m, c
  <2> QED BY <1>4, <2>1 DEF Contents
<1>7. Legal(c)
  BY <1>1, <1>6 DEF ServiceInv
<1>8. m.cacheable <=> m.line \notin DeviceLines
  BY <1>5, <1>7 DEF Legal
<1>9. ~m.bypass => i \in Holders /\ m.cacheable
  BY <1>2, HolderFacts DEF MshrShape
<1> QED
  BY <1>2, <1>8, <1>9

LEMMA WritebackArray ==
    ASSUME MemoryWorks, L2Inv, ArrayInv, BusResponse, Head(bus).action = "WB"
    PROVE  ArrayInv'
<1> DEFINE i == Head(bus).mshr
           m == l2mshr[i]
           s == L2SetOf[m.line]
           w == m.way
           o == array[s][w]
           k == [m EXCEPT !.state = "NEED_FILL"]
           e == [o EXCEPT !.valid = FALSE, !.dirty = FALSE]
<1>1. /\ L2TypeOK /\ MshrInv /\ BusInv /\ bus # << >>
      /\ Held /\ Resident /\ OnePlace /\ VictimsApart
  BY InvParts, ArrayParts DEF BusResponse
<1>2. i \in MshrIds /\ m \in L2Mshrs /\ m.state = "WB_INFLIGHT"
      /\ MshrShape(m)
  BY <1>1, BusHead
<1>3. /\ i \in Busy /\ i \in Holders /\ m.cacheable /\ ~m.bypass
      /\ m.line \in Lines /\ s \in L2Sets /\ w \in L2Ways
      /\ m.victim \in Lines
  BY <1>1, <1>2, HolderFacts, WorkedLine, MshrRegisters DEF MshrShape
<1>4. Evicting(m)
  BY <1>2 DEF Evicting, Phase, ProbeStates
<1>5. /\ o.reserved /\ o.valid /\ o.line = m.victim /\ o \in L2Entries
  BY <1>1, <1>3, <1>4, WayType DEF Held, HeldOK
<1>6. m.victim \notin BadLines
  <2>1. WayOK(s, o)
    BY <1>1, <1>3 DEF Resident
  <2> HIDE DEF o, m
  <2> QED BY <1>5, <2>1 DEF MemoryWorks, WayOK
<1>7. /\ l2mshr' = [l2mshr EXCEPT ![i] = k]
      /\ array' = [array EXCEPT ![s][w] = e]
      /\ mem' = [mem EXCEPT ![m.victim] = m.vdata]
  BY <1>6 DEF BusResponse, MemAccess, BusLine
<1>8. /\ k.state = "NEED_FILL" /\ ~k.bypass /\ k.cacheable
      /\ k.line = m.line /\ k.way = w
  <2> HIDE DEF m
  <2> QED BY <1>2, <1>3 DEF L2Mshrs
<1>9. ~e.valid /\ e.reserved
  <2> HIDE DEF o
  <2> QED BY <1>5 DEF L2Entries
<1> HIDE DEF k, e, i
<1>10. /\ ~Evicting(k) /\ ~Replaying(k)
  BY <1>8 DEF Evicting, Replaying, Phase, ProbeStates
<1>11. HeldOK(k, e, mem'[k.line])
  BY <1>9, <1>10 DEF HeldOK
<1>12. \A l \in Lines : mem'[l] = mem[l] \/ MemOnly(i, l)
  <2>1. \A j \in Holders : j # i => l2mshr[j].line # m.victim
    BY <1>1, <1>3, <1>4, WorkedLine, HolderFacts DEF VictimsApart
  <2>2. \A t \in L2Sets, x \in L2Ways : ~Open(t, x, m.victim)
    BY <1>1, <1>3, <1>4 DEF OnePlace
  <2>3. MemOnly(i, m.victim)
    BY <2>1, <2>2 DEF MemOnly
  <2> QED BY <1>1, <1>7, <2>3 DEF L2TypeOK
<1>13. MshrFits(i, s, w, k)
  <2>1. OnlyAt(s, w, k.line)
    BY <1>1, <1>3, <1>8 DEF OnlyAt, OnePlace
  <2>2. VictimFree(i, k.line)
    BY <1>1, <1>3, <1>8 DEF VictimFree, VictimsApart
  <2> QED BY <1>8, <1>10, <2>1, <2>2 DEF MshrFits, At
<1>14. WayFits(i, s, w, e)
  BY <1>9 DEF WayFits, WayOK
<1>15. l2mshr'[i] = k /\ \A j \in MshrIds : j # i => l2mshr'[j] = l2mshr[j]
  BY <1>1, <1>2, <1>7 DEF L2TypeOK
<1>16. /\ array'[s][w] = e
       /\ \A t \in L2Sets, x \in L2Ways :
             ~(t = s /\ x = w) => array'[t][x] = array[t][x]
  <2> HIDE DEF s, w
  <2> QED BY <1>1, <1>3, <1>7 DEF L2TypeOK
<1>17. At(l2mshr[i], s, w)
  BY DEF At
<1> HIDE DEF s, w
<1> QED
  BY <1>1, <1>2, <1>3, <1>8, <1>9, <1>11, <1>12, <1>13, <1>14, <1>15, <1>16,
     <1>17, HolderStep

LEMMA FillArray ==
    ASSUME MemoryWorks, L2Inv, ArrayInv, BusResponse, Head(bus).action = "FILL"
    PROVE  ArrayInv'
<1> DEFINE i == Head(bus).mshr
           m == l2mshr[i]
           s == L2SetOf[m.line]
           w == m.way
           o == array[s][w]
           v == mem[m.line]
           g == m.generation
           k == [m EXCEPT !.state = "REPLAY", !.data = v]
           e == [o EXCEPT !.valid = TRUE, !.dirty = FALSE, !.line = m.line,
                          !.data = v, !.generation = g]
<1>1. /\ L2TypeOK /\ MshrInv /\ BusInv /\ bus # << >>
      /\ Held /\ Resident /\ OnePlace /\ VictimsApart
  BY InvParts, ArrayParts DEF BusResponse
<1>2. i \in MshrIds /\ m \in L2Mshrs /\ m.state = "FILL_INFLIGHT"
      /\ MshrShape(m)
  BY <1>1, BusHead
<1>3. /\ i \in Busy /\ i \in Holders /\ m.cacheable /\ ~m.bypass
      /\ m.line \in Lines /\ s \in L2Sets /\ w \in L2Ways
      /\ m.line \notin DeviceLines
  BY <1>1, <1>2, HolderFacts, WorkedLine, MshrRegisters DEF MshrShape
<1>4. o.reserved /\ o \in L2Entries
  BY <1>1, <1>3, WayType DEF Held, HeldOK
<1>5. m.line \notin BadLines
  BY <1>3 DEF MemoryWorks
<1>6. /\ l2mshr' = [l2mshr EXCEPT ![i] = k]
      /\ array' = [array EXCEPT ![s][w] = e]
      /\ mem' = mem
  BY <1>5 DEF BusResponse, MemAccess, BusLine
<1> HIDE DEF v, g
<1>7. /\ k.state = "REPLAY" /\ ~k.bypass /\ k.cacheable
      /\ k.line = m.line /\ k.way = w /\ k.data = v
  <2> HIDE DEF m
  <2> QED BY <1>2, <1>3 DEF L2Mshrs
<1>8. /\ e.valid /\ e.reserved /\ ~e.dirty /\ e.line = m.line /\ e.data = v
  <2> HIDE DEF o, m
  <2> QED BY <1>4 DEF L2Entries
<1> HIDE DEF k, e, i
<1>9. /\ ~Evicting(k) /\ ~Filling(k)
  BY <1>7 DEF Evicting, Filling, Phase, ProbeStates
<1>10. HeldOK(k, e, mem'[k.line])
  BY <1>6, <1>7, <1>8, <1>9 DEF HeldOK, v
<1>11. MshrFits(i, s, w, k)
  <2>1. OnlyAt(s, w, k.line)
    BY <1>1, <1>3, <1>7 DEF OnlyAt, OnePlace
  <2>2. VictimFree(i, k.line)
    BY <1>1, <1>3, <1>7 DEF VictimFree, VictimsApart
  <2> QED BY <1>7, <1>9, <2>1, <2>2 DEF MshrFits, At
<1>12. WayFits(i, s, w, e)
  BY <1>3, <1>8 DEF WayFits, WayOK
<1>13. l2mshr'[i] = k /\ \A j \in MshrIds : j # i => l2mshr'[j] = l2mshr[j]
  BY <1>1, <1>2, <1>6 DEF L2TypeOK
<1>14. /\ array'[s][w] = e
       /\ \A t \in L2Sets, x \in L2Ways :
             ~(t = s /\ x = w) => array'[t][x] = array[t][x]
  <2> HIDE DEF s, w
  <2> QED BY <1>1, <1>3, <1>6 DEF L2TypeOK
<1>15. At(l2mshr[i], s, w)
  BY DEF At
<1> HIDE DEF s, w
<1> QED
  BY <1>1, <1>2, <1>3, <1>6, <1>7, <1>8, <1>10, <1>11, <1>12, <1>13, <1>14,
     <1>15, HolderStep

LEMMA BypassAnswered ==
    ASSUME MemoryWorks, L2Inv, ArrayInv, BusResponse,
           Head(bus).action = "BYPASS"
    PROVE  ArrayInv'
<1> DEFINE i == Head(bus).mshr
           m == l2mshr[i]
           v == mem[m.line]
           k == [m EXCEPT !.state = "REPLAY", !.data = v]
           f == [m EXCEPT !.state = "ERROR"]
<1>1. /\ L2TypeOK /\ MshrInv /\ BusInv /\ bus # << >>
      /\ Held /\ Resident /\ OnePlace /\ VictimsApart
  BY InvParts, ArrayParts DEF BusResponse
<1>2. i \in MshrIds /\ m \in L2Mshrs /\ m.state = "BYPASS_INFLIGHT"
      /\ MshrShape(m)
  BY <1>1, BusHead
<1>3. /\ i \in Busy /\ m.bypass /\ i \notin Holders /\ m.line \in Lines
      /\ m.cacheable <=> m.line \notin DeviceLines
  BY <1>1, <1>2, HolderFacts, WorkedLine DEF MshrShape
<1>4. m.cacheable => m.line \notin BadLines
  BY <1>3 DEF MemoryWorks
<1>5. /\ \/ l2mshr' = [l2mshr EXCEPT ![i] = k]
         \/ m.line \in BadLines /\ l2mshr' = [l2mshr EXCEPT ![i] = f]
      /\ UNCHANGED array
      /\ \/ mem' = mem
         \/ mem' = [mem EXCEPT ![m.line] = Head(m.waiters).data]
  BY DEF BusResponse, MemAccess, BusLine
<1> HIDE DEF v
<1>6. /\ k.state = "REPLAY" /\ k.bypass /\ k.line = m.line
      /\ k.cacheable <=> m.cacheable
      /\ f.state = "ERROR" /\ f.bypass /\ f.line = m.line
      /\ f.cacheable <=> m.cacheable
  <2> HIDE DEF m
  <2> QED BY <1>2, <1>3 DEF L2Mshrs
<1> HIDE DEF k, f, i
<1>7. PICK n : /\ l2mshr' = [l2mshr EXCEPT ![i] = n]
               /\ n.bypass /\ n.line = m.line
               /\ n.cacheable => m.cacheable /\ n.state # "ERROR"
  BY <1>4, <1>5, <1>6
<1>8. l2mshr'[i] = n /\ \A j \in MshrIds : j # i => l2mshr'[j] = l2mshr[j]
  BY <1>1, <1>2, <1>7 DEF L2TypeOK
<1>9. n.cacheable => /\ \A t \in L2Sets, x \in L2Ways : ~Open(t, x, n.line)
                     /\ VictimFree(i, n.line)
  BY <1>1, <1>3, <1>7 DEF OnePlace, VictimFree, VictimsApart
<1>10. MemOnly(i, m.line)
  <2>1. \A j \in Holders : /\ l2mshr[j].cacheable /\ j \in Busy
                           /\ l2mshr[j].line \notin DeviceLines
    BY WorkedLine, HolderFacts
  <2>2. \A j \in Holders : j # i => l2mshr[j].line # m.line
    BY <1>1, <1>3, <2>1 DEF MshrInv
  <2>3. \A t \in L2Sets, x \in L2Ways : ~Open(t, x, m.line)
    BY <1>1, <1>3 DEF OnePlace, Open, Resident, WayOK
  <2> QED BY <2>2, <2>3 DEF MemOnly
<1>11. \A l \in Lines : mem'[l] = mem[l] \/ MemOnly(i, l)
  BY <1>1, <1>3, <1>5, <1>10 DEF L2TypeOK
<1> QED
  BY <1>1, <1>2, <1>3, <1>5, <1>7, <1>8, <1>9, <1>11, BypassStep

LEMMA BusResponseArray ==
    ASSUME MemoryWorks, L2Inv, ArrayInv, BusResponse
    PROVE  ArrayInv'
<1>1. L2TypeOK /\ MshrInv /\ BusInv /\ bus # << >>
  BY InvParts DEF BusResponse
<1>2. Head(bus).action \in {"WB", "FILL", "BYPASS"}
  BY <1>1, BusHead DEF BusActions
<1> QED
  BY <1>2, WritebackArray, FillArray, BypassAnswered

\* What is left of an MSHR with a further waiter.
LEMMA ReplayedHolding ==
    ASSUME NEW m \in L2Mshrs
    PROVE  LET k == [m EXCEPT !.waiters = Tail(@), !.data = ReplayData(m)]
           IN  /\ k.state = m.state /\ k.post = m.post /\ k.bypass = m.bypass
               /\ k.cacheable = m.cacheable /\ k.line = m.line
               /\ k.way = m.way /\ k.data = ReplayData(m)
<1> DEFINE t == Tail(m.waiters)
           v == ReplayData(m)
           k == [m EXCEPT !.waiters = t, !.data = v]
<1> HIDE DEF t, v
<1>1. /\ k.state = m.state /\ k.post = m.post /\ k.bypass = m.bypass
      /\ k.cacheable = m.cacheable /\ k.line = m.line
      /\ k.way = m.way /\ k.data = v
  BY DEF L2Mshrs
<1> QED
  BY <1>1 DEF t, v

LEMMA ReplayAround ==
    ASSUME L2Inv, ArrayInv, NEW i \in MshrIds, Replay(i), l2mshr[i].bypass
    PROVE  ArrayInv'
<1> DEFINE m == l2mshr[i]
           n == [m EXCEPT !.waiters = Tail(@), !.data = ReplayData(m)]
           k == IF Len(m.waiters) = 1 THEN FreeL2Mshr ELSE n
<1>1. /\ L2TypeOK /\ MshrInv /\ OnePlace /\ VictimsApart /\ NoFailure
      /\ UNCHANGED <<array, mem>>
      /\ l2mshr' = [l2mshr EXCEPT ![i] = k] /\ ReplayReady(m)
  BY InvParts, ArrayParts DEF Replay
<1>2. m \in L2Mshrs /\ i \in Busy /\ i \notin Holders /\ m.line \in Lines
  BY <1>1, MshrRegisters, HolderFacts DEF ReplayReady
<1>3. /\ n.state = m.state /\ n.bypass /\ n.cacheable = m.cacheable
      /\ n.line = m.line
  <2> HIDE DEF m
  <2> QED BY <1>2, ReplayedHolding DEF m
<1>4. k.state = "IDLE" \/ k = n
  BY DEF FreeL2Mshr
<1> HIDE DEF k, n
<1>5. l2mshr'[i] = k /\ \A j \in MshrIds : j # i => l2mshr'[j] = l2mshr[j]
  BY <1>1 DEF L2TypeOK
<1>6. m.cacheable => /\ m.state # "ERROR"
                     /\ \A t \in L2Sets, x \in L2Ways : ~Open(t, x, m.line)
                     /\ VictimFree(i, m.line)
  BY <1>1, <1>2 DEF NoFailure, OnePlace, VictimFree, VictimsApart
<1> HIDE DEF m
<1> QED
  BY <1>1, <1>2, <1>3, <1>4, <1>5, <1>6, BypassStep

LEMMA ReplayHeld ==
    ASSUME L2Inv, ArrayInv, NEW i \in MshrIds, Replay(i), ~l2mshr[i].bypass
    PROVE  ArrayInv'
<1> DEFINE m == l2mshr[i]
           s == L2SetOf[m.line]
           w == m.way
           o == array[s][w]
           final == Len(m.waiters) = 1
           wr == ReplayWrites(m)
           n == [m EXCEPT !.waiters = Tail(@), !.data = ReplayData(m)]
           k == IF final THEN FreeL2Mshr ELSE n
           v == IF wr THEN ReplayData(m) ELSE o.data
           d == o.dirty \/ wr
           r == o.reserved /\ ~final
           e == [o EXCEPT !.data = v, !.dirty = d, !.reserved = r]
<1>1. /\ L2TypeOK /\ MshrInv
      /\ Held /\ Resident /\ OnePlace /\ VictimsApart /\ NoFailure
      /\ mem' = mem /\ ReplayReady(m)
  BY InvParts, ArrayParts DEF Replay
<1>2. /\ l2mshr' = [l2mshr EXCEPT ![i] = k]
      /\ array' = [array EXCEPT ![s][w] = e]
  BY DEF Replay
<1>3. /\ m \in L2Mshrs /\ i \in Busy /\ i \in Holders /\ m.line \in Lines
      /\ s \in L2Sets /\ w \in L2Ways /\ m.cacheable
      /\ m.line \notin DeviceLines
  <2>1. m \in L2Mshrs /\ i \in Busy /\ m.line \in Lines
        /\ s \in L2Sets /\ w \in L2Ways
    BY <1>1, MshrRegisters, HolderFacts DEF ReplayReady
  <2> HIDE DEF m
  <2> QED BY <2>1, WorkedLine DEF m
<1>4. m.state = "REPLAY" /\ Replaying(m)
  BY <1>1, <1>3
     DEF NoFailure, ReplayReady, Replaying, Phase, ProbeStates
<1>5. HeldOK(m, o, mem[m.line])
  BY <1>1, <1>3 DEF Held
<1>6. /\ o \in L2Entries /\ o.reserved /\ o.valid /\ o.line = m.line
      /\ o.data = m.data
      /\ ~o.dirty => o.data = mem[m.line]
  BY <1>1, <1>3, <1>4, <1>5, WayType DEF HeldOK
<1>7. /\ n.state = m.state /\ n.bypass = m.bypass /\ n.cacheable = m.cacheable
      /\ n.line = m.line /\ n.way = w /\ n.data = ReplayData(m)
  <2> HIDE DEF m
  <2> QED BY <1>3, ReplayedHolding
<1>8. /\ final => k.state = "IDLE"
      /\ ~final => k = n
  BY DEF FreeL2Mshr
<1>9. v = IF wr THEN ReplayData(m) ELSE m.data
  BY <1>6
<1>10. ~wr => ReplayData(m) = m.data
  BY DEF ReplayData
<1> HIDE DEF k, n, v, wr, final
<1>11. /\ e.valid /\ e.line = m.line /\ e.data = v
       /\ e.dirty <=> o.dirty \/ wr
       /\ e.reserved <=> ~final
  <2>1. /\ e.valid = o.valid /\ e.line = o.line /\ e.data = v
        /\ e.dirty = d /\ e.reserved = r
    <3> HIDE DEF o, d, r
    <3> QED BY <1>6 DEF L2Entries
  <2> QED BY <1>6, <2>1
<1> HIDE DEF e
<1>12. ~final => HeldOK(k, e, mem[m.line])
  <2> SUFFICES ASSUME ~final PROVE HeldOK(n, e, mem[m.line])
    BY <1>8
  <2>1. n.state = "REPLAY"
    BY <1>4, <1>7
  <2>2. ~Evicting(n) /\ ~Filling(n)
    BY <2>1 DEF Evicting, Filling, Phase, ProbeStates
  <2> QED BY <1>6, <1>7, <1>9, <1>10, <1>11, <2>2 DEF HeldOK
<1>13. /\ OnlyAt(s, w, m.line) /\ VictimFree(i, m.line) /\ LineFree(i, m.line)
  <2>1. OnlyAt(s, w, m.line)
    BY <1>1, <1>3 DEF OnlyAt, OnePlace
  <2>2. VictimFree(i, m.line)
    BY <1>1, <1>3 DEF VictimFree, VictimsApart
  <2>3. LineFree(i, m.line)
    BY <1>1, <1>3 DEF LineFree, MshrInv
  <2> QED BY <2>1, <2>2, <2>3
<1>14. ~final => MshrFits(i, s, w, k)
  <2> SUFFICES ASSUME ~final PROVE MshrFits(i, s, w, n)
    BY <1>8
  <2>1. n.state = "REPLAY" /\ ~Evicting(n)
    BY <1>4, <1>7 DEF Evicting, Phase, ProbeStates
  <2> QED BY <1>3, <1>7, <1>13, <2>1 DEF MshrFits, At
<1>15. WayFits(i, s, w, e)
  BY <1>3, <1>11, <1>13 DEF WayFits, WayOK
<1>16. ~e.dirty => e.data = mem[m.line]
  BY <1>6, <1>9, <1>11
<1>17. /\ k.state # "IDLE" => ~final /\ k.line = m.line
       /\ ~final => k.state # "IDLE"
  BY <1>4, <1>7, <1>8
<1>18. l2mshr'[i] = k /\ \A j \in MshrIds : j # i => l2mshr'[j] = l2mshr[j]
  BY <1>1, <1>2 DEF L2TypeOK
<1>19. /\ array'[s][w] = e
       /\ \A t \in L2Sets, x \in L2Ways :
             ~(t = s /\ x = w) => array'[t][x] = array[t][x]
  <2> HIDE DEF s, w
  <2> QED BY <1>1, <1>2, <1>3 DEF L2TypeOK
<1>20. At(l2mshr[i], s, w)
  BY DEF At
<1> HIDE DEF s, w, o
<1> QED
  BY <1>1, <1>3, <1>11, <1>12, <1>14, <1>15, <1>16, <1>17, <1>18, <1>19,
     <1>20, HolderStep

LEMMA ReplayArray ==
    ASSUME L2Inv, ArrayInv, NEW i \in MshrIds, Replay(i)
    PROVE  ArrayInv'
  BY ReplayAround, ReplayHeld
-----------------------------------------------------------------------------
(* The system.                                                               *)

LEMMA InitArray == Init => ArrayInv
<1> SUFFICES ASSUME Init PROVE ArrayInv
  OBVIOUS
<1>1. /\ \A i \in MshrIds : l2mshr[i] = FreeL2Mshr
      /\ \A s \in L2Sets : \A w \in L2Ways :
            ~array[s][w].valid /\ ~array[s][w].reserved
  BY DEF Init, L2Init
<1>2. Busy = {} /\ Holders = {}
  BY <1>1 DEF Busy, Holders, FreeL2Mshr
<1>3. Held /\ Reservations /\ VictimsApart /\ NoFailure
  BY <1>1, <1>2 DEF Held, Reservations, VictimsApart, NoFailure
<1>4. Resident /\ OnePlace
  BY <1>1, <1>2 DEF Resident, WayOK, OnePlace, Open
<1> QED
  BY <1>3, <1>4 DEF ArrayInv

\* The queues, the requesters and the private caches.
LEMMA OthersArray ==
    ASSUME ArrayInv,
           \/ Capture \/ HitEnqueue \/ Respond
           \/ DispatchImmediate \/ DispatchVictimHit
           \/ \E n \in 1 .. COMMAND_ENTRIES : WriteBeat(n)
           \/ \E h \in Harts : \/ Send(h) \/ ProbeStep(h) \/ InvalidateL1D(h)
                               \/ L1DStep(h) \/ L1IStep(h)
           \/ UNCHANGED vars
    PROVE  ArrayInv'
<1>1. CASE Capture \/ HitEnqueue \/ Respond
  BY <1>1, ArrayStays DEF Capture, HitEnqueue, Respond
<1>2. CASE DispatchImmediate \/ DispatchVictimHit
  BY <1>2, ArrayStays DEF DispatchImmediate, DispatchVictimHit, Dispatch
<1>3. ASSUME NEW n \in 1 .. COMMAND_ENTRIES, WriteBeat(n) PROVE ArrayInv'
  BY <1>3, ArrayStays DEF WriteBeat
<1>4. ASSUME NEW h \in Harts, Send(h) PROVE ArrayInv'
  <2>1. \A c : Push(c) => UNCHANGED <<l2mshr, array, mem>>
    BY DEF Push
  <2>2. UNCHANGED <<l2mshr, array, mem>>
    BY <1>4, <2>1 DEF Send, SendStore, SendFill, SendMarked, SendFetch,
       SendPtw, SendDevice, SendMalformed
  <2> QED BY <2>2, ArrayStays
<1>5. ASSUME NEW h \in Harts,
             ProbeStep(h) \/ InvalidateL1D(h) \/ L1DStep(h) \/ L1IStep(h)
      PROVE  ArrayInv'
  <2>1. UNCHANGED l2Vars
    BY <1>5 DEF ProbeStep, InvalidateL1D, L1DStep, L1IStep
  <2> QED BY <2>1, ArrayStays DEF l2Vars
<1>6. CASE UNCHANGED vars
  BY <1>6, ArrayStays DEF vars, l2Vars
<1> QED
  BY <1>1, <1>2, <1>3, <1>4, <1>5, <1>6

LEMMA NextArray ==
    ASSUME MemoryWorks, L2Inv, ArrayInv, [Next]_vars
    PROVE  ArrayInv'
<1>1. CASE Lookup
  BY <1>1, OthersArray, AroundArray, MergeArray, HitArray, AllocArray,
     ProbeArray DEF Lookup
<1>2. CASE ProbeStart \/ ProbeComplete \/ BusResponse
  BY <1>2, ProbeStartArray, ProbeCompleteArray, BusResponseArray
<1>3. ASSUME NEW i \in MshrIds, BusRequest(i) \/ Replay(i) PROVE ArrayInv'
  BY <1>3, BusRequestArray, ReplayArray
<1>4. CASE L2Step
  BY <1>1, <1>2, <1>3, <1>4, OthersArray DEF L2Step
<1> QED
  BY <1>4, OthersArray DEF Next

\* What an MSHR with a way is about to do with it.
LEMMA HolderPhases ==
    ASSUME L2Inv, ArrayInv, NEW i \in Holders
    PROVE  /\ Evicting(l2mshr[i]) \/ Filling(l2mshr[i]) \/ Replaying(l2mshr[i])
           /\ i \in Busy /\ i \in MshrIds /\ l2mshr[i].cacheable
<1> DEFINE m == l2mshr[i]
<1>1. /\ i \in Busy /\ i \in MshrIds /\ ~m.bypass /\ m.cacheable
      /\ m \in L2Mshrs /\ MshrShape(m) /\ m.state # "IDLE"
  BY HolderFacts, WorkedLine
<1>2. m.state # "ERROR"
  BY <1>1 DEF ArrayInv, NoFailure
<1>3. m.state \in L2MshrStates
  <2> HIDE DEF m
  <2> QED BY <1>1 DEF L2Mshrs
<1>4. CASE m.state \in ProbeStates
  BY <1>1, <1>4 DEF MshrShape, Evicting, Filling, Replaying, Phase
<1>5. CASE m.state \notin ProbeStates
  BY <1>1, <1>2, <1>3, <1>5
     DEF MshrShape, Evicting, Filling, Replaying, Phase, L2MshrStates,
         ProbeStates
<1> QED
  BY <1>1, <1>4, <1>5

\* No way but the one that requests can hit has the line and is dirty.
LEMMA DirtyOpen ==
    ASSUME L2Inv, ArrayInv, NEW l \in Lines, NEW w \in L2Ways,
           Open(L2SetOf[l], w, l),
           NEW x \in ResidentWays(l), array[L2SetOf[l]][x].dirty
    PROVE  x = w
<1> DEFINE s == L2SetOf[l]
           o == array[s][x]
<1>1. /\ s \in L2Sets /\ x \in L2Ways /\ o.valid /\ o.line = l /\ o.dirty
  BY L2Assumption DEF ResidentWays
<1>2. /\ Held /\ Reservations /\ OnePlace
  BY ArrayParts
<1>3. CASE ~o.reserved
  BY <1>1, <1>2, <1>3 DEF OnePlace, Open
<1>4. CASE o.reserved
  <2>1. PICK i \in Holders : At(l2mshr[i], s, x)
    BY <1>1, <1>2, <1>4 DEF Reservations
  <2>2. /\ Evicting(l2mshr[i]) \/ Filling(l2mshr[i]) \/ Replaying(l2mshr[i])
        /\ i \in Busy /\ i \in MshrIds /\ l2mshr[i].cacheable
    BY HolderPhases
  <2>3. HeldOK(l2mshr[i], o, mem[l2mshr[i].line])
    BY <1>2, <2>1 DEF Held, At
  <2>4. CASE Evicting(l2mshr[i])
    BY <1>1, <1>2, <2>3, <2>4 DEF HeldOK, OnePlace
  <2>5. CASE Filling(l2mshr[i])
    BY <1>1, <2>3, <2>5 DEF HeldOK
  <2>6. CASE Replaying(l2mshr[i])
    BY <1>1, <1>2, <2>2, <2>3, <2>6 DEF HeldOK, OnePlace
  <2> QED BY <2>2, <2>4, <2>5, <2>6
<1> QED
  BY <1>3, <1>4

LEMMA OpenCurrent ==
    ASSUME L2Inv, ArrayInv, NEW l \in Lines, NEW w \in L2Ways,
           Open(L2SetOf[l], w, l)
    PROVE  array[L2SetOf[l]][w].data = Current(l)
<1> DEFINE s == L2SetOf[l]
           dirty == {x \in ResidentWays(l) : array[s][x].dirty}
<1>1. s \in L2Sets /\ Resident
  BY L2Assumption, ArrayParts
<1>2. dirty \subseteq {w}
  BY DirtyOpen
<1>3. Current(l) = IF dirty = {} THEN mem[l] ELSE array[s][First(dirty)].data
  BY DEF Current
<1>4. CASE array[s][w].dirty
  <2>1. w \in dirty
    BY <1>4 DEF ResidentWays, Open
  <2> HIDE DEF dirty
  <2>2. dirty \in SUBSET L2Ways /\ dirty # {}
    BY <1>2, <2>1
  <2>3. First(dirty) = w
    BY <1>2, <2>2, FirstWay
  <2> QED BY <1>3, <2>2, <2>3
<1>5. CASE ~array[s][w].dirty
  <2>1. dirty = {}
    BY <1>2, <1>5
  <2>2. array[s][w].data = mem[l]
    BY <1>1, <1>5 DEF Resident, Open
  <2> QED BY <1>3, <2>1, <2>2
<1> QED
  BY <1>4, <1>5

LEMMA InvArrayCoherent == L2Inv /\ ArrayInv => ArrayCoherent
<1> SUFFICES ASSUME L2Inv, ArrayInv, NEW l \in Lines
             PROVE  LET open == {w \in ResidentWays(l) :
                                    ~array[L2SetOf[l]][w].reserved}
                    IN  /\ Cardinality(open) <= 1
                        /\ \A w \in open :
                              array[L2SetOf[l]][w].data = Current(l)
  BY DEF ArrayCoherent
<1> DEFINE s == L2SetOf[l]
           open == {w \in ResidentWays(l) : ~array[s][w].reserved}
<1>1. s \in L2Sets /\ OnePlace
  BY L2Assumption, ArrayParts
<1>2. \A w \in open : w \in L2Ways /\ Open(s, w, l)
  BY DEF ResidentWays, Open
<1>3. \A w \in open : array[s][w].data = Current(l)
  BY <1>2, OpenCurrent
<1>4. \A w, x \in open : w = x
  BY <1>1, <1>2 DEF OnePlace
<1> HIDE DEF open
<1>5. Cardinality(open) <= 1
  <2>1. CASE open = {}
    BY <2>1, FS_EmptySet
  <2>2. CASE open # {}
    <3>1. PICK w \in open : open = {w}
      BY <1>4, <2>2
    <3>2. Cardinality({w}) = 1
      BY FS_Singleton
    <3> QED BY <3>1, <3>2
  <2> QED BY <2>1, <2>2
<1> QED
  BY <1>3, <1>5 DEF open

\* Every way an MSHR has reserved holds what the MSHR relies on, every
\* reservation has its MSHR, a clean way agrees with the memory, and no MSHR
\* works on a line that requests can hit, as long as the memory answers
\* (l2_native.v:922-1000, 1475-1555, 1972-2053).
THEOREM L2Array ==
    ASSUME MemoryWorks
    PROVE  Spec => []ArrayInv
<1>1. Init => L2Inv /\ ArrayInv
  BY InitInv, InitArray
<1>2. L2Inv /\ ArrayInv /\ [Next]_vars => (L2Inv /\ ArrayInv)'
  BY NextKeeps, NextArray
<1> QED
  BY <1>1, <1>2, PTL DEF Spec

\* A line that requests can hit is in one way of the L2, and has there the one
\* current value: the memory's, if the way is clean.  This holds for any
\* number of ways, sets and MSHRs and any overlap of evictions, victim
\* snapshots, writebacks, fills, replays, stale PTEs replaced in place and
\* writes around the array (l2_native.v:922-1000, 1972-2053).
THEOREM L2ArrayCoherent ==
    ASSUME MemoryWorks
    PROVE  Spec => []ArrayCoherent
<1>1. Spec => []L2Inv /\ []ArrayInv
  BY L2Invariant, L2Array
<1> QED
  BY <1>1, InvArrayCoherent, PTL

-----------------------------------------------------------------------------
(* The current value of a line, step by step.                                *)

DirtyAt(w, l) ==
    LET e == array[L2SetOf[l]][w] IN e.valid /\ e.dirty /\ e.line = l

\* The value of a line is that of its dirty way, or else the memory's.
IsCurrent(l, d) ==
    \/ \E w \in L2Ways : DirtyAt(w, l) /\ array[L2SetOf[l]][w].data = d
    \/ mem[l] = d /\ \A w \in L2Ways : ~DirtyAt(w, l)

CurrentOK ==
    /\ \A l \in Lines : \A d : IsCurrent(l, d) <=> d = Current(l)
    /\ \A l \in Lines : \A w, x \in L2Ways :
          DirtyAt(w, l) /\ DirtyAt(x, l) => w = x

\* The MSHR that has reserved a dirty way.
LEMMA DirtyHolder ==
    ASSUME L2Inv, ArrayInv, NEW l \in Lines, NEW w \in L2Ways, DirtyAt(w, l),
           ~Open(L2SetOf[l], w, l)
    PROVE  \E i \in Holders :
              /\ At(l2mshr[i], L2SetOf[l], w)
              /\ \/ Evicting(l2mshr[i]) /\ l2mshr[i].victim = l
                 \/ Replaying(l2mshr[i]) /\ l2mshr[i].line = l
<1> DEFINE s == L2SetOf[l]
           e == array[s][w]
<1>1. s \in L2Sets /\ e.valid /\ e.dirty /\ e.line = l /\ e.reserved
  BY L2Assumption DEF DirtyAt, Open
<1>2. Held /\ Reservations
  BY ArrayParts
<1>3. PICK i \in Holders : At(l2mshr[i], s, w)
  BY <1>1, <1>2 DEF Reservations
<1>4. HeldOK(l2mshr[i], e, mem[l2mshr[i].line])
  BY <1>2, <1>3 DEF Held, At
<1>5. Evicting(l2mshr[i]) \/ Filling(l2mshr[i]) \/ Replaying(l2mshr[i])
  BY HolderPhases
<1>6. \/ Evicting(l2mshr[i]) /\ l2mshr[i].victim = l
      \/ Replaying(l2mshr[i]) /\ l2mshr[i].line = l
  BY <1>1, <1>4, <1>5 DEF HeldOK
<1> QED
  BY <1>3, <1>6

LEMMA OneDirty ==
    ASSUME L2Inv, ArrayInv, NEW l \in Lines, NEW w \in L2Ways, NEW x \in L2Ways,
           DirtyAt(w, l), DirtyAt(x, l)
    PROVE  w = x
<1>1. CASE Open(L2SetOf[l], w, l)
  BY <1>1, DirtyOpen DEF DirtyAt, ResidentWays
<1>2. CASE Open(L2SetOf[l], x, l)
  BY <1>2, DirtyOpen DEF DirtyAt, ResidentWays
<1>3. CASE ~Open(L2SetOf[l], w, l) /\ ~Open(L2SetOf[l], x, l)
  <2>1. PICK i \in Holders :
           /\ At(l2mshr[i], L2SetOf[l], w)
           /\ \/ Evicting(l2mshr[i]) /\ l2mshr[i].victim = l
              \/ Replaying(l2mshr[i]) /\ l2mshr[i].line = l
    BY <1>3, DirtyHolder
  <2>2. PICK j \in Holders :
           /\ At(l2mshr[j], L2SetOf[l], x)
           /\ \/ Evicting(l2mshr[j]) /\ l2mshr[j].victim = l
              \/ Replaying(l2mshr[j]) /\ l2mshr[j].line = l
    BY <1>3, DirtyHolder
  <2>3. /\ i \in Busy /\ l2mshr[i].cacheable
        /\ j \in Busy /\ l2mshr[j].cacheable
        /\ VictimsApart /\ MshrInv
    BY HolderPhases, ArrayParts, InvParts
  <2>4. i = j
    BY <2>1, <2>2, <2>3 DEF VictimsApart, MshrInv
  <2> QED BY <2>1, <2>2, <2>4 DEF At
<1> QED
  BY <1>1, <1>2, <1>3

LEMMA CurrentHolds == L2Inv /\ ArrayInv => CurrentOK
<1> SUFFICES ASSUME L2Inv, ArrayInv PROVE CurrentOK
  OBVIOUS
<1>1. \A l \in Lines : \A w, x \in L2Ways :
         DirtyAt(w, l) /\ DirtyAt(x, l) => w = x
  BY OneDirty
<1>2. ASSUME NEW l \in Lines, NEW d
      PROVE  IsCurrent(l, d) <=> d = Current(l)
  <2> DEFINE s == L2SetOf[l]
             dirty == {x \in ResidentWays(l) : array[s][x].dirty}
  <2>1. Current(l) = IF dirty = {} THEN mem[l] ELSE array[s][First(dirty)].data
    BY DEF Current
  <2>2. \A w : w \in dirty <=> w \in L2Ways /\ DirtyAt(w, l)
    BY DEF DirtyAt, ResidentWays
  <2>3. dirty \in SUBSET L2Ways
    BY <2>2
  <2> HIDE DEF dirty
  <2>4. CASE dirty = {}
    BY <2>1, <2>2, <2>4 DEF IsCurrent
  <2>5. CASE dirty # {}
    <3>1. First(dirty) \in dirty
      BY <2>3, <2>5, FirstWay
    <3>2. \A w \in L2Ways : DirtyAt(w, l) => w = First(dirty)
      BY <1>1, <2>2, <3>1
    <3> QED BY <2>1, <2>2, <2>5, <3>1, <3>2 DEF IsCurrent
  <2> QED BY <2>4, <2>5
<1> QED
  BY <1>1, <1>2 DEF CurrentOK

\* The value of every line that can be cached.
LineValue ==
    [l \in Lines |-> IF l \in DeviceLines THEN InitValue ELSE Current(l)]

LEMMA ValueSame ==
    ASSUME CurrentOK, CurrentOK',
           \A l \in Lines \ DeviceLines : \A d :
              IsCurrent(l, d) => IsCurrent(l, d)'
    PROVE  LineValue' = LineValue
<1>1. \A l \in Lines \ DeviceLines : IsCurrent(l, Current(l))
  BY DEF CurrentOK
<1>2. \A l \in Lines \ DeviceLines : Current(l)' = Current(l)
  <2> SUFFICES ASSUME NEW l \in Lines \ DeviceLines
               PROVE  Current(l)' = Current(l)
    OBVIOUS
  <2>1. PICK d : d = Current(l)
    OBVIOUS
  <2>2. IsCurrent(l, d)'
    BY <1>1, <2>1
  <2>3. d = Current(l)'
    BY <2>2 DEF CurrentOK
  <2> QED BY <2>1, <2>3
<1> QED
  BY <1>2 DEF LineValue

LEMMA ValueWritten ==
    ASSUME CurrentOK, CurrentOK', NEW x \in Lines \ DeviceLines, NEW y,
           IsCurrent(x, y)',
           \A l \in Lines \ DeviceLines : l # x =>
              \A d : IsCurrent(l, d) => IsCurrent(l, d)'
    PROVE  LineValue' = [LineValue EXCEPT ![x] = y]
<1>1. \A l \in Lines \ DeviceLines : IsCurrent(l, Current(l))
  BY DEF CurrentOK
<1>2. \A l \in Lines \ DeviceLines : l # x => Current(l)' = Current(l)
  <2> SUFFICES ASSUME NEW l \in Lines \ DeviceLines, l # x
               PROVE  Current(l)' = Current(l)
    OBVIOUS
  <2>1. PICK d : d = Current(l)
    OBVIOUS
  <2>2. IsCurrent(l, d)'
    BY <1>1, <2>1
  <2>3. d = Current(l)'
    BY <2>2 DEF CurrentOK
  <2> QED BY <2>1, <2>3
<1>3. Current(x)' = y
  BY DEF CurrentOK
<1> QED
  BY <1>2, <1>3 DEF LineValue

\* Only the reservations of ways change, or nothing.
LEMMA ReservedValue ==
    ASSUME CurrentOK, CurrentOK', UNCHANGED mem,
           \A s \in L2Sets, w \in L2Ways :
              /\ array'[s][w].valid = array[s][w].valid
              /\ array'[s][w].dirty = array[s][w].dirty
              /\ array'[s][w].line = array[s][w].line
              /\ array'[s][w].data = array[s][w].data
    PROVE  LineValue' = LineValue
<1>1. \A l \in Lines, w \in L2Ways :
         /\ DirtyAt(w, l)' <=> DirtyAt(w, l)
         /\ array'[L2SetOf[l]][w].data = array[L2SetOf[l]][w].data
  BY L2Assumption DEF DirtyAt
<1>2. \A l \in Lines \ DeviceLines : \A d : IsCurrent(l, d) => IsCurrent(l, d)'
  BY <1>1 DEF IsCurrent
<1> QED
  BY <1>2, ValueSame

LEMMA DispatchReserves ==
    ASSUME L2Inv, CurrentOK, CurrentOK', lookup # << >>, UNCHANGED mem,
           UNCHANGED array \/ \E w \in L2Ways : Reserve(w)
    PROVE  LineValue' = LineValue
<1> DEFINE s == L2SetOf[Cmd.line]
<1>1. s \in L2Sets /\ array \in [L2Sets -> [L2Ways -> L2Entries]]
  BY InvParts, CmdFacts DEF L2TypeOK
<1>2. CASE UNCHANGED array
  BY <1>2, ReservedValue
<1>3. ASSUME NEW w \in L2Ways, Reserve(w)
      PROVE  LineValue' = LineValue
  <2> DEFINE e == array[s][w]
             f == [e EXCEPT !.reserved = TRUE]
  <2>1. e \in L2Entries
    BY <1>1
  <2>2. /\ f.valid = e.valid /\ f.dirty = e.dirty
        /\ f.line = e.line /\ f.data = e.data
    <3> HIDE DEF e
    <3> QED BY <2>1 DEF L2Entries
  <2>3. array' = [array EXCEPT ![s][w] = f]
    BY <1>1, <1>3 DEF Reserve
  <2> HIDE DEF f, s
  <2>4. \A t \in L2Sets, x \in L2Ways :
           array'[t][x] = IF t = s /\ x = w THEN f ELSE array[t][x]
    BY <1>1, <2>3
  <2>5. \A t \in L2Sets, x \in L2Ways :
           /\ array'[t][x].valid = array[t][x].valid
           /\ array'[t][x].dirty = array[t][x].dirty
           /\ array'[t][x].line = array[t][x].line
           /\ array'[t][x].data = array[t][x].data
    BY <2>2, <2>4
  <2> QED BY <2>5, ReservedValue
<1> QED
  BY <1>2, <1>3

\* One way is rewritten: line x is dirty there now, and no other line was or is.
RewritesWay(x, w, e) ==
    /\ x \in Lines \ DeviceLines /\ w \in L2Ways
    /\ array' = [array EXCEPT ![L2SetOf[x]][w] = e]
    /\ array[L2SetOf[x]][w].line = x
    /\ e.valid /\ e.dirty /\ e.line = x

LEMMA WayWritten ==
    ASSUME L2TypeOK, CurrentOK, CurrentOK', UNCHANGED mem,
           NEW x, NEW w, NEW e, RewritesWay(x, w, e)
    PROVE  LineValue' = [LineValue EXCEPT ![x] = e.data]
<1> DEFINE s == L2SetOf[x]
<1>0. /\ x \in Lines \ DeviceLines /\ w \in L2Ways
      /\ array[s][w].line = x
      /\ e.valid /\ e.dirty /\ e.line = x
  BY DEF RewritesWay
<1>1. /\ s \in L2Sets /\ array \in [L2Sets -> [L2Ways -> L2Entries]]
      /\ array' = [array EXCEPT ![s][w] = e]
  BY <1>0, L2Assumption DEF L2TypeOK, RewritesWay
<1>2. \A t \in L2Sets, y \in L2Ways :
         array'[t][y] = IF t = s /\ y = w THEN e ELSE array[t][y]
  <2> HIDE DEF s
  <2> QED BY <1>0, <1>1
<1>3. IsCurrent(x, e.data)'
  BY <1>0, <1>1, <1>2 DEF IsCurrent, DirtyAt
<1>4. ASSUME NEW l \in Lines \ DeviceLines, l # x, NEW d, IsCurrent(l, d)
      PROVE  IsCurrent(l, d)'
  <2>1. \A y \in L2Ways : /\ DirtyAt(y, l)' <=> DirtyAt(y, l)
                          /\ DirtyAt(y, l) => array'[L2SetOf[l]][y].data
                                                 = array[L2SetOf[l]][y].data
    BY <1>0, <1>1, <1>2, <1>4, L2Assumption DEF DirtyAt
  <2> QED BY <1>4, <2>1 DEF IsCurrent
<1> QED
  BY <1>0, <1>3, <1>4, ValueWritten

LEMMA HitValue ==
    ASSUME L2Inv, ArrayInv, CurrentOK, CurrentOK', DispatchHit
    PROVE  IF OpWrites(Cmd.op)
           THEN LineValue' = [LineValue EXCEPT ![Cmd.line] = Cmd.data]
           ELSE LineValue' = LineValue
<1> DEFINE w == First(HitWays)
           s == L2SetOf[Cmd.line]
           o == array[s][w]
           e == [o EXCEPT !.data = Cmd.data, !.dirty = TRUE]
<1>1. /\ L2TypeOK /\ ServiceInv /\ Dispatch /\ lookup # << >>
      /\ HitWays # {} /\ UNCHANGED <<l2mshr, mem>> /\ Cmd.cacheable
  BY InvParts DEF DispatchHit, Dispatch, NotVictim, Unowned, Cached
<1>2. /\ w \in TagWays /\ w \in L2Ways /\ s \in L2Sets /\ Row = array[s]
      /\ Cmd.line \in Lines \ DeviceLines
  BY <1>1, RowFacts, TagFacts, CmdFacts DEF Legal
<1>3. o.valid /\ o.line = Cmd.line /\ o \in L2Entries
  BY <1>1, <1>2, WayType DEF TagWays
<1>4. IF OpWrites(Cmd.op) THEN array' = [array EXCEPT ![s][w] = e]
      ELSE UNCHANGED array
  BY DEF DispatchHit
<1>5. CASE ~OpWrites(Cmd.op)
  BY <1>1, <1>4, <1>5, DispatchReserves
<1>6. CASE OpWrites(Cmd.op)
  <2>1. e.valid /\ e.dirty /\ e.line = Cmd.line /\ e.data = Cmd.data
    <3> HIDE DEF o
    <3> QED BY <1>3 DEF L2Entries
  <2>2. RewritesWay(Cmd.line, w, e)
    <3> HIDE DEF e, w
    <3> QED BY <1>1, <1>2, <1>3, <1>4, <1>6, <2>1 DEF RewritesWay
  <2> HIDE DEF e, w
  <2> QED BY <1>1, <1>6, <2>1, <2>2, WayWritten
<1> QED
  BY <1>5, <1>6

\* A dirty way of a line that an MSHR works on is the MSHR's own.
LEMMA OwnDirty ==
    ASSUME L2Inv, ArrayInv, NEW i \in Busy, l2mshr[i].cacheable,
           NEW w \in L2Ways, DirtyAt(w, l2mshr[i].line)
    PROVE  i \in Holders /\ At(l2mshr[i], L2SetOf[l2mshr[i].line], w)
<1> DEFINE l == l2mshr[i].line
<1>1. l \in Lines /\ OnePlace /\ VictimsApart /\ MshrInv
  BY WorkedLine, ArrayParts, InvParts
<1>2. ~Open(L2SetOf[l], w, l)
  BY <1>1, L2Assumption DEF OnePlace
<1>3. PICK j \in Holders :
         /\ At(l2mshr[j], L2SetOf[l], w)
         /\ \/ Evicting(l2mshr[j]) /\ l2mshr[j].victim = l
            \/ Replaying(l2mshr[j]) /\ l2mshr[j].line = l
  BY <1>1, <1>2, DirtyHolder
<1>4. j \in Busy /\ l2mshr[j].cacheable
  BY HolderPhases
<1>5. i = j
  BY <1>1, <1>3, <1>4 DEF VictimsApart, MshrInv
<1> QED
  BY <1>3, <1>5

\* What the copy of a dirty victim and the data of a replay are worth.
LEMMA HolderCurrent ==
    ASSUME L2Inv, ArrayInv, NEW i \in Holders
    PROVE  /\ Evicting(l2mshr[i]) =>
                 /\ DirtyAt(l2mshr[i].way, l2mshr[i].victim)
                 /\ L2SetOf[l2mshr[i].victim] = L2SetOf[l2mshr[i].line]
                 /\ l2mshr[i].victim \in Lines \ DeviceLines
                 /\ l2mshr[i].vdata = Current(l2mshr[i].victim)
           /\ Replaying(l2mshr[i]) => l2mshr[i].data = Current(l2mshr[i].line)
<1> DEFINE m == l2mshr[i]
           s == L2SetOf[m.line]
           e == array[s][m.way]
<1>1. /\ i \in Busy /\ i \in MshrIds /\ m.cacheable
      /\ Held /\ Resident /\ CurrentOK /\ L2TypeOK
  BY HolderPhases, ArrayParts, InvParts, CurrentHolds
<1>2. m.line \in Lines /\ m.way \in L2Ways /\ s \in L2Sets
  BY <1>1, MshrRegisters
<1>3. HeldOK(m, e, mem[m.line]) /\ WayOK(s, e)
  BY <1>1, <1>2 DEF Held, Resident
<1>4. ASSUME Evicting(m)
      PROVE  /\ DirtyAt(m.way, m.victim) /\ L2SetOf[m.victim] = s
             /\ m.victim \in Lines \ DeviceLines /\ m.vdata = Current(m.victim)
  <2>1. /\ e.valid /\ e.dirty /\ e.line = m.victim /\ e.data = m.vdata
        /\ L2SetOf[m.victim] = s /\ m.victim \in Lines \ DeviceLines
    BY <1>3, <1>4 DEF HeldOK, WayOK
  <2>2. DirtyAt(m.way, m.victim)
    BY <2>1 DEF DirtyAt
  <2> HIDE DEF m
  <2>3. IsCurrent(m.victim, m.vdata)
    BY <1>2, <2>1, <2>2 DEF IsCurrent
  <2> QED BY <1>1, <2>1, <2>2, <2>3 DEF CurrentOK
<1>5. ASSUME Replaying(m)
      PROVE  m.data = Current(m.line)
  <2>1. e.valid /\ e.line = m.line /\ e.data = m.data
        /\ (~e.dirty => e.data = mem[m.line])
    BY <1>3, <1>5 DEF HeldOK
  <2>2. CASE e.dirty
    <3>1. DirtyAt(m.way, m.line)
      BY <2>1, <2>2 DEF DirtyAt
    <3>2. IsCurrent(m.line, m.data)
      BY <1>2, <2>1, <3>1 DEF IsCurrent
    <3> QED BY <1>1, <1>2, <3>2 DEF CurrentOK
  <2>3. CASE ~e.dirty
    <3>1. \A w \in L2Ways : ~DirtyAt(w, m.line)
      <4> SUFFICES ASSUME NEW w \in L2Ways, DirtyAt(w, m.line) PROVE FALSE
        OBVIOUS
      <4>1. w = m.way
        BY <1>1, OwnDirty DEF At
      <4> QED BY <2>3, <4>1 DEF DirtyAt
    <3>2. IsCurrent(m.line, m.data)
      BY <2>1, <2>3, <3>1 DEF IsCurrent
    <3> QED BY <1>1, <1>2, <3>2 DEF CurrentOK
  <2> QED BY <2>2, <2>3
<1> QED
  BY <1>4, <1>5

\* A write around the array changes its line, and nothing else that the memory
\* answers changes the value of a line.
LEMMA BusValue ==
    ASSUME MemoryWorks, L2Inv, ArrayInv, CurrentOK, CurrentOK', BusResponse,
           NEW i, i = Head(bus).mshr, NEW m, m = l2mshr[i]
    PROVE  IF m.bypass /\ m.cacheable /\ OpWrites(Head(m.waiters).op)
           THEN LineValue' = [LineValue EXCEPT ![m.line] = Head(m.waiters).data]
           ELSE LineValue' = LineValue
<1> DEFINE a == Head(bus).action
           s == L2SetOf[m.line]
           o == array[s][m.way]
<1>1. /\ L2TypeOK /\ MshrInv /\ BusInv /\ bus # << >>
      /\ Held /\ Resident
  BY InvParts, ArrayParts DEF BusResponse
<1>2. /\ i \in MshrIds /\ m \in L2Mshrs /\ m.state = InflightState(a)
      /\ MshrShape(m) /\ a \in BusActions
  BY <1>1, BusHead
<1>3. /\ i \in Busy /\ m.line \in Lines /\ s \in L2Sets /\ m.way \in L2Ways
      /\ m.victim \in Lines
      /\ m.cacheable <=> m.line \notin DeviceLines
      /\ ~m.bypass => i \in Holders /\ m.cacheable
      /\ m.bypass => i \notin Holders
  <2>1. i \in Busy
    BY <1>2, BusStates, HolderFacts DEF BusActions
  <2> QED BY <1>1, <1>2, <2>1, WorkedLine, MshrRegisters, HolderFacts
<1>4. /\ a = "WB" <=> m.state = "WB_INFLIGHT"
      /\ a = "FILL" <=> m.state = "FILL_INFLIGHT"
      /\ a = "BYPASS" <=> m.state = "BYPASS_INFLIGHT"
  BY <1>2, BusStates DEF BusActions
<1>5. /\ array \in [L2Sets -> [L2Ways -> L2Entries]] /\ o \in L2Entries
      /\ mem \in [Lines -> Values]
  BY <1>1, <1>3 DEF L2TypeOK
<1>6. CASE a = "WB"
  <2> DEFINE e == [o EXCEPT !.valid = FALSE, !.dirty = FALSE]
  <2>1. ~m.bypass /\ i \in Holders /\ Evicting(m)
    BY <1>2, <1>3, <1>4, <1>6 DEF MshrShape, Evicting, Phase, ProbeStates
  <2>2. /\ DirtyAt(m.way, m.victim) /\ L2SetOf[m.victim] = s
        /\ m.victim \in Lines \ DeviceLines /\ m.vdata = Current(m.victim)
    BY <2>1, HolderCurrent
  <2>3. m.victim \notin BadLines
    BY <2>2 DEF MemoryWorks
  <2>4. /\ array' = [array EXCEPT ![s][m.way] = e]
        /\ mem' = [mem EXCEPT ![m.victim] = m.vdata]
    BY <1>6, <2>3 DEF BusResponse, MemAccess, BusLine
  <2>5. ~e.valid
    <3> HIDE DEF o
    <3> QED BY <1>5 DEF L2Entries
  <2> HIDE DEF e
  <2>6. \A t \in L2Sets, y \in L2Ways :
           array'[t][y] = IF t = s /\ y = m.way THEN e ELSE array[t][y]
    <3> HIDE DEF s
    <3> QED BY <1>3, <1>5, <2>4
  <2>7. ASSUME NEW l \in Lines \ DeviceLines, NEW d, IsCurrent(l, d)
        PROVE  IsCurrent(l, d)'
    <3>1. CASE l = m.victim
      <4>1. d = m.vdata
        BY <2>2, <2>7, <3>1 DEF CurrentOK
      <4>2. \A y \in L2Ways : ~DirtyAt(y, l)'
        <5> SUFFICES ASSUME NEW y \in L2Ways, DirtyAt(y, l)' PROVE FALSE
          OBVIOUS
        <5>1. array'[L2SetOf[l]][y] = IF y = m.way THEN e
                                      ELSE array[L2SetOf[l]][y]
          <6>1. L2SetOf[l] = s /\ s \in L2Sets
            BY <1>3, <2>2, <3>1
          <6> HIDE DEF s, o, a
          <6> QED BY <2>6, <6>1
        <5>2. y # m.way /\ DirtyAt(y, l)
          BY <2>5, <5>1 DEF DirtyAt
        <5> QED BY <1>3, <2>2, <3>1, <5>2 DEF CurrentOK
      <4>3. mem'[l] = d
        BY <1>5, <2>2, <2>4, <3>1, <4>1
      <4> QED BY <4>2, <4>3 DEF IsCurrent
    <3>2. CASE l # m.victim
      <4>1. mem'[l] = mem[l]
        BY <1>5, <2>4, <3>2
      <4>2. \A y \in L2Ways : /\ DirtyAt(y, l)' <=> DirtyAt(y, l)
                              /\ DirtyAt(y, l) => array'[L2SetOf[l]][y].data
                                                     = array[L2SetOf[l]][y].data
        <5>1. o.line = m.victim
          BY <2>2 DEF DirtyAt
        <5>2. PICK t : t = L2SetOf[l] /\ t \in L2Sets
          BY L2Assumption
        <5>3. SUFFICES
                ASSUME NEW y \in L2Ways
                PROVE  /\ DirtyAt(y, l)' <=> DirtyAt(y, l)
                       /\ DirtyAt(y, l) => array'[t][y].data = array[t][y].data
          BY <5>2
        <5>4. array'[t][y] = IF t = s /\ y = m.way THEN e ELSE array[t][y]
          <6> HIDE DEF s, o, a
          <6> QED BY <2>6, <5>2
        <5>5. CASE t = s /\ y = m.way
          <6>1. array'[t][y] = e /\ array[t][y] = o
            BY <5>4, <5>5
          <6> HIDE DEF s, o, a
          <6> QED BY <2>5, <3>2, <5>1, <5>2, <6>1 DEF DirtyAt
        <5>6. CASE ~(t = s /\ y = m.way)
          <6>1. array'[t][y] = array[t][y]
            BY <5>4, <5>6
          <6> HIDE DEF s, o, a
          <6> QED BY <5>2, <6>1 DEF DirtyAt
        <5> QED BY <5>5, <5>6
      <4> QED BY <2>7, <4>1, <4>2 DEF IsCurrent
    <3> QED BY <3>1, <3>2
  <2> QED BY <2>1, <2>7, ValueSame
<1>7. CASE a = "FILL"
  <2> DEFINE g == m.generation
             v == mem[m.line]
             e == [o EXCEPT !.valid = TRUE, !.dirty = FALSE, !.line = m.line,
                            !.data = v, !.generation = g]
  <2>1. ~m.bypass /\ i \in Holders /\ Filling(m) /\ m.line \notin BadLines
    BY <1>2, <1>3, <1>4, <1>7
       DEF MshrShape, Filling, Phase, ProbeStates, MemoryWorks
  <2>2. array' = [array EXCEPT ![s][m.way] = e] /\ mem' = mem
    BY <1>7, <2>1 DEF BusResponse, MemAccess, BusLine
  <2>3. ~(o.valid /\ o.dirty)
    BY <1>1, <2>1 DEF Held, HeldOK
  <2>4. ~e.dirty
    <3> HIDE DEF o, g, v
    <3> QED BY <1>5 DEF L2Entries
  <2> HIDE DEF e
  <2>5. \A t \in L2Sets, y \in L2Ways :
           array'[t][y] = IF t = s /\ y = m.way THEN e ELSE array[t][y]
    <3> HIDE DEF s
    <3> QED BY <1>3, <1>5, <2>2
  <2>6. ASSUME NEW l \in Lines, NEW y \in L2Ways
        PROVE  /\ DirtyAt(y, l)' <=> DirtyAt(y, l)
               /\ DirtyAt(y, l) => array'[L2SetOf[l]][y].data
                                      = array[L2SetOf[l]][y].data
    <3>1. array'[L2SetOf[l]][y] = IF L2SetOf[l] = s /\ y = m.way THEN e
                                  ELSE array[L2SetOf[l]][y]
      BY <2>5, L2Assumption
    <3> HIDE DEF s
    <3>2. CASE L2SetOf[l] = s /\ y = m.way
      BY <2>3, <2>4, <3>1, <3>2 DEF DirtyAt
    <3>3. CASE ~(L2SetOf[l] = s /\ y = m.way)
      BY <3>1, <3>3 DEF DirtyAt
    <3> QED BY <3>2, <3>3
  <2>7. \A l \in Lines \ DeviceLines : \A d : IsCurrent(l, d) => IsCurrent(l, d)'
    BY <2>2, <2>6 DEF IsCurrent
  <2> QED BY <2>1, <2>7, ValueSame
<1>8. CASE a = "BYPASS"
  <2> DEFINE d == Head(m.waiters).data
  <2>1. m.bypass /\ i \notin Holders
    BY <1>2, <1>3, <1>4, <1>8 DEF MshrShape
  <2>2. /\ UNCHANGED array
        /\ m.cacheable => m.line \notin BadLines
        /\ \/ mem' = mem /\ (m.line \in BadLines \/ ~OpWrites(Head(m.waiters).op))
           \/ OpWrites(Head(m.waiters).op) /\ mem' = [mem EXCEPT ![m.line] = d]
    BY <1>3, <1>8 DEF BusResponse, MemAccess, BusLine, MemoryWorks
  <2>3. \A l \in Lines, y \in L2Ways : DirtyAt(y, l)' <=> DirtyAt(y, l)
    BY <2>2 DEF DirtyAt
  <2>4. CASE mem' = mem /\ (m.line \in BadLines \/ ~OpWrites(Head(m.waiters).op))
    <3>1. LineValue' = LineValue
      BY <2>2, <2>3, <2>4, ValueSame DEF IsCurrent
    <3> QED BY <2>2, <2>4, <3>1
  <2>5. CASE OpWrites(Head(m.waiters).op) /\ mem' = [mem EXCEPT ![m.line] = d]
    <3> HIDE DEF d
    <3>1. \A l \in Lines : l # m.line => mem'[l] = mem[l]
      BY <1>5, <2>5
    <3>2. \A l \in Lines \ DeviceLines : l # m.line =>
             \A y : IsCurrent(l, y) => IsCurrent(l, y)'
      BY <2>2, <2>3, <3>1 DEF IsCurrent
    <3>3. CASE m.cacheable
      <4>1. \A y \in L2Ways : ~DirtyAt(y, m.line)
        BY <1>3, <2>1, <3>3, OwnDirty
      <4>2. IsCurrent(m.line, d)'
        BY <1>3, <1>5, <2>3, <2>5, <4>1 DEF IsCurrent
      <4>3. LineValue' = [LineValue EXCEPT ![m.line] = d]
        BY <1>3, <3>2, <3>3, <4>2, ValueWritten
      <4> QED BY <2>1, <2>5, <3>3, <4>3 DEF d
    <3>4. CASE ~m.cacheable
      <4>1. LineValue' = LineValue
        BY <1>3, <3>2, <3>4, ValueSame
      <4> QED BY <3>4, <4>1
    <3> QED BY <3>3, <3>4
  <2> QED BY <2>2, <2>4, <2>5
<1> QED
  BY <1>2, <1>6, <1>7, <1>8 DEF BusActions

\* A replay changes its line if it writes the array.
LEMMA ReplayValue ==
    ASSUME L2Inv, ArrayInv, CurrentOK, CurrentOK', NEW i \in MshrIds, Replay(i),
           NEW m, m = l2mshr[i]
    PROVE  IF ReplayWrites(m)
           THEN LineValue' = [LineValue EXCEPT ![m.line] = Head(m.waiters).data]
           ELSE LineValue' = LineValue
<1> DEFINE s == L2SetOf[m.line]
           o == array[s][m.way]
           final == Len(m.waiters) = 1
           v == IF ReplayWrites(m) THEN ReplayData(m) ELSE o.data
           d == o.dirty \/ ReplayWrites(m)
           r == o.reserved /\ ~final
           e == [o EXCEPT !.data = v, !.dirty = d, !.reserved = r]
<1>1. /\ L2TypeOK /\ MshrInv /\ Held /\ ReplayReady(m) /\ mem' = mem
      /\ array' = IF m.bypass THEN array ELSE [array EXCEPT ![s][m.way] = e]
  BY InvParts, ArrayParts DEF Replay
<1>2. i \in Busy /\ m \in L2Mshrs /\ m.line \in Lines
  <2>1. i \in Busy
    BY <1>1, HolderFacts DEF ReplayReady
  <2> QED BY <2>1, WorkedLine
<1>3. CASE m.bypass
  <2>1. UNCHANGED <<array, mem>> /\ ~ReplayWrites(m)
    BY <1>1, <1>3 DEF ReplayWrites
  <2>2. LineValue' = LineValue
    BY <2>1, ReservedValue
  <2> QED BY <2>1, <2>2
<1>4. CASE ~m.bypass
  <2>1. /\ i \in Holders /\ m.cacheable /\ m.state = "REPLAY"
        /\ m.line \in Lines \ DeviceLines /\ m.way \in L2Ways /\ s \in L2Sets
    BY <1>1, <1>2, <1>4, WorkedLine, MshrRegisters
       DEF ReplayReady, ArrayInv, NoFailure
  <2>2. o.valid /\ o.line = m.line /\ o \in L2Entries
    BY <1>1, <2>1, WayType
       DEF Held, HeldOK, Replaying, Phase, ProbeStates
  <2>3. e.valid /\ e.line = m.line /\ e.data = v /\ e.dirty = d
    <3> HIDE DEF o, v, d, r
    <3> QED BY <2>2 DEF L2Entries
  <2>4. array' = [array EXCEPT ![s][m.way] = e]
    BY <1>1, <1>4
  <2> HIDE DEF e
  <2>5. CASE ReplayWrites(m)
    <3>1. e.data = Head(m.waiters).data /\ e.dirty
      BY <2>3, <2>5 DEF ReplayData
    <3>2. L2TypeOK /\ UNCHANGED mem /\ RewritesWay(m.line, m.way, e)
      BY <1>1, <2>1, <2>2, <2>3, <2>4, <3>1 DEF RewritesWay
    <3> HIDE DEF v, d, r, s, o
    <3>3. LineValue' = [LineValue EXCEPT ![m.line] = e.data]
      BY <3>2, WayWritten
    <3> QED BY <2>5, <3>1, <3>3
  <2>6. CASE ~ReplayWrites(m)
    <3>1. /\ e.valid = o.valid /\ e.dirty = o.dirty /\ e.line = o.line
          /\ e.data = o.data
      BY <2>2, <2>3, <2>6 DEF L2Entries
    <3>2. \A t \in L2Sets, y \in L2Ways :
             array'[t][y] = IF t = s /\ y = m.way THEN e ELSE array[t][y]
      <4>1. array \in [L2Sets -> [L2Ways -> L2Entries]]
        BY <1>1 DEF L2TypeOK
      <4> HIDE DEF s
      <4> QED BY <2>1, <2>4, <4>1
    <3>3. \A t \in L2Sets, y \in L2Ways :
             /\ array'[t][y].valid = array[t][y].valid
             /\ array'[t][y].dirty = array[t][y].dirty
             /\ array'[t][y].line = array[t][y].line
             /\ array'[t][y].data = array[t][y].data
      BY <3>1, <3>2
    <3> QED BY <1>1, <2>6, <3>3, ReservedValue
  <2> QED BY <2>5, <2>6
<1> QED
  BY <1>3, <1>4
-----------------------------------------------------------------------------
(* The value invariant.  v is the value of every line that can be cached.    *)

\* An LR of the hart is answered or about to take its value: its reservation
\* stands, the value it will return is not taken yet.
LrAnswered(h) ==
    \E r \in Elements(responses) : r.cmd.op = "LR" /\ r.cmd.hart = h
LrPending(h) == marked[h].state = "lr_lookup" \/ LrAnswered(h)

\* A reservation that stands is for a line with the value the LR returned.
Reserved(h, v) ==
    reservation[h] # NoLine =>
        /\ reservation[h] \in AtomicLines
        /\ LrPending(h) => marked[h].line = reservation[h]
        /\ ~LrPending(h) => lr_value[h] = v[reservation[h]]

\* A store in service is the oldest of its buffer; an LR or SC found the buffer
\* drained and no miss in flight.
ServedOK(c) ==
    /\ c.source = "DCACHE" /\ c.op = "WRITE" /\ c.cacheable =>
          /\ Head(stores[c.hart]).line = c.line
          /\ Head(stores[c.hart]).data = c.data
    /\ c.op \in {"LR", "SC"} =>
          stores[c.hart] = << >> /\ mshr[c.hart].state = "free"

Queued == Elements(hit) \cup Elements(responses)

DRead(c) == c.source = "DCACHE" /\ PrivateFill(c)

\* The answer to an L1D: the value of the line, which after a store is the
\* store's as long as the hart holds the line.
AnswerOK(r, v) ==
    r.cmd.source = "DCACHE" /\ r.cmd.cacheable =>
        /\ ~r.error
        /\ r.cmd.op = "READ" => r.data = v[r.cmd.line]
        /\ r.cmd.op = "WRITE" /\ HoldsD(r.cmd.hart, r.cmd.line) =>
              r.cmd.data = v[r.cmd.line]

\* The MSHR has yet to write its line.
Writing(m) ==
    /\ m.cacheable /\ OpWrites(Head(m.waiters).op)
    /\ ~(m.bypass /\ m.state = "REPLAY")

Revoking(m, h) ==
    m.state \in ProbeStates /\ m.coh_action = "CLEAR" /\ h \in m.targets

\* Nobody but the writer keeps the line, nor reads it before it is written, and
\* an SC finds the value that its LR returned.
WriteApart(m, v) ==
    Writing(m) =>
        /\ \A h \in Harts : reservation[h] # m.line
        /\ \A r \in Queued : DRead(r.cmd) => r.cmd.line # m.line
        /\ \A h \in Harts : HoldsD(h, m.line) =>
              h = Head(m.waiters).hart \/ Revoking(m, h)
        /\ Head(m.waiters).op = "SC" =>
              lr_value[Head(m.waiters).hart] = v[m.line]

\* A write around the array is a store, and done before it is answered.
WrittenOK(m, v) ==
    m.bypass /\ m.cacheable =>
        /\ Len(m.waiters) = 1 /\ Head(m.waiters).op = "WRITE"
        /\ m.state = "REPLAY" /\ HoldsD(Head(m.waiters).hart, m.line) =>
              Head(m.waiters).data = v[m.line]

HartsOK(v) == \A h \in Harts : CacheValue(h, v)
ReservedOK(v) == \A h \in Harts : Reserved(h, v)
AllServed == \A c \in Contents(Spots, Pending) : ServedOK(c)
AnswersOK(v) == \A r \in Queued : AnswerOK(r, v)
WritesOK(v) ==
    \A i \in Busy : WriteApart(l2mshr[i], v) /\ WrittenOK(l2mshr[i], v)

ValuesOK(v) ==
    HartsOK(v) /\ ReservedOK(v) /\ AllServed /\ AnswersOK(v) /\ WritesOK(v)

ValueInv == \E v : v = LineValue /\ ValuesOK(v)

LEMMA ElementsOf ==
    ASSUME NEW S, NEW s \in Seq(S)
    PROVE  /\ \A x \in Elements(s) : x \in S
           /\ s # << >> => Head(s) \in Elements(s)
           /\ \A x \in S : \A y : y \in Elements(Append(s, x))
                                     <=> y \in Elements(s) \/ y = x
           /\ s # << >> => \A y : y \in Elements(s)
                                     <=> y = Head(s) \/ y \in Elements(Tail(s))
<1>1. DOMAIN s = 1 .. Len(s) /\ Len(s) \in Nat
  OBVIOUS
<1>2. \A x \in Elements(s) : x \in S
  BY <1>1 DEF Elements
<1>3. ASSUME s # << >>
      PROVE  /\ Head(s) \in Elements(s)
             /\ \A y : y \in Elements(s) <=> y = Head(s) \/ y \in Elements(Tail(s))
  <2>1. /\ Head(s) = s[1] /\ 1 \in DOMAIN s /\ Len(Tail(s)) = Len(s) - 1
        /\ DOMAIN Tail(s) = 1 .. (Len(s) - 1)
        /\ \A n \in 1 .. (Len(s) - 1) : Tail(s)[n] = s[n + 1]
    BY <1>1, <1>3
  <2>2. Head(s) \in Elements(s)
    BY <2>1 DEF Elements
  <2>3. \A y \in Elements(Tail(s)) : y \in Elements(s)
    BY <1>3, ElementsTail
  <2>4. ASSUME NEW y \in Elements(s), y # Head(s)
        PROVE  y \in Elements(Tail(s))
    <3>1. PICK n \in DOMAIN s : y = s[n]
      BY DEF Elements
    <3>2. n # 1 /\ n \in Nat /\ n <= Len(s) /\ n >= 1
      BY <1>1, <2>1, <2>4, <3>1
    <3>3. n - 1 \in 1 .. (Len(s) - 1) /\ (n - 1) + 1 = n
      BY <1>1, <3>2
    <3>4. Tail(s)[n - 1] = y
      BY <2>1, <3>1, <3>3
    <3> QED BY <2>1, <3>3, <3>4 DEF Elements
  <2> QED BY <2>2, <2>3, <2>4
<1>4. ASSUME NEW x \in S
      PROVE  \A y : y \in Elements(Append(s, x)) <=> y \in Elements(s) \/ y = x
  <2>1. /\ DOMAIN Append(s, x) = 1 .. (Len(s) + 1)
        /\ Append(s, x)[Len(s) + 1] = x
        /\ \A n \in 1 .. Len(s) : Append(s, x)[n] = s[n]
    BY <1>1, AppendProperties
  <2>2. \A y \in Elements(Append(s, x)) : y \in Elements(s) \/ y = x
    BY ElementsAppend
  <2>3. \A n \in 1 .. Len(s) : n \in 1 .. (Len(s) + 1)
    BY <1>1
  <2>4. Len(s) + 1 \in 1 .. (Len(s) + 1)
    BY <1>1
  <2> QED BY <1>1, <2>1, <2>2, <2>3, <2>4 DEF Elements
<1> QED
  BY <1>2, <1>3, <1>4

LEMMA QueuedFacts ==
    ASSUME L2Inv, NEW r \in Queued
    PROVE  /\ r \in Responses /\ r.cmd \in Commands /\ r.cmd.hart \in Harts
           /\ r.cmd \in Contents(Spots, Pending)
           /\ Legal(r.cmd) /\ Waits(r.cmd)
           /\ \E s \in {HitAt, ResponsesAt} :
                 \E n \in DOMAIN Pending[s] : Pending[s][n] = r.cmd
<1>1. L2TypeOK /\ ServiceInv
  BY InvParts
<1>2. /\ hit \in Seq(Responses) /\ responses \in Seq(Responses)
      /\ \A x \in Responses : x.cmd \in Commands
  BY <1>1, QueueTypes
<1>3. r \in Responses
  BY <1>2, ElementsOf DEF Queued
<1>4. \E s \in {HitAt, ResponsesAt} :
         \E n \in DOMAIN Pending[s] : Pending[s][n] = r.cmd
  <2>1. CASE r \in Elements(hit)
    <3>1. PICK n \in DOMAIN hit : r = hit[n]
      BY <2>1 DEF Elements
    <3>2. Pending[HitAt][n] = r.cmd /\ n \in DOMAIN Pending[HitAt]
      BY <3>1, PendingAt DEF CommandsOf
    <3> QED BY <3>2
  <2>2. CASE r \in Elements(responses)
    <3>1. PICK n \in DOMAIN responses : r = responses[n]
      BY <2>2 DEF Elements
    <3>2. Pending[ResponsesAt][n] = r.cmd /\ n \in DOMAIN Pending[ResponsesAt]
      BY <3>1, PendingAt DEF CommandsOf
    <3> QED BY <3>2
  <2> QED BY <2>1, <2>2 DEF Queued
<1>5. r.cmd \in Commands /\ r.cmd.hart \in Harts
  <2>1. r.cmd \in Commands
    BY <1>2, <1>3
  <2> QED BY <2>1 DEF Commands
<1>6. r.cmd \in Contents(Spots, Pending)
  BY <1>4, <1>5, SpotsApart DEF Contents
<1> QED
  BY <1>1, <1>3, <1>4, <1>5, <1>6 DEF ServiceInv

\* A command that is not answered yet shares its channel with no answer.
LEMMA ChannelsApart ==
    ASSUME L2Inv, NEW r \in Queued, NEW s \in Spots \ {HitAt, ResponsesAt},
           NEW n \in DOMAIN Pending[s]
    PROVE  Channel(Pending[s][n]) # Channel(r.cmd)
<1>1. PICK t \in {HitAt, ResponsesAt} :
         \E k \in DOMAIN Pending[t] : Pending[t][k] = r.cmd
  BY QueuedFacts
<1>2. t \in Spots /\ t # s /\ DistinctIn(Spots, Pending)
  BY InvParts, SpotsApart DEF ServiceInv
<1> QED
  BY <1>1, <1>2 DEF DistinctIn

\* The command of a cacheable line that writes.
LEMMA WriterFacts ==
    ASSUME NEW c \in Commands, Legal(c), Waits(c), ServedOK(c),
           c.err = "none", CoherentWrite(c)
    PROVE  /\ c.source = "DCACHE" /\ c.op \in {"WRITE", "SC"}
           /\ c.line \in Lines \ DeviceLines /\ c.hart \in Harts
           /\ c.op = "WRITE" => /\ stores[c.hart] # << >>
                                /\ Head(stores[c.hart]).line = c.line
                                /\ Head(stores[c.hart]).data = c.data
           /\ c.op = "SC" => /\ stores[c.hart] = << >>
                             /\ mshr[c.hart].state = "free"
                             /\ marked[c.hart].state = "sc_send"
                             /\ marked[c.hart].line = c.line
<1>1. c.hart \in Harts /\ c.line \in Lines /\ c.source \in Sources
      /\ c.op \in {"WRITE", "SC"} /\ c.cacheable
  BY DEF Commands, CoherentWrite, OpWrites
<1>2. c.source = "DCACHE" /\ c.line \notin DeviceLines
  BY <1>1 DEF Legal, Sources
<1> QED
  BY <1>1, <1>2 DEF Waits, ServedOK

\* A store of a hart and its copies: the copy is not below the store, and no
\* miss of the line is in flight.
LEMMA StoredLine ==
    ASSUME PrivateTypeOK, NEW h \in Harts, NEW v, CacheValue(h, v), NEW l,
           stores[h] # << >>, Head(stores[h]).line = l
    PROVE  /\ Hits(stores[h], l) # {}
           /\ ~(mshr[h].state # "free" /\ mshr[h].line = l)
<1>1. stores[h] \in Seq(StoreEntries)
  BY CacheTypes
<1>2. 1 \in Hits(stores[h], l)
  BY <1>1 DEF Hits
<1> QED
  BY <1>2 DEF CacheValue, MissApart

\* The line of a write that nobody else holds or is answered changes: what is
\* known of the caches and of the answers is as true of its new value.
LEMMA Overwritten ==
    ASSUME L2Inv, NEW v, NEW w, ValuesOK(v),
           NEW s \in Spots \ {HitAt, ResponsesAt},
           NEW n \in DOMAIN Pending[s], NEW c, c = Pending[s][n],
           c.err = "none", CoherentWrite(c),
           \A h \in Harts : HoldsD(h, c.line) => h = c.hart,
           \A r \in Queued : DRead(r.cmd) => r.cmd.line # c.line,
           \A l \in Lines : l # c.line => w[l] = v[l]
    PROVE  HartsOK(w) /\ AnswersOK(w)
<1>1. /\ L2TypeOK /\ ServiceInv /\ PrivateTypeOK
      /\ Pending \in [Spots -> Seq(Commands)]
  BY InvParts, PendingType DEF TypeOK
<1>2. /\ c \in Commands /\ c \in Contents(Spots, Pending)
      /\ Legal(c) /\ Waits(c) /\ ServedOK(c)
  BY <1>1 DEF ServiceInv, Contents, ValuesOK, AllServed
<1>3. /\ c.source = "DCACHE" /\ c.op \in {"WRITE", "SC"}
      /\ c.line \in Lines \ DeviceLines /\ c.hart \in Harts
      /\ c.op = "WRITE" => /\ stores[c.hart] # << >>
                           /\ Head(stores[c.hart]).line = c.line
      /\ c.op = "SC" => /\ stores[c.hart] = << >>
                        /\ mshr[c.hart].state = "free"
                        /\ marked[c.hart].state = "sc_send"
                        /\ marked[c.hart].line = c.line
  BY <1>2, WriterFacts
<1>4. \A h \in Harts : CacheValue(h, v)
  BY DEF ValuesOK, HartsOK
<1>5. ASSUME NEW h \in Harts, HoldsD(h, c.line)
      PROVE  /\ h = c.hart /\ c.op = "WRITE"
             /\ Hits(stores[h], c.line) # {}
             /\ ~(mshr[h].state = "complete" /\ mshr[h].line = c.line)
  <2>1. h = c.hart
    BY <1>5
  <2>2. c.op # "SC"
    BY <1>1, <1>3, <1>5, <2>1, AccessFacts DEF ServiceInv, HoldsD
  <2> QED BY <1>1, <1>3, <1>4, <2>1, <2>2, StoredLine
<1>6. HartsOK(w)
  <2> SUFFICES ASSUME NEW h \in Harts PROVE CacheValue(h, w)
    BY DEF HartsOK
  <2>1. mshr[h].line \in Lines
    BY <1>1, CacheTypes
  <2>2. \A l \in Lines :
           \/ w[l] = v[l]
           \/ /\ dcache[h][l] # Absent => Hits(stores[h], l) # {}
              /\ ~(mshr[h].state = "complete" /\ mshr[h].line = l)
    BY <1>5 DEF HoldsD
  <2> QED BY <1>4, <2>1, <2>2, CacheWritten
<1>7. AnswersOK(w)
  <2> SUFFICES ASSUME NEW r \in Queued PROVE AnswerOK(r, w)
    BY DEF AnswersOK
  <2>1. /\ r.cmd \in Commands /\ Legal(r.cmd) /\ Waits(r.cmd)
        /\ AnswerOK(r, v) /\ Channel(c) # Channel(r.cmd)
        /\ r.cmd.line \in Lines
    BY QueuedFacts, ChannelsApart DEF ValuesOK, AnswersOK, Commands
  <2>2. CASE r.cmd.line # c.line
    BY <2>1, <2>2 DEF AnswerOK
  <2>3. CASE r.cmd.line = c.line
    <3>1. ~DRead(r.cmd)
      BY <2>3
    <3>2. r.cmd.source = "DCACHE" /\ r.cmd.cacheable => r.cmd.op # "READ"
      BY <3>1 DEF DRead, PrivateFill, IsRead
    <3>3. ASSUME r.cmd.source = "DCACHE", r.cmd.cacheable, r.cmd.op = "WRITE",
                 HoldsD(r.cmd.hart, c.line)
          PROVE  FALSE
      <4>1. r.cmd.hart = c.hart /\ c.op = "WRITE"
        BY <1>5, <3>3, <2>1 DEF Commands
      <4>2. r.cmd.cacheable = c.cacheable
        BY <1>2, <2>1, <3>3 DEF CoherentWrite, Commands
      <4> QED BY <1>3, <2>1, <3>3, <4>1, <4>2 DEF Channel
    <3> QED BY <2>1, <2>3, <3>2, <3>3 DEF AnswerOK
  <2> QED BY <2>2, <2>3
<1> QED
  BY <1>6, <1>7
-----------------------------------------------------------------------------
(* What a step keeps of the value invariant.                                 *)

LEMMA PrivateSame ==
    ASSUME UNCHANGED privateVars, NEW v
    PROVE  /\ \A h, l : HoldsD(h, l)' <=> HoldsD(h, l)
           /\ HartsOK(v) => HartsOK(v)'
           /\ \A r : AnswerOK(r, v) => AnswerOK(r, v)'
           /\ \A c : ServedOK(c) => ServedOK(c)'
<1>1. UNCHANGED <<dcache, icache, fetch, stores, mshr, marked, lr_value>>
  BY DEF privateVars
<1>2. \A h, l : HoldsD(h, l)' <=> HoldsD(h, l)
  BY <1>1 DEF HoldsD
<1>3. HartsOK(v) => HartsOK(v)'
  <2>1. \A h \in Harts : HartSame(h)
    BY <1>1 DEF HartSame
  <2>2. \A h \in Harts : CacheValue(h, v) => CacheValue(h, v)'
    BY <2>1, CacheFrame
  <2> QED BY <2>2 DEF HartsOK
<1>4. \A r : AnswerOK(r, v) => AnswerOK(r, v)'
  BY <1>2 DEF AnswerOK
<1>5. \A c : ServedOK(c) => ServedOK(c)'
  BY <1>1 DEF ServedOK
<1> QED
  BY <1>2, <1>3, <1>4, <1>5

LEMMA AnsweredSame ==
    (UNCHANGED responses) => \A h : LrAnswered(h)' <=> LrAnswered(h)
  BY DEF LrAnswered, Elements

LEMMA ReservedKept ==
    ASSUME NEW h, NEW v, NEW w, Reserved(h, v),
           \/ reservation'[h] = NoLine
           \/ /\ reservation'[h] = reservation[h]
              /\ w[reservation[h]] = v[reservation[h]],
           marked'[h] = marked[h], lr_value'[h] = lr_value[h],
           LrAnswered(h)' <=> LrAnswered(h)
    PROVE  Reserved(h, w)'
<1>1. LrPending(h)' <=> LrPending(h)
  BY DEF LrPending
<1> QED
  BY <1>1 DEF Reserved

LEMMA MshrKept ==
    ASSUME NEW m, NEW k, NEW v, NEW w, WriteApart(m, v), WrittenOK(m, v),
           k.cacheable <=> m.cacheable,
           k.bypass <=> m.bypass,
           k.line = m.line,
           m.cacheable =>
              /\ Head(k.waiters) = Head(m.waiters)
              /\ Head(m.waiters).hart \in Harts
              /\ m.bypass => Len(k.waiters) = Len(m.waiters)
              /\ w[m.line] = v[m.line]
              /\ Writing(k) => Writing(m)
              /\ m.bypass /\ k.state = "REPLAY" => m.state = "REPLAY"
              /\ m.bypass /\ HoldsD(Head(m.waiters).hart, m.line)'
                    => HoldsD(Head(m.waiters).hart, m.line),
           m.cacheable /\ Writing(m) /\ Writing(k) =>
              /\ \A h \in Harts : HoldsD(h, m.line)' => HoldsD(h, m.line)
              /\ \A h \in Harts : Revoking(m, h) =>
                    Revoking(k, h) \/ ~HoldsD(h, m.line)
              /\ \A h \in Harts : reservation'[h] = m.line =>
                    reservation[h] = m.line
              /\ \A r \in Queued' : DRead(r.cmd) /\ r.cmd.line = m.line =>
                    r \in Queued
              /\ Head(m.waiters).op = "SC" =>
                    lr_value'[Head(m.waiters).hart]
                       = lr_value[Head(m.waiters).hart]
    PROVE  WriteApart(k, w)' /\ WrittenOK(k, w)'
<1>1. WrittenOK(k, w)'
  BY DEF WrittenOK
<1>2. ASSUME Writing(k) PROVE WriteApart(k, w)'
  <2>1. m.cacheable /\ Writing(m)
    BY <1>2 DEF Writing
  <2>2. /\ \A h \in Harts : reservation'[h] # m.line
        /\ \A r \in Queued' : DRead(r.cmd) => r.cmd.line # m.line
        /\ \A h \in Harts : HoldsD(h, m.line)' =>
              h = Head(m.waiters).hart \/ Revoking(k, h)
        /\ Head(m.waiters).op = "SC" =>
              lr_value'[Head(m.waiters).hart] = w[m.line]
    BY <1>2, <2>1 DEF WriteApart
  <2> QED BY <2>1, <2>2 DEF WriteApart, Writing, Revoking, DRead, PrivateFill, IsRead
<1>3. ASSUME ~Writing(k) PROVE WriteApart(k, w)'
  BY <1>3 DEF WriteApart, Writing
<1> QED
  BY <1>1, <1>2, <1>3

\* The command an MSHR works on.
LEMMA WorkFacts ==
    ASSUME L2Inv, NEW i \in Busy
    PROVE  LET c == Head(l2mshr[i].waiters)
           IN  /\ c \in Commands /\ c.hart \in Harts
               /\ c \in Contents(Spots, Pending) /\ Legal(c) /\ Waits(c)
               /\ c.line = l2mshr[i].line /\ c.err = "none"
               /\ c.cacheable <=> l2mshr[i].cacheable
               /\ MshrAt(i) \in Spots \ {HitAt, ResponsesAt}
               /\ 1 \in DOMAIN Pending[MshrAt(i)]
               /\ Pending[MshrAt(i)][1] = c
               /\ i \in MshrIds
<1> DEFINE m == l2mshr[i]
           c == Head(m.waiters)
<1>1. /\ i \in MshrIds /\ m \in L2Mshrs /\ MshrShape(m) /\ m.state # "IDLE"
      /\ ServiceInv
  BY WorkedLine, InvParts
<1>2. m.waiters # << >>
  BY <1>1 DEF MshrShape
<1>3. c \in Commands /\ c = m.waiters[1] /\ 1 \in DOMAIN m.waiters
  BY <1>1, <1>2, FirstWaiter
<1>4. /\ MshrAt(i) \in Spots \ {HitAt, ResponsesAt}
      /\ Pending[MshrAt(i)] = m.waiters
  BY <1>1, SpotsApart, PendingAt
<1>5. c \in Contents(Spots, Pending) /\ c.hart \in Harts
  BY <1>3, <1>4 DEF Contents, Commands
<1>6. c.line = m.line /\ c.err = "none" /\ (c.cacheable <=> m.cacheable)
  BY <1>1, <1>3 DEF MshrShape, WaitersOK
<1> HIDE DEF c, m
<1> QED
  BY <1>1, <1>3, <1>4, <1>5, <1>6 DEF ServiceInv, c, m

LEMMA ServedKept ==
    ASSUME AllServed, UNCHANGED privateVars,
           \A c : c \in Contents(Spots, Pending') => c \in Contents(Spots, Pending)
    PROVE  AllServed'
<1>1. \A c : ServedOK(c) => ServedOK(c)'
  BY PrivateSame
<1> QED
  BY <1>1 DEF AllServed

\* The command of an MSHR stays first, and its write is no further back.
Working(m, k) ==
    /\ k.cacheable <=> m.cacheable
    /\ k.bypass <=> m.bypass
    /\ k.line = m.line
    /\ Head(k.waiters) = Head(m.waiters)
    /\ m.bypass => Len(k.waiters) = Len(m.waiters)
    /\ k.state # m.state => m.state # "REPLAY"
    /\ m.bypass /\ k.state = "REPLAY" => m.state = "REPLAY"

StillRevoking(m, k) ==
    \A h \in Harts : Revoking(m, h) => Revoking(k, h) \/ ~HoldsD(h, m.line)

\* A step keeps the value of the MSHR's line, and nobody comes to reserve or to
\* read a line that is to be written.
LineKept(m, v, w) ==
    m.cacheable =>
        /\ w[m.line] = v[m.line]
        /\ Writing(m) =>
              /\ \A h \in Harts : reservation'[h] = m.line =>
                    reservation[h] = m.line
              /\ \A r \in Queued' : DRead(r.cmd) /\ r.cmd.line = m.line =>
                    r \in Queued

LEMMA WorkingWrites ==
    ASSUME NEW m, NEW k, Working(m, k), Writing(k)
    PROVE  Writing(m)
  BY DEF Working, Writing

LEMMA WorkKept ==
    ASSUME L2Inv, NEW v, NEW w, ValuesOK(v), UNCHANGED privateVars,
           NEW i \in Busy, NEW m, m = l2mshr[i], NEW k, k = l2mshr'[i],
           Working(m, k), StillRevoking(m, k), LineKept(m, v, w)
    PROVE  WriteApart(k, w)' /\ WrittenOK(k, w)'
<1> DEFINE c == Head(m.waiters)
<1>1. c.hart \in Harts /\ c.line = m.line /\ m.line \in Lines
  BY WorkFacts DEF Commands
<1>2. WriteApart(m, v) /\ WrittenOK(m, v)
  BY DEF ValuesOK, WritesOK
<1>3. \A h : HoldsD(h, m.line)' => HoldsD(h, m.line)
  BY PrivateSame
<1>4. UNCHANGED lr_value
  BY DEF privateVars
<1>6. Writing(k) => Writing(m)
  BY WorkingWrites
<1>7. /\ k.cacheable <=> m.cacheable
      /\ k.bypass <=> m.bypass
      /\ k.line = m.line /\ Head(k.waiters) = Head(m.waiters)
      /\ m.bypass => Len(k.waiters) = Len(m.waiters)
      /\ m.bypass /\ k.state = "REPLAY" => m.state = "REPLAY"
      /\ \A h \in Harts : Revoking(m, h) => Revoking(k, h) \/ ~HoldsD(h, m.line)
  BY DEF Working, StillRevoking
<1>8. m.cacheable => w[m.line] = v[m.line]
  BY DEF LineKept
<1>9. m.cacheable /\ Writing(m) =>
         /\ \A h \in Harts : reservation'[h] = m.line => reservation[h] = m.line
         /\ \A r \in Queued' : DRead(r.cmd) /\ r.cmd.line = m.line => r \in Queued
  BY DEF LineKept
<1> QED
  BY <1>1, <1>2, <1>3, <1>4, <1>6, <1>7, <1>8, <1>9, MshrKept

LEMMA StatesKept ==
    ASSUME L2Inv, NEW v, ValuesOK(v),
           UNCHANGED <<privateVars, hit, responses, reservation>>,
           \A c : c \in Contents(Spots, Pending') => c \in Contents(Spots, Pending),
           \A i \in Busy' : /\ i \in Busy
                            /\ Working(l2mshr[i], l2mshr'[i])
                            /\ StillRevoking(l2mshr[i], l2mshr'[i])
    PROVE  ValuesOK(v)'
<1>1. HartsOK(v)' /\ AllServed' /\ AnswersOK(v)'
  <2>1. \A r \in Queued' : r \in Queued
    BY DEF Queued, Elements
  <2> QED BY <2>1, PrivateSame, ServedKept DEF ValuesOK, AnswersOK
<1>2. ReservedOK(v)'
  <2> SUFFICES ASSUME NEW h \in Harts PROVE Reserved(h, v)'
    BY DEF ReservedOK
  <2>1. Reserved(h, v) /\ (LrAnswered(h)' <=> LrAnswered(h))
        /\ UNCHANGED <<marked, lr_value>>
    BY AnsweredSame DEF ValuesOK, ReservedOK, privateVars
  <2> QED BY <2>1, ReservedKept
<1>3. WritesOK(v)'
  <2>1. ASSUME NEW i \in Busy', NEW k, k = l2mshr'[i]
        PROVE  WriteApart(k, v)' /\ WrittenOK(k, v)'
    <3>1. PICK m : m = l2mshr[i]
      OBVIOUS
    <3>2. LineKept(m, v, v)
      BY DEF LineKept, Queued, Elements
    <3> QED BY <2>1, <3>1, <3>2, WorkKept
  <2> QED BY <2>1 DEF WritesOK
<1> QED
  BY <1>1, <1>2, <1>3 DEF ValuesOK

LEMMA MshrsSame ==
    (UNCHANGED l2mshr) =>
        \A i \in Busy' : /\ i \in Busy
                         /\ Working(l2mshr[i], l2mshr'[i])
                         /\ StillRevoking(l2mshr[i], l2mshr'[i])
  BY DEF Busy, Working, StillRevoking, Revoking

LEMMA IdleValues ==
    ASSUME L2Inv, NEW v, ValuesOK(v),
           \/ \E n \in 1 .. COMMAND_ENTRIES : WriteBeat(n)
           \/ Capture
           \/ \E h \in Harts : ProbeStep(h)
           \/ UNCHANGED vars
    PROVE  ValuesOK(v)'
<1>1. UNCHANGED <<privateVars, hit, responses, reservation, l2mshr>>
  BY DEF WriteBeat, Capture, ProbeStep, vars, l2Vars
<1>2. \A c : c \in Contents(Spots, Pending') => c \in Contents(Spots, Pending)
  <2>1. L2TypeOK /\ ServiceInv
    BY InvParts
  <2>2. CASE Capture
    <3>1. \A Q : Moves(Spots, Pending, Q, CmdsAt, LookupAt) =>
             \A d : d \in Contents(Spots, Q) <=> d \in Contents(Spots, Pending)
      BY <2>1, PendingType, SpotsApart, MovesKeeps DEF ServiceInv
    <3> QED BY <2>1, <2>2, <3>1, CaptureMoves
  <2>3. CASE ~Capture
    <3>1. CommandsOf(cmds') = CommandsOf(cmds) /\ UNCHANGED lookup
      <4>1. CASE UNCHANGED <<cmds, lookup>>
        BY <4>1 DEF CommandsOf
      <4>2. ASSUME NEW n \in 1 .. COMMAND_ENTRIES, WriteBeat(n)
            PROVE  CommandsOf(cmds') = CommandsOf(cmds) /\ UNCHANGED lookup
        <5> DEFINE C == [cmd: Commands, beat: BOOLEAN]
                   e == [cmds[n] EXCEPT !.beat = TRUE]
        <5>1. cmds \in Seq(C) /\ n \in DOMAIN cmds
              /\ cmds' = [cmds EXCEPT ![n] = e] /\ UNCHANGED lookup
          BY <2>1, <4>2, QueueTypes DEF WriteBeat
        <5>2. cmds[n] \in C
          <6> HIDE DEF C, e
          <6> QED BY <5>1, ElementOfSeq
        <5>3. e.cmd = cmds[n].cmd
          BY <5>2
        <5> HIDE DEF e, C
        <5>4. /\ DOMAIN cmds' = DOMAIN cmds
              /\ \A m \in DOMAIN cmds : cmds'[m].cmd = cmds[m].cmd
          BY <5>1, <5>3
        <5> QED BY <5>1, <5>4 DEF CommandsOf
      <4> QED BY <2>3, <4>1, <4>2 DEF ProbeStep, vars, l2Vars
    <3>2. Pending' = Pending
      BY <1>1, <3>1, NothingMoves
    <3> QED BY <3>2
  <2> QED BY <2>2, <2>3
<1> QED
  BY <1>1, <1>2, MshrsSame, StatesKept

\* An MSHR goes from one state to another.
LEMMA StateValues ==
    ASSUME L2Inv, NEW v, ValuesOK(v),
           UNCHANGED <<privateVars, cmds, lookup, hit, responses, reservation>>,
           NEW i \in MshrIds, NEW st \in L2MshrStates, NEW m, m = l2mshr[i],
           l2mshr' = [l2mshr EXCEPT ![i].state = st],
           m.state \notin {"IDLE", "REPLAY"}, m.bypass => st # "REPLAY",
           \A h \in Harts : Revoking(m, h) =>
              st \in ProbeStates \/ ~HoldsD(h, m.line)
    PROVE  ValuesOK(v)'
<1> DEFINE k == [m EXCEPT !.state = st]
<1>1. m \in L2Mshrs /\ l2mshr \in [MshrIds -> L2Mshrs]
  BY InvParts, MshrRegisters DEF L2TypeOK
<1>2. /\ k.state = st /\ k.bypass = m.bypass /\ k.cacheable = m.cacheable
      /\ k.line = m.line /\ k.waiters = m.waiters
      /\ k.targets = m.targets /\ k.coh_action = m.coh_action
  BY <1>1 DEF L2Mshrs
<1>3. l2mshr' = [l2mshr EXCEPT ![i] = k]
  OBVIOUS
<1> HIDE DEF k
<1>4. l2mshr'[i] = k /\ \A j \in MshrIds : j # i => l2mshr'[j] = l2mshr[j]
  BY <1>1, <1>3
<1>5. \A c : c \in Contents(Spots, Pending') => c \in Contents(Spots, Pending)
  <2>1. \A j \in MshrIds : l2mshr'[j].waiters = l2mshr[j].waiters
    BY <1>2, <1>4
  <2>2. Pending' = Pending
    BY <2>1, NothingMoves
  <2> QED BY <2>2
<1>6. Working(m, k) /\ StillRevoking(m, k)
  BY <1>2 DEF Working, StillRevoking, Revoking
<1>7. ASSUME NEW j \in Busy'
      PROVE  /\ j \in Busy
             /\ Working(l2mshr[j], l2mshr'[j])
             /\ StillRevoking(l2mshr[j], l2mshr'[j])
  <2>1. CASE j = i
    BY <1>4, <1>6, <2>1 DEF Busy
  <2>2. CASE j # i
    <3>1. j \in MshrIds /\ l2mshr'[j] = l2mshr[j] /\ j \in Busy
      BY <1>4, <2>2 DEF Busy
    <3>2. \A n : Working(n, n) /\ StillRevoking(n, n)
      BY DEF Working, StillRevoking
    <3> QED BY <3>1, <3>2
  <2> QED BY <2>1, <2>2
<1> QED
  BY <1>5, <1>7, StatesKept

LEMMA ProbeValues ==
    ASSUME L2Inv, TrackInv, NEW v, ValuesOK(v),
           ProbeStart \/ ProbeComplete \/ \E i \in MshrIds : BusRequest(i)
    PROVE  ValuesOK(v)'
<1>1. UNCHANGED <<privateVars, cmds, lookup, hit, responses, reservation>>
  BY DEF ProbeStart, ProbeComplete, BusRequest
<1>2. CASE ProbeStart
  <2> DEFINE i == First(NeedProbe)
  <2>1. /\ i \in MshrIds /\ l2mshr[i].state = "NEED_PROBE"
        /\ l2mshr' = [l2mshr EXCEPT ![i].state = "PROBE_INFLIGHT"]
    BY <1>2, FirstMshr DEF ProbeStart, NeedProbe
  <2> HIDE DEF i
  <2>2. PICK m : m = l2mshr[i]
    OBVIOUS
  <2>3. "PROBE_INFLIGHT" \in L2MshrStates /\ "PROBE_INFLIGHT" \in ProbeStates
    BY DEF L2MshrStates, ProbeStates
  <2> QED BY <1>1, <2>1, <2>2, <2>3, StateValues
<1>3. ASSUME NEW i \in MshrIds, BusRequest(i) PROVE ValuesOK(v)'
  <2>1. PICK a \in BusActions :
           /\ l2mshr[i].state = NeedState(a)
           /\ l2mshr' = [l2mshr EXCEPT ![i].state = InflightState(a)]
    BY <1>3 DEF BusRequest
  <2>2. PICK m, st : m = l2mshr[i] /\ st = InflightState(a)
    OBVIOUS
  <2>3. /\ m.state \in {"NEED_WB", "NEED_FILL", "NEED_BYPASS"}
        /\ st \in L2MshrStates /\ st # "REPLAY"
    BY <2>1, <2>2, BusStates DEF BusActions, L2MshrStates
  <2>4. \A h \in Harts : ~Revoking(m, h)
    BY <2>3 DEF Revoking, ProbeStates
  <2> QED BY <1>1, <2>1, <2>2, <2>3, <2>4, StateValues
<1>4. CASE ProbeComplete
  <2>1. PICK m : m = l2mshr[active_probe]
    OBVIOUS
  <2>2. /\ active_probe \in ProbingIds /\ active_probe \in MshrIds
        /\ m.state = "PROBE_INFLIGHT" /\ m \in L2Mshrs /\ MshrShape(m)
        /\ ProbeEntryOK(m)
        /\ "D" \in m.mask => \A h \in m.targets : ~HoldsD(h, m.probe_line)
    BY <1>4, <2>1, CompleteHolders
  <2>3. l2mshr' = [l2mshr EXCEPT ![active_probe].state = m.post]
    BY <1>4, <2>1 DEF ProbeComplete
  <2>4. m.post \in L2MshrStates /\ (m.bypass => m.post # "REPLAY")
    BY <2>2 DEF MshrShape, L2Mshrs, ProbeStates
  <2>5. \A h \in Harts : Revoking(m, h) => ~HoldsD(h, m.line)
    BY <2>2 DEF Revoking, ProbeEntryOK, RevokeOK
  <2> QED BY <1>1, <2>1, <2>2, <2>3, <2>4, <2>5, StateValues
<1> QED
  BY <1>2, <1>3, <1>4

\* The MSHRs that a step leaves alone.
LEMMA OthersKept ==
    ASSUME L2Inv, NEW v, NEW w, ValuesOK(v), UNCHANGED privateVars,
           NEW j \in Busy, NEW m, m = l2mshr[j], l2mshr'[j] = m,
           LineKept(m, v, w)
    PROVE  WriteApart(m, w)' /\ WrittenOK(m, w)'
<1>1. Working(m, m) /\ StillRevoking(m, m)
  BY DEF Working, StillRevoking
<1> QED
  BY <1>1, WorkKept

\* The write around the array is done, or the line is there to be replayed.
LEMMA BusValues ==
    ASSUME MemoryWorks, L2Inv, L2Inv', ArrayInv, ArrayInv', BusResponse,
           NEW v, v = LineValue, ValuesOK(v), NEW w, w = LineValue'
    PROVE  ValuesOK(w)'
<1>1. PICK i, a, m : i = Head(bus).mshr /\ a = Head(bus).action /\ m = l2mshr[i]
  OBVIOUS
<1>2. /\ L2TypeOK /\ MshrInv /\ BusInv /\ bus # << >>
      /\ UNCHANGED <<privateVars, cmds, lookup, hit, responses, reservation>>
      /\ CurrentOK /\ CurrentOK' /\ NoFailure'
  <2>1. CurrentOK /\ CurrentOK'
    BY CurrentHolds, PTL
  <2> QED BY <2>1, InvParts DEF BusResponse, ArrayInv
<1>3. /\ i \in MshrIds /\ m \in L2Mshrs /\ MshrShape(m)
      /\ m.state = InflightState(a)
      /\ m.state \in {"WB_INFLIGHT", "FILL_INFLIGHT", "BYPASS_INFLIGHT"}
  BY <1>1, <1>2, BusHead
<1>4. i \in Busy /\ m.line \in Lines
  BY <1>1, <1>3, MshrRegisters, <1>2 DEF Busy
<1>5. PICK k : /\ l2mshr' = [l2mshr EXCEPT ![i] = k]
               /\ k.bypass = m.bypass /\ k.cacheable = m.cacheable
               /\ k.line = m.line /\ k.waiters = m.waiters
               /\ k.state \in {"ERROR", "NEED_FILL", "REPLAY"}
               /\ a = "BYPASS" => k.state \in {"ERROR", "REPLAY"}
  <2> DEFINE n(error) ==
               IF error THEN [m EXCEPT !.state = "ERROR"]
               ELSE IF a = "WB" THEN [m EXCEPT !.state = "NEED_FILL"]
               ELSE [m EXCEPT !.state = "REPLAY", !.data = mem[m.line]]
  <2>1. PICK error \in BOOLEAN : l2mshr' = [l2mshr EXCEPT ![i] = n(error)]
    BY <1>1 DEF BusResponse
  <2>2. /\ n(error).bypass = m.bypass /\ n(error).cacheable = m.cacheable
        /\ n(error).line = m.line /\ n(error).waiters = m.waiters
        /\ n(error).state \in {"ERROR", "NEED_FILL", "REPLAY"}
        /\ a = "BYPASS" => n(error).state \in {"ERROR", "REPLAY"}
    BY <1>3 DEF L2Mshrs
  <2> HIDE DEF n
  <2> QED BY <2>1, <2>2
<1>6. /\ l2mshr'[i] = k
      /\ \A j \in MshrIds : j # i => l2mshr'[j] = l2mshr[j]
      /\ \A j \in Busy' : j \in MshrIds /\ (j # i => j \in Busy)
      /\ i \in Busy'
  <2>1. l2mshr'[i] = k /\ \A j \in MshrIds : j # i => l2mshr'[j] = l2mshr[j]
    BY <1>2, <1>3, <1>5 DEF L2TypeOK
  <2> QED BY <1>3, <1>5, <2>1 DEF Busy
<1>7. IF m.bypass /\ m.cacheable /\ OpWrites(Head(m.waiters).op)
      THEN w = [v EXCEPT ![m.line] = Head(m.waiters).data]
      ELSE w = v
  BY <1>1, <1>2, BusValue
<1>8. AllServed'
  <2>1. \A j \in MshrIds : l2mshr'[j].waiters = l2mshr[j].waiters
    BY <1>1, <1>5, <1>6
  <2>2. Pending' = Pending
    BY <1>2, <2>1, NothingMoves
  <2> QED BY <1>2, <2>2, ServedKept DEF ValuesOK
<1>9. /\ \A r \in Queued' : r \in Queued
      /\ \A h : LrAnswered(h)' <=> LrAnswered(h)
      /\ UNCHANGED <<marked, lr_value>>
  BY <1>2, AnsweredSame DEF Queued, Elements, privateVars
<1>10. ASSUME HartsOK(w), AnswersOK(w),
              \A h \in Harts : reservation[h] # NoLine =>
                 w[reservation[h]] = v[reservation[h]],
              \A j \in Busy : j # i /\ l2mshr[j].cacheable =>
                 w[l2mshr[j].line] = v[l2mshr[j].line],
              WriteApart(k, w)' /\ WrittenOK(k, w)'
       PROVE  ValuesOK(w)'
  <2>1. HartsOK(w)' /\ AnswersOK(w)'
    BY <1>2, <1>9, <1>10, PrivateSame DEF AnswersOK
  <2>2. ReservedOK(w)'
    <3> SUFFICES ASSUME NEW h \in Harts PROVE Reserved(h, w)'
      BY DEF ReservedOK
    <3>1. Reserved(h, v) /\ reservation'[h] = reservation[h]
      BY <1>2 DEF ValuesOK, ReservedOK
    <3> QED BY <1>9, <1>10, <3>1, ReservedKept
  <2>3. ASSUME NEW j \in Busy', NEW n, n = l2mshr'[j]
        PROVE  WriteApart(n, w)' /\ WrittenOK(n, w)'
    <3>1. CASE j = i
      BY <1>6, <1>10, <2>3, <3>1
    <3>2. CASE j # i
      <4>1. j \in Busy /\ n = l2mshr[j] /\ l2mshr'[j] = n
        BY <1>6, <2>3, <3>2
      <4>2. LineKept(n, v, w)
        BY <1>2, <1>9, <1>10, <3>2, <4>1 DEF LineKept
      <4>3. UNCHANGED privateVars
        BY <1>2
      <4> QED BY <4>1, <4>2, <4>3, OthersKept
    <3> QED BY <3>1, <3>2
  <2> QED BY <1>8, <2>1, <2>2, <2>3 DEF ValuesOK, WritesOK
<1>11. CASE ~(m.bypass /\ m.cacheable /\ OpWrites(Head(m.waiters).op))
  <2>1. w = v /\ HartsOK(v) /\ AnswersOK(v) /\ WrittenOK(m, v)
    BY <1>1, <1>4, <1>7, <1>11 DEF ValuesOK, WritesOK
  <2>2. WriteApart(k, v)' /\ WrittenOK(k, v)'
    <3>1. CASE ~m.cacheable
      BY <1>5, <3>1 DEF WriteApart, Writing, WrittenOK
    <3>2. CASE m.cacheable
      <4>1. ~m.bypass
        BY <1>11, <2>1, <3>2 DEF WrittenOK, OpWrites
      <4>2. Working(m, k) /\ StillRevoking(m, k)
        BY <1>3, <1>5, <4>1 DEF Working, StillRevoking, Revoking, ProbeStates
      <4>3. LineKept(m, v, v)
        BY <1>2, <1>9 DEF LineKept
      <4> QED BY <1>1, <1>2, <1>4, <1>6, <4>2, <4>3, WorkKept
    <3> QED BY <3>1, <3>2
  <2> QED BY <1>10, <2>1, <2>2
<1>12. CASE m.bypass /\ m.cacheable /\ OpWrites(Head(m.waiters).op)
  <2> DEFINE c == Head(m.waiters)
  <2>1. /\ WriteApart(m, v) /\ WrittenOK(m, v) /\ Writing(m)
        /\ \A h \in Harts : ~Revoking(m, h)
    BY <1>1, <1>3, <1>4, <1>12 DEF ValuesOK, WritesOK, Writing, Revoking, ProbeStates
  <2>2. /\ c \in Commands /\ c.hart \in Harts /\ c.line = m.line
        /\ c.err = "none" /\ c.cacheable
        /\ MshrAt(i) \in Spots \ {HitAt, ResponsesAt}
        /\ 1 \in DOMAIN Pending[MshrAt(i)] /\ c = Pending[MshrAt(i)][1]
    BY <1>1, <1>4, <1>12, WorkFacts
  <2>3. \A l \in Lines : l # m.line => w[l] = v[l]
    BY <1>7, <1>12 DEF LineValue
  <2>4. w[m.line] = c.data
    BY <1>4, <1>7, <1>12, WorkedLine, <1>1 DEF LineValue
  <2> HIDE DEF c
  <2>5. HartsOK(w) /\ AnswersOK(w)
    BY <1>12, <2>1, <2>2, <2>3, Overwritten DEF CoherentWrite, WriteApart, c
  <2>6. \A h \in Harts : reservation[h] # NoLine =>
           w[reservation[h]] = v[reservation[h]]
    BY <1>2, <2>1, <2>3 DEF WriteApart, L2TypeOK
  <2>7. \A j \in Busy : j # i /\ l2mshr[j].cacheable =>
           w[l2mshr[j].line] = v[l2mshr[j].line]
    BY <1>1, <1>2, <1>4, <1>12, <2>3, WorkedLine DEF MshrInv
  <2>8. k.state = "REPLAY"
    <3>1. a = "BYPASS"
      BY <1>1, <1>2, <1>3, <1>12, BusHead DEF MshrShape
    <3> QED BY <1>5, <1>6, <1>12, <3>1, <1>2 DEF NoFailure
  <2>9. WriteApart(k, w)' /\ WrittenOK(k, w)'
    BY <1>5, <1>12, <2>1, <2>4, <2>8 DEF WriteApart, Writing, WrittenOK, c
  <2> QED BY <1>10, <2>5, <2>6, <2>7, <2>9
<1> QED
  BY <1>11, <1>12

\* An answer enters the response FIFO.
LEMMA EnqueueReserves ==
    ASSUME L2TypeOK, NEW v, NEW w, ReservedOK(v), UNCHANGED <<marked, lr_value>>,
           NEW r \in Responses, Enqueue(r), Legal(r.cmd), Waits(r.cmd),
           r.cmd.op = "LR" => ~r.error,
           \A h \in Harts : reservation[h] # NoLine =>
              w[reservation[h]] = v[reservation[h]]
    PROVE  /\ ReservedOK(w)'
           /\ \A h \in Harts : \/ reservation'[h] = reservation[h]
                               \/ r.cmd.op = "LR" /\ reservation'[h] = r.cmd.line
           /\ \A x : x \in Elements(responses') <=> x \in Elements(responses) \/ x = r
<1>1. /\ responses \in Seq(Responses) /\ responses' = Append(responses, r)
      /\ reservation \in [Harts -> Lines \cup {NoLine}]
      /\ reservation' = ReservationAtEnqueue(r)
  BY QueueTypes DEF Enqueue, L2TypeOK
<1>2. \A x : x \in Elements(responses') <=> x \in Elements(responses) \/ x = r
  BY <1>1, ElementsOf
<1>3. \A h \in Harts : reservation'[h] =
         IF r.cmd.op = "LR" /\ ~r.error /\ h = r.cmd.hart THEN r.cmd.line
         ELSE reservation[h]
  BY <1>1 DEF ReservationAtEnqueue
<1>4. ASSUME NEW h \in Harts PROVE Reserved(h, w)'
  <2>1. Reserved(h, v)
    BY DEF ReservedOK
  <2>2. CASE r.cmd.op = "LR" /\ h = r.cmd.hart
    <3>1. r.cmd.source = "DCACHE" /\ r.cmd.line \in AtomicLines
      BY <2>2 DEF Legal
    <3>2. marked'[h].line = r.cmd.line /\ reservation'[h] = r.cmd.line
      BY <1>3, <2>2, <3>1 DEF Waits
    <3>3. LrAnswered(h)'
      BY <1>2, <2>2 DEF LrAnswered
    <3> QED BY <3>1, <3>2, <3>3 DEF Reserved, LrPending
  <2>3. CASE ~(r.cmd.op = "LR" /\ h = r.cmd.hart)
    <3>1. LrAnswered(h)' <=> LrAnswered(h)
      BY <1>2, <2>3 DEF LrAnswered
    <3>2. reservation'[h] = reservation[h]
      BY <1>3, <2>3
    <3> QED BY <2>1, <3>1, <3>2, ReservedKept
  <2> QED BY <2>2, <2>3
<1> QED
  BY <1>2, <1>3, <1>4 DEF ReservedOK

LEMMA HitEnqueueValues ==
    ASSUME L2Inv, NEW v, ValuesOK(v), HitEnqueue
    PROVE  ValuesOK(v)'
<1>1. PICK r : r = Head(hit)
  OBVIOUS
<1>2. /\ L2TypeOK /\ ServiceInv /\ hit # << >> /\ hit \in Seq(Responses)
      /\ Len(hit) <= 1 /\ hit' = << >> /\ Enqueue(r) /\ UNCHANGED l2mshr
      /\ UNCHANGED privateVars
  BY <1>1, InvParts, QueueTypes DEF HitEnqueue, L2TypeOK
<1>3. r \in Queued /\ r \in Responses /\ Legal(r.cmd) /\ Waits(r.cmd)
  <2>1. r \in Queued
    BY <1>1, <1>2, ElementsOf DEF Queued
  <2> QED BY <2>1, QueuedFacts
<1>4. r.cmd.op = "LR" => ~r.error /\ DRead(r.cmd)
  <2>1. AnswerOK(r, v)
    BY <1>3 DEF ValuesOK, AnswersOK
  <2>2. r.cmd.op = "LR" => r.cmd.source = "DCACHE" /\ r.cmd.cacheable
    BY <1>3, AccessAssumption DEF Legal
  <2> QED BY <2>1, <2>2 DEF AnswerOK, DRead, PrivateFill, IsRead
<1>5. /\ ReservedOK(v)'
      /\ \A h \in Harts : \/ reservation'[h] = reservation[h]
                          \/ r.cmd.op = "LR" /\ reservation'[h] = r.cmd.line
      /\ \A x : x \in Elements(responses') <=> x \in Elements(responses) \/ x = r
  <2>1. ReservedOK(v) /\ UNCHANGED <<marked, lr_value>>
    BY <1>2 DEF ValuesOK, privateVars
  <2> QED BY <1>2, <1>3, <1>4, <2>1, EnqueueReserves
<1>6. \A x \in Queued' : x \in Queued
  <2>1. \A x : x \notin Elements(<< >>)
    BY DEF Elements
  <2>2. \A x \in Queued' : x \in Elements(hit') \/ x \in Elements(responses')
    BY DEF Queued
  <2> QED BY <1>2, <1>3, <1>5, <2>1, <2>2 DEF Queued
<1>7. AllServed'
  <2>1. \A Q : Moves(Spots, Pending, Q, HitAt, ResponsesAt) =>
           \A d : d \in Contents(Spots, Q) <=> d \in Contents(Spots, Pending)
    BY <1>2, PendingType, SpotsApart, MovesKeeps DEF ServiceInv
  <2> QED BY <1>2, <2>1, HitEnqueueMoves, ServedKept DEF ValuesOK
<1>8. HartsOK(v)' /\ AnswersOK(v)'
  BY <1>2, <1>6, PrivateSame DEF ValuesOK, AnswersOK
<1>9. ASSUME NEW j \in Busy', NEW m, m = l2mshr'[j]
      PROVE  WriteApart(m, v)' /\ WrittenOK(m, v)'
  <2>1. j \in Busy /\ m = l2mshr[j] /\ l2mshr'[j] = m
    BY <1>2, <1>9 DEF Busy
  <2>2. WriteApart(m, v)
    BY <2>1 DEF ValuesOK, WritesOK
  <2>3. LineKept(m, v, v)
    BY <1>3, <1>4, <1>5, <1>6, <2>2 DEF LineKept, WriteApart
  <2> QED BY <1>2, <2>1, <2>3, OthersKept
<1> QED
  BY <1>5, <1>7, <1>8, <1>9 DEF ValuesOK, WritesOK

\* The head of the tail is the second element.
LEMMA SecondFirst ==
    ASSUME NEW S, NEW s \in Seq(S), s # << >>, Len(s) # 1
    PROVE  2 \in DOMAIN s /\ Head(Tail(s)) = s[2]
<1>1. DOMAIN s = 1 .. Len(s) /\ Len(s) \in Nat /\ Len(s) # 0
  OBVIOUS
<1>2. /\ DOMAIN Tail(s) = 1 .. (Len(s) - 1)
      /\ \A n \in 1 .. (Len(s) - 1) : Tail(s)[n] = s[n + 1]
  BY <1>1
<1>3. 1 \in 1 .. (Len(s) - 1) /\ 2 \in 1 .. Len(s)
  BY <1>1
<1>4. Head(Tail(s)) = Tail(s)[1] /\ Tail(s)[1] = s[1 + 1] /\ 1 + 1 = 2
  BY <1>2, <1>3
<1> QED
  BY <1>1, <1>3, <1>4

LEMMA ReplayedFirst ==
    ASSUME NEW m \in L2Mshrs, MshrShape(m), m.waiters # << >>,
           Len(m.waiters) # 1,
           NEW k, k = [m EXCEPT !.waiters = Tail(@), !.data = ReplayData(m)]
    PROVE  /\ k.bypass = m.bypass /\ k.cacheable = m.cacheable
           /\ k.line = m.line /\ ~OpWrites(Head(k.waiters).op)
<1>1. /\ k.bypass = m.bypass /\ k.cacheable = m.cacheable
      /\ k.line = m.line /\ k.waiters = Tail(m.waiters)
  BY DEF L2Mshrs
<1>2. m.waiters \in Seq(Commands)
  BY DEF L2Mshrs
<1>3. 2 \in DOMAIN m.waiters /\ Head(Tail(m.waiters)) = m.waiters[2]
  BY ONLY <1>2, m.waiters # << >>, Len(m.waiters) # 1, SecondFirst
<1>4. ~OpWrites(m.waiters[2].op)
  BY <1>3 DEF MshrShape, WaitersOK
<1> QED
  BY <1>1, <1>3, <1>4

\* A replay answers with the value of the line, which its write has become.
LEMMA ReplayAnswer ==
    ASSUME L2Inv, ArrayInv, NEW v, v = LineValue, ValuesOK(v),
           NEW i \in Busy, NEW m, m = l2mshr[i], ReplayReady(m),
           NEW w, ReplayWrites(m) => w[m.line] = Head(m.waiters).data,
           ~ReplayWrites(m) => w = v
    PROVE  AnswerOK(ReplayResponse(m), w)
<1> DEFINE c == Head(m.waiters)
           r == ReplayResponse(m)
<1>1. /\ r.cmd = c /\ r.error = ReplayError(m)
      /\ r.data = IF IsRead(c) /\ ~ReplayError(m) THEN m.data ELSE InitValue
  BY DEF ReplayResponse
<1>2. /\ c \in Commands /\ c.hart \in Harts /\ c.line = m.line
      /\ c.cacheable <=> m.cacheable
  BY WorkFacts
<1>3. /\ m.line \in Lines /\ m.line \notin DeviceLines <=> m.cacheable
      /\ i \in MshrIds /\ MshrShape(m) /\ m.state \in {"REPLAY", "ERROR"}
  BY WorkedLine DEF ReplayReady
<1>4. WrittenOK(m, v) /\ NoFailure
  BY ArrayParts DEF ValuesOK, WritesOK
<1> HIDE DEF c, r
<1>5. CASE m.cacheable
  <2>1. m.state = "REPLAY" /\ ~ReplayError(m)
    BY <1>3, <1>4, <1>5 DEF NoFailure, ReplayError
  <2>2. c.op = "READ" => r.data = w[m.line]
    <3> SUFFICES ASSUME c.op = "READ" PROVE r.data = w[m.line]
      OBVIOUS
    <3>1. ~m.bypass /\ ~ReplayWrites(m)
      BY <1>4, <1>5 DEF WrittenOK, ReplayWrites, OpWrites, c
    <3>2. i \in Holders /\ Replaying(m)
      BY <2>1, <3>1 DEF Holders, Replaying, Phase, ProbeStates
    <3>3. m.data = Current(m.line)
      BY <3>2, HolderCurrent
    <3>4. v[m.line] = Current(m.line)
      BY <1>3, <1>5 DEF LineValue
    <3> QED BY <1>1, <2>1, <3>1, <3>3, <3>4 DEF IsRead
  <2>3. c.op = "WRITE" /\ HoldsD(c.hart, m.line) => c.data = w[m.line]
    <3>1. CASE m.bypass
      BY <1>4, <1>5, <2>1, <3>1 DEF WrittenOK, ReplayWrites, c
    <3>2. CASE ~m.bypass
      BY <2>1, <3>2 DEF ReplayWrites, OpWrites, c
    <3> QED BY <3>1, <3>2
  <2> QED BY <1>1, <1>2, <2>1, <2>2, <2>3 DEF AnswerOK, r
<1>6. CASE ~m.cacheable
  BY <1>1, <1>2, <1>6 DEF AnswerOK, r
<1> QED
  BY <1>5, <1>6 DEF r

\* An MSHR answers its first waiter.
LEMMA ReplayValues ==
    ASSUME L2Inv, ArrayInv, CurrentOK, CurrentOK', NEW i \in MshrIds, Replay(i),
           NEW v, v = LineValue, ValuesOK(v), NEW w, w = LineValue'
    PROVE  ValuesOK(w)'
<1>1. PICK m, r : m = l2mshr[i] /\ r = ReplayResponse(m)
  OBVIOUS
<1>2. /\ L2TypeOK /\ ServiceInv /\ MshrInv /\ ReplayReady(m) /\ i \in Busy
      /\ hit = << >> /\ Enqueue(r)
      /\ UNCHANGED privateVars /\ UNCHANGED <<cmds, lookup, hit>>
  <2>1. L2TypeOK /\ ServiceInv /\ MshrInv /\ ReplayReady(m)
    BY <1>1, InvParts DEF Replay
  <2>2. i \in Busy
    BY <1>1, <2>1, HolderFacts DEF ReplayReady
  <2> QED BY <1>1, <2>1, <2>2 DEF Replay
<1>3. /\ m \in L2Mshrs /\ MshrShape(m) /\ m.waiters # << >> /\ m.line \in Lines
      /\ m.line \notin DeviceLines <=> m.cacheable
      /\ ~m.bypass => m.cacheable
      /\ r \in Responses /\ r.cmd = Head(m.waiters)
  <2>1. m \in L2Mshrs /\ MshrShape(m) /\ m.waiters # << >> /\ m.line \in Lines
    BY <1>1, <1>2, WorkedLine DEF MshrShape
  <2> QED BY <1>1, <1>2, <2>1, WorkedLine, ReplayResponseType
<1>4. /\ r.cmd \in Commands /\ Legal(r.cmd) /\ Waits(r.cmd)
      /\ r.cmd.line = m.line /\ r.cmd.err = "none"
      /\ r.cmd.cacheable <=> m.cacheable
      /\ MshrAt(i) \in Spots \ {HitAt, ResponsesAt}
      /\ 1 \in DOMAIN Pending[MshrAt(i)] /\ r.cmd = Pending[MshrAt(i)][1]
  BY <1>1, <1>2, <1>3, WorkFacts
<1>5. r.cmd.op = "LR" => m.cacheable /\ ~r.error
  <2>1. r.cmd.op = "LR" => m.cacheable
    BY <1>4, AccessAssumption DEF Legal
  <2>2. m.cacheable => m.state # "ERROR"
    BY <1>1, <1>2, ArrayParts DEF NoFailure
  <2>3. r.error = (m.state = "ERROR")
    BY <1>1 DEF ReplayResponse, ReplayError
  <2> QED BY <2>1, <2>2, <2>3
<1>6. IF ReplayWrites(m) THEN w = [v EXCEPT ![m.line] = r.cmd.data] ELSE w = v
  BY <1>1, <1>3, ReplayValue
<1>7. PICK k :
         /\ l2mshr' = [l2mshr EXCEPT ![i] = k] /\ k.waiters = Tail(m.waiters)
         /\ \/ k.state = "IDLE"
            \/ /\ k.bypass = m.bypass /\ k.cacheable = m.cacheable
               /\ ~OpWrites(Head(k.waiters).op) /\ Len(m.waiters) # 1
  <2> DEFINE n == [m EXCEPT !.waiters = Tail(@), !.data = ReplayData(m)]
             k == IF Len(m.waiters) = 1 THEN FreeL2Mshr ELSE n
  <2>1. l2mshr' = [l2mshr EXCEPT ![i] = k]
    BY <1>1 DEF Replay
  <2>2. k.waiters = Tail(m.waiters)
    BY <1>2, <1>3, ReplayedMshr
  <2>3. k.state = "IDLE" \/ /\ k.bypass = m.bypass /\ k.cacheable = m.cacheable
                            /\ ~OpWrites(Head(k.waiters).op) /\ Len(m.waiters) # 1
    <3>1. CASE Len(m.waiters) = 1
      BY <3>1 DEF FreeL2Mshr
    <3>2. CASE Len(m.waiters) # 1
      BY <1>3, <3>2, ReplayedFirst
    <3> QED BY <3>1, <3>2
  <2> HIDE DEF k
  <2> QED BY <2>1, <2>2, <2>3
<1>8. /\ l2mshr'[i] = k
      /\ \A j \in MshrIds : j # i => l2mshr'[j] = l2mshr[j]
  BY <1>2, <1>7 DEF L2TypeOK
<1>9. ReplayWrites(m) =>
         /\ Writing(m) /\ CoherentWrite(r.cmd)
         /\ \A h \in Harts : reservation[h] # m.line
         /\ \A x \in Queued : DRead(x.cmd) => x.cmd.line # m.line
         /\ \A h \in Harts : HoldsD(h, m.line) => h = r.cmd.hart
  <2> SUFFICES ASSUME ReplayWrites(m)
               PROVE  /\ Writing(m) /\ CoherentWrite(r.cmd)
                      /\ \A h \in Harts : reservation[h] # m.line
                      /\ \A x \in Queued : DRead(x.cmd) => x.cmd.line # m.line
                      /\ \A h \in Harts : HoldsD(h, m.line) => h = r.cmd.hart
    OBVIOUS
  <2>1. Writing(m) /\ CoherentWrite(r.cmd)
    BY <1>3, <1>4 DEF ReplayWrites, Writing, CoherentWrite
  <2>2. WriteApart(m, v) /\ \A h \in Harts : ~Revoking(m, h)
    BY <1>1, <1>2
       DEF ValuesOK, WritesOK, Revoking, ProbeStates, ReplayReady
  <2> QED BY <1>3, <2>1, <2>2 DEF WriteApart
<1>10. \A l \in Lines : l # m.line \/ ~ReplayWrites(m) => w[l] = v[l]
  BY <1>6 DEF LineValue
<1>11. HartsOK(w) /\ AnswersOK(w)
  <2>1. CASE ~ReplayWrites(m)
    BY <1>6, <2>1 DEF ValuesOK
  <2>2. CASE ReplayWrites(m)
    BY <1>4, <1>9, <1>10, <2>2, Overwritten
  <2> QED BY <2>1, <2>2
<1>12. /\ ReservedOK(w)'
       /\ \A h \in Harts : \/ reservation'[h] = reservation[h]
                           \/ r.cmd.op = "LR" /\ reservation'[h] = r.cmd.line
       /\ \A x : x \in Elements(responses') <=> x \in Elements(responses) \/ x = r
  <2>1. ReservedOK(v) /\ UNCHANGED <<marked, lr_value>>
    BY <1>2 DEF ValuesOK, privateVars
  <2>2. \A h \in Harts : reservation[h] # NoLine =>
           w[reservation[h]] = v[reservation[h]]
    BY <1>2, <1>9, <1>10 DEF L2TypeOK
  <2>3. r.cmd.op = "LR" => ~r.error
    BY <1>5
  <2> QED BY ONLY <1>2, <1>3, <1>4, <2>1, <2>2, <2>3, EnqueueReserves
<1>13. \A x \in Queued' : x \in Queued \/ x = r
  BY <1>2, <1>12 DEF Queued
<1>14. AnswersOK(w)' /\ HartsOK(w)'
  <2>1. AnswerOK(r, w)
    <3>1. ReplayWrites(m) => w[m.line] = Head(m.waiters).data
      BY <1>3, <1>6 DEF LineValue
    <3>2. ~ReplayWrites(m) => w = v
      BY <1>6
    <3> QED BY <1>1, <1>2, <3>1, <3>2, ReplayAnswer
  <2> QED BY <1>2, <1>11, <1>13, <2>1, PrivateSame DEF AnswersOK
<1>15. AllServed'
  <2>1. \A Q : Moves(Spots, Pending, Q, MshrAt(i), ResponsesAt) =>
           \A d : d \in Contents(Spots, Q) <=> d \in Contents(Spots, Pending)
    BY <1>2, PendingType, SpotsApart, MovesKeeps DEF ServiceInv
  <2>2. responses' = Append(responses, r)
    BY <1>2 DEF Enqueue
  <2>3. Moves(Spots, Pending, Pending', MshrAt(i), ResponsesAt)
    BY <1>1, <1>2, <1>3, <1>7, <1>8, <2>2, ReplayMoves
  <2> QED BY <1>2, <2>1, <2>3, ServedKept DEF ValuesOK
<1>16. ASSUME NEW j \in Busy', NEW n, n = l2mshr'[j]
       PROVE  WriteApart(n, w)' /\ WrittenOK(n, w)'
  <2>1. CASE j = i
    <3>1. /\ n = k /\ k.bypass = m.bypass /\ k.cacheable = m.cacheable
          /\ ~OpWrites(Head(k.waiters).op) /\ Len(m.waiters) # 1
      BY <1>7, <1>8, <1>16, <2>1, HolderFactsNext
    <3>2. ~(m.bypass /\ m.cacheable)
      BY <1>1, <1>2, <3>1 DEF ValuesOK, WritesOK, WrittenOK
    <3> QED BY <3>1, <3>2 DEF WriteApart, Writing, WrittenOK
  <2>2. CASE j # i
    <3>1. j \in Busy /\ n = l2mshr[j] /\ l2mshr'[j] = n
      BY <1>8, <1>16, <2>2 DEF Busy
    <3>2. m.cacheable /\ n.cacheable => n.line # m.line
      BY <1>1, <1>2, <2>2, <3>1 DEF MshrInv
    <3>3. n.line \in Lines
      BY <3>1, WorkedLine
    <3>4. n.cacheable => w[n.line] = v[n.line]
      BY <1>3, <1>10, <3>2, <3>3 DEF ReplayWrites
    <3>5. n.cacheable =>
             /\ \A h \in Harts : reservation'[h] = n.line =>
                   reservation[h] = n.line
             /\ \A x \in Queued' : DRead(x.cmd) /\ x.cmd.line = n.line =>
                   x \in Queued
      BY <1>4, <1>5, <1>12, <1>13, <3>2 DEF DRead, PrivateFill
    <3>6. LineKept(n, v, w)
      BY <3>4, <3>5 DEF LineKept
    <3> QED BY <1>2, <3>1, <3>6, OthersKept
  <2> QED BY <2>1, <2>2
<1> QED
  BY <1>12, <1>14, <1>15, <1>16 DEF ValuesOK, WritesOK
-----------------------------------------------------------------------------
(* The dispatch of a command.                                                *)

\* A dispatch takes reservations away, and a write takes all of its line.
LEMMA DispatchReservations ==
    ASSUME L2Inv, Dispatch
    PROVE  /\ \A h \in Harts : reservation'[h] \in {NoLine, reservation[h]}
           /\ Cmd.err = "none" /\ CoherentWrite(Cmd) /\ ~ScFailed =>
                 \A h \in Harts : reservation'[h] # Cmd.line
           /\ UNCHANGED <<privateVars, responses, mem, marked, lr_value>>
           /\ \A h : LrAnswered(h)' <=> LrAnswered(h)
<1>1. /\ lookup # << >> /\ reservation' = ReservationAtDispatch
      /\ UNCHANGED <<privateVars, responses, mem>>
      /\ Cmd.line \in Lines /\ NoLine \notin Lines
  BY InvParts, CmdFacts, LinesAssumption DEF Dispatch
<1>2. \A h \in Harts : reservation'[h] \in {NoLine, reservation[h]}
  BY <1>1 DEF ReservationAtDispatch
<1>3. Cmd.err = "none" /\ CoherentWrite(Cmd) /\ ~ScFailed =>
         \A h \in Harts : reservation'[h] # Cmd.line
  BY <1>1 DEF ReservationAtDispatch
<1> QED
  BY <1>1, <1>2, <1>3, AnsweredSame DEF privateVars

LEMMA DispatchReserved ==
    ASSUME L2Inv, Dispatch, NEW v, NEW w, ReservedOK(v),
           \A l \in Lines :
              \/ w[l] = v[l]
              \/ /\ l = Cmd.line /\ Cmd.err = "none" /\ CoherentWrite(Cmd)
                 /\ ~ScFailed
    PROVE  ReservedOK(w)'
<1>1. /\ \A h \in Harts : reservation'[h] \in {NoLine, reservation[h]}
      /\ Cmd.err = "none" /\ CoherentWrite(Cmd) /\ ~ScFailed =>
            \A h \in Harts : reservation'[h] # Cmd.line
      /\ UNCHANGED <<marked, lr_value>>
      /\ \A h : LrAnswered(h)' <=> LrAnswered(h)
  BY DispatchReservations
<1>2. reservation \in [Harts -> Lines \cup {NoLine}]
  BY InvParts DEF L2TypeOK
<1> SUFFICES ASSUME NEW h \in Harts PROVE Reserved(h, w)'
  BY DEF ReservedOK
<1>3. Reserved(h, v)
  BY DEF ReservedOK
<1>4. \/ reservation'[h] = NoLine
      \/ /\ reservation'[h] = reservation[h]
         /\ w[reservation[h]] = v[reservation[h]]
  BY <1>1, <1>2
<1> QED
  BY <1>1, <1>3, <1>4, ReservedKept

\* A write at its dispatch: the recorded sharers hold the line, no read of it is
\* on its way to an L1D, and an SC finds the value that its LR returned.
LEMMA WriterAlone ==
    ASSUME L2Inv, TrackInv, Dispatch, NEW v, ValuesOK(v),
           Cmd.err = "none", CoherentWrite(Cmd), ~ScFailed
    PROVE  /\ \A h \in Harts : HoldsD(h, Cmd.line) =>
                 h = Cmd.hart \/ h \in WriteProbeTargets
           /\ \A r \in Queued : DRead(r.cmd) => r.cmd.line # Cmd.line
           /\ Cmd.op = "SC" => lr_value[Cmd.hart] = v[Cmd.line]
<1>1. /\ L2TypeOK /\ ServiceInv /\ DirectoryTypeOK /\ lookup # << >>
      /\ ~PendingFillSetLocked /\ Tracked /\ DirectoryInv
      /\ NoLine \notin Lines
  BY InvParts, LinesAssumption DEF Dispatch, TrackInv
<1>2. /\ Cmd \in Commands /\ Cmd.hart \in Harts /\ Cmd.line \in Lines
      /\ Legal(Cmd) /\ Waits(Cmd) /\ SetOf[Cmd.line] \in Sets
  BY <1>1, CmdFacts
<1>3. ASSUME NEW h \in Harts, HoldsD(h, Cmd.line)
      PROVE  h = Cmd.hart \/ h \in WriteProbeTargets
  <2>1. PICK w \in MatchingWays(Cmd.line) : h \in dir[SetOf[Cmd.line]][w].d
    BY <1>1, <1>2, <1>3 DEF Tracked, Needed, RecordedD
  <2>2. LookupHit(Cmd.line)
    BY <2>1 DEF LookupHit
  <2>3. LookupWay(Cmd.line) \in MatchingWays(Cmd.line)
    BY <1>1, <1>2, <2>2, LookupWays
  <2>4. LookupWay(Cmd.line) = w
    BY <1>1, <1>2, <2>1, <2>3 DEF DirectoryInv, MatchingWays
  <2> QED BY <2>1, <2>2, <2>4 DEF WriteProbeTargets
<1>4. ASSUME NEW r \in Queued, DRead(r.cmd), r.cmd.line = Cmd.line
      PROVE  FALSE
  <2>1. ~r.error /\ PrivateFill(r.cmd)
    BY <1>4 DEF ValuesOK, AnswersOK, AnswerOK, DRead, PrivateFill
  <2> QED BY <1>1, <1>4, <2>1 DEF PendingFillSetLocked, Queued
<1>5. ASSUME Cmd.op = "SC" PROVE lr_value[Cmd.hart] = v[Cmd.line]
  <2>1. /\ Cmd.source = "DCACHE" /\ marked[Cmd.hart].state = "sc_send"
        /\ reservation[Cmd.hart] = Cmd.line
    BY <1>2, <1>5 DEF Legal, Waits, ScFailed, ScReservationMatch
  <2>2. ~LrAnswered(Cmd.hart)
    <3> SUFFICES ASSUME NEW r \in Elements(responses), r.cmd.op = "LR",
                        r.cmd.hart = Cmd.hart
                 PROVE  FALSE
      BY DEF LrAnswered
    <3>1. Legal(r.cmd) /\ Waits(r.cmd)
      BY QueuedFacts DEF Queued
    <3> QED BY <2>1, <3>1 DEF Legal, Waits
  <2>3. Reserved(Cmd.hart, v) /\ reservation[Cmd.hart] # NoLine
    BY <1>1, <1>2, <2>1 DEF ValuesOK, ReservedOK
  <2> QED BY <2>1, <2>2, <2>3 DEF Reserved, LrPending
<1> QED
  BY <1>3, <1>4, <1>5

\* The command is answered from the hit stage.
LEMMA AnsweredValues ==
    ASSUME L2Inv, Dispatch, NEW v, NEW w, ValuesOK(v),
           NEW r \in Responses, r.cmd = Cmd, hit = << >>, hit' = <<r>>,
           UNCHANGED l2mshr,
           HartsOK(w), AnswersOK(w), AnswerOK(r, w), ReservedOK(w)',
           \A j \in Busy : l2mshr[j].cacheable =>
              w[l2mshr[j].line] = v[l2mshr[j].line],
           DRead(Cmd) => \A j \in Busy : l2mshr[j].cacheable =>
                            l2mshr[j].line # Cmd.line
    PROVE  ValuesOK(w)'
<1>1. /\ L2TypeOK /\ ServiceInv /\ lookup # << >> /\ lookup' = << >>
      /\ UNCHANGED <<privateVars, cmds, responses>>
      /\ \A h \in Harts : reservation'[h] \in {NoLine, reservation[h]}
      /\ NoLine \notin Lines
  BY InvParts, DispatchReservations, LinesAssumption DEF Dispatch
<1>2. \A x \in Queued' : x \in Queued \/ x = r
  <2>1. \A x \in Elements(<<r>>) : x = r
    BY DEF Elements
  <2> QED BY <1>1, <2>1 DEF Queued, Elements
<1>3. HartsOK(w)' /\ AnswersOK(w)'
  <2>1. \A x : AnswerOK(x, w) => AnswerOK(x, w)'
    BY <1>1, PrivateSame
  <2>2. \A x \in Queued' : AnswerOK(x, w)
    BY <1>2 DEF AnswersOK
  <2> QED BY <1>1, <2>1, <2>2, PrivateSame DEF AnswersOK
<1>4. AllServed'
  <2>1. \A Q : Moves(Spots, Pending, Q, LookupAt, HitAt) =>
           \A d : d \in Contents(Spots, Q) <=> d \in Contents(Spots, Pending)
    BY <1>1, PendingType, SpotsApart, MovesKeeps DEF ServiceInv
  <2>2. Moves(Spots, Pending, Pending', LookupAt, HitAt)
    BY <1>1, HitMoves
  <2> QED BY <1>1, <2>1, <2>2, ServedKept DEF ValuesOK
<1>5. ASSUME NEW j \in Busy', NEW n, n = l2mshr'[j]
      PROVE  WriteApart(n, w)' /\ WrittenOK(n, w)'
  <2>1. j \in Busy /\ n = l2mshr[j] /\ l2mshr'[j] = n
    BY <1>5 DEF Busy
  <2>2. n.line \in Lines
    BY <2>1, WorkedLine
  <2>3. n.cacheable =>
           /\ \A h \in Harts : reservation'[h] = n.line => reservation[h] = n.line
           /\ \A x \in Queued' : DRead(x.cmd) /\ x.cmd.line = n.line =>
                 x \in Queued
    BY <1>1, <1>2, <2>1, <2>2
  <2>4. LineKept(n, v, w)
    BY <2>1, <2>3 DEF LineKept
  <2> QED BY <1>1, <2>1, <2>4, OthersKept
<1> QED
  BY <1>3, <1>4, <1>5 DEF ValuesOK, WritesOK

LEMMA ImmediateValues ==
    ASSUME L2Inv, NEW v, ValuesOK(v), DispatchImmediate
    PROVE  ValuesOK(v)'
<1>1. /\ L2TypeOK /\ ServiceInv /\ Dispatch /\ lookup # << >> /\ Terminates
      /\ ToHit(InitValue) /\ UNCHANGED l2mshr
  BY InvParts DEF DispatchImmediate, Dispatch
<1>2. Cmd \in Commands /\ Legal(Cmd) /\ Cmd.hart \in Harts
  BY <1>1, CmdFacts
<1>3. PICK r : r = [cmd |-> Cmd, data |-> InitValue,
                    error |-> Cmd.err # "none",
                    sc_success |-> Cmd.op = "SC" /\ Cmd.err = "none"
                                   /\ ScReservationMatch]
  OBVIOUS
<1>4. /\ r \in Responses /\ r.cmd = Cmd /\ hit = << >> /\ hit' = <<r>>
      /\ r.error = (Cmd.err # "none")
  BY <1>1, <1>2, <1>3, ValuesAssumption DEF ToHit, Responses
<1>5. ~DRead(Cmd) /\ AnswerOK(r, v)
  BY <1>1, <1>2, <1>4
     DEF Terminates, ScFailed, Legal, DRead, PrivateFill, IsRead, AnswerOK
<1>6. ReservedOK(v)'
  BY <1>1, DispatchReserved DEF ValuesOK
<1> QED
  BY <1>1, <1>4, <1>5, <1>6, AnsweredValues DEF ValuesOK

\* No MSHR works on the line of a command that the hit stage may answer.
LEMMA UnownedLine ==
    ASSUME L2Inv, Unowned
    PROVE  \A j \in Busy : l2mshr[j].cacheable => l2mshr[j].line # Cmd.line
  BY DEF Unowned, MatchingMshrs

\* A dirty victim answers a read with its copy, which is the line's value.
LEMMA VictimHitValues ==
    ASSUME L2Inv, ArrayInv, NEW v, v = LineValue, ValuesOK(v), DispatchVictimHit
    PROVE  ValuesOK(v)'
<1>1. PICK i : i = First(DirtyVictimMshrs)
  OBVIOUS
<1>2. /\ L2TypeOK /\ ServiceInv /\ Dispatch /\ lookup # << >>
      /\ Unowned /\ IsRead(Cmd) /\ ToHit(l2mshr[i].vdata) /\ UNCHANGED l2mshr
      /\ Cmd.cacheable /\ ~Terminates
  BY <1>1, InvParts DEF DispatchVictimHit, Dispatch, Unowned, Cached
<1>3. Cmd \in Commands /\ Legal(Cmd) /\ Cmd.line \in Lines \ DeviceLines
  BY <1>2, CmdFacts DEF Legal
<1>4. i \in DirtyVictimMshrs
  <2>1. DirtyVictimMshrs \in SUBSET MshrIds /\ DirtyVictimMshrs # {}
    BY DEF DirtyVictimMshrs, Busy, DispatchVictimHit
  <2> QED BY <1>1, <2>1, FirstMshr
<1>5. i \in Holders /\ Evicting(l2mshr[i]) /\ l2mshr[i].victim = Cmd.line
  BY <1>4 DEF DirtyVictimMshrs, Holders, Evicting, Phase, ProbeStates
<1>6. l2mshr[i].vdata = v[Cmd.line]
  BY <1>3, <1>5, HolderCurrent DEF LineValue
<1>7. l2mshr[i].vdata \in Values
  BY <1>2, <1>4 DEF L2TypeOK, L2Mshrs, DirtyVictimMshrs, Busy
<1>8. PICK r : r = [cmd |-> Cmd, data |-> l2mshr[i].vdata,
                    error |-> Cmd.err # "none",
                    sc_success |-> Cmd.op = "SC" /\ Cmd.err = "none"
                                   /\ ScReservationMatch]
  OBVIOUS
<1>9. /\ r \in Responses /\ r.cmd = Cmd /\ hit = << >> /\ hit' = <<r>>
      /\ r.error = (Cmd.err # "none") /\ r.data = v[Cmd.line]
  BY <1>2, <1>3, <1>6, <1>7, <1>8 DEF ToHit, Responses
<1>10. AnswerOK(r, v)
  BY <1>2, <1>9 DEF Terminates, AnswerOK, IsRead
<1>11. ReservedOK(v)'
  BY <1>2, DispatchReserved DEF ValuesOK
<1> QED
  BY <1>2, <1>9, <1>10, <1>11, UnownedLine, AnsweredValues DEF ValuesOK

\* A hit answers a read with its way, or writes the way.
LEMMA HitValues ==
    ASSUME L2Inv, ArrayInv, TrackInv, CurrentOK, CurrentOK', DispatchHit,
           NEW v, v = LineValue, ValuesOK(v), NEW w, w = LineValue'
    PROVE  ValuesOK(w)'
<1>1. PICK x, d : /\ x = First(HitWays)
                  /\ d = IF IsRead(Cmd) THEN Row[x].data ELSE InitValue
  OBVIOUS
<1>2. /\ L2TypeOK /\ ServiceInv /\ Dispatch /\ lookup # << >>
      /\ NotVictim /\ Unowned /\ HitWays # {} /\ ~ProbeNeeded
      /\ ToHit(d) /\ UNCHANGED l2mshr
      /\ Cmd.cacheable /\ ~Terminates
  BY <1>1, InvParts DEF DispatchHit, Dispatch, NotVictim, Unowned, Cached
<1>3. /\ Cmd \in Commands /\ Legal(Cmd) /\ Cmd.line \in Lines \ DeviceLines
      /\ Cmd.hart \in Harts /\ lookup = <<Cmd>> /\ Cmd.err = "none" /\ ~ScFailed
  BY <1>2, CmdFacts DEF Legal, Terminates
<1>4. x \in L2Ways /\ Open(L2SetOf[Cmd.line], x, Cmd.line)
  <2>1. x \in TagWays /\ x \in L2Ways
    BY <1>1, <1>2, RowFacts
  <2> QED BY <2>1 DEF TagWays, Open, Row
<1>5. Row[x].data = v[Cmd.line] /\ Row[x].data \in Values
  <2>1. array[L2SetOf[Cmd.line]][x].data = Current(Cmd.line)
    BY <1>3, <1>4, OpenCurrent
  <2>2. array[L2SetOf[Cmd.line]][x] \in L2Entries
    BY <1>2, <1>3, <1>4, WayType, L2Assumption
  <2> QED BY <1>3, <2>1, <2>2 DEF LineValue, Row, L2Entries
<1>6. IF OpWrites(Cmd.op) THEN w = [v EXCEPT ![Cmd.line] = Cmd.data] ELSE w = v
  BY HitValue
<1>7. \A l \in Lines : l # Cmd.line \/ ~OpWrites(Cmd.op) => w[l] = v[l]
  BY <1>6 DEF LineValue
<1>8. PICK r : r = [cmd |-> Cmd, data |-> d, error |-> Cmd.err # "none",
                    sc_success |-> Cmd.op = "SC" /\ Cmd.err = "none"
                                   /\ ScReservationMatch]
  OBVIOUS
<1>9. /\ r \in Responses /\ r.cmd = Cmd /\ hit = << >> /\ hit' = <<r>>
      /\ ~r.error /\ r.data = d
  BY <1>1, <1>2, <1>3, <1>5, <1>8, ValuesAssumption DEF ToHit, Responses
<1>10. AnswerOK(r, w)
  <2>1. Cmd.op = "READ" => r.data = w[Cmd.line]
    BY <1>1, <1>5, <1>6, <1>9 DEF IsRead, OpWrites
  <2>2. Cmd.op = "WRITE" => Cmd.data = w[Cmd.line]
    BY <1>3, <1>6 DEF OpWrites, LineValue
  <2> QED BY <1>9, <2>1, <2>2 DEF AnswerOK
<1>11. HartsOK(w) /\ AnswersOK(w)
  <2>1. CASE ~OpWrites(Cmd.op)
    BY <1>6, <2>1 DEF ValuesOK
  <2>2. CASE OpWrites(Cmd.op)
    <3>1. CoherentWrite(Cmd) /\ WriteProbeTargets = {}
      BY <1>2, <1>3, <2>2 DEF CoherentWrite, ProbeNeeded, WriteProbeNeeded
    <3>2. /\ \A h \in Harts : HoldsD(h, Cmd.line) => h = Cmd.hart
          /\ \A q \in Queued : DRead(q.cmd) => q.cmd.line # Cmd.line
      BY <1>2, <1>3, <3>1, WriterAlone
    <3>3. /\ LookupAt \in Spots \ {HitAt, ResponsesAt}
          /\ 1 \in DOMAIN Pending[LookupAt] /\ Cmd = Pending[LookupAt][1]
      <4>1. 1 \in DOMAIN <<Cmd>> /\ <<Cmd>>[1] = Cmd
        OBVIOUS
      <4> QED BY <1>3, <4>1, SpotsApart, PendingAt
    <3>4. \A l \in Lines : l # Cmd.line => w[l] = v[l]
      BY <1>7
    <3> QED BY <1>3, <3>1, <3>2, <3>3, <3>4, Overwritten
  <2> QED BY <2>1, <2>2
<1>12. ReservedOK(w)'
  <2>1. \A l \in Lines :
           \/ w[l] = v[l]
           \/ /\ l = Cmd.line /\ Cmd.err = "none" /\ CoherentWrite(Cmd)
              /\ ~ScFailed
    BY <1>2, <1>3, <1>7 DEF CoherentWrite
  <2> QED BY <1>2, <2>1, DispatchReserved DEF ValuesOK
<1>13. \A j \in Busy : l2mshr[j].cacheable =>
          /\ l2mshr[j].line # Cmd.line
          /\ w[l2mshr[j].line] = v[l2mshr[j].line]
  BY <1>2, <1>7, UnownedLine, WorkedLine
<1> QED
  BY <1>2, <1>9, <1>10, <1>11, <1>12, <1>13, AnsweredValues

\* The command takes an MSHR.
LEMMA TakenValues ==
    ASSUME L2Inv, TrackInv, Dispatch, NEW v, ValuesOK(v),
           FreeMshrs # {}, NEW k, TakeMshr(k), UNCHANGED hit,
           k.waiters = <<Cmd>>, k.line = Cmd.line,
           k.cacheable <=> Cmd.cacheable, k.state # "REPLAY", ~Terminates,
           k.bypass /\ k.cacheable => Cmd.op = "WRITE",
           CoherentWrite(Cmd) =>
              \/ WriteProbeTargets = {}
              \/ /\ k.state \in ProbeStates /\ k.coh_action = "CLEAR"
                 /\ k.targets = WriteProbeTargets
    PROVE  ValuesOK(v)'
<1>1. PICK t : t = First(FreeMshrs)
  OBVIOUS
<1>2. /\ L2TypeOK /\ ServiceInv /\ MshrInv /\ lookup # << >> /\ lookup' = << >>
      /\ UNCHANGED <<privateVars, cmds, hit, responses>>
      /\ \A h \in Harts : reservation'[h] \in {NoLine, reservation[h]}
      /\ NoLine \notin Lines
  BY InvParts, DispatchReservations, LinesAssumption DEF Dispatch
<1>3. /\ t \in MshrIds /\ t \notin Busy /\ l2mshr[t].waiters = << >>
      /\ l2mshr' = [l2mshr EXCEPT ![t] = k]
  BY <1>1, <1>2, FreeFacts DEF TakeMshr
<1>4. l2mshr'[t] = k /\ \A j \in MshrIds : j # t => l2mshr'[j] = l2mshr[j]
  BY <1>2, <1>3 DEF L2TypeOK
<1>5. Cmd \in Commands /\ Cmd.err = "none" /\ ~ScFailed /\ Cmd.hart \in Harts
  BY <1>2, CmdFacts DEF Terminates
<1>6. \A x \in Queued' : x \in Queued
  BY <1>2 DEF Queued, Elements
<1>7. HartsOK(v)' /\ AnswersOK(v)' /\ ReservedOK(v)'
  BY <1>2, <1>6, PrivateSame, DispatchReserved DEF ValuesOK, AnswersOK
<1>8. AllServed'
  <2>1. \A Q : Moves(Spots, Pending, Q, LookupAt, MshrAt(t)) =>
           \A d : d \in Contents(Spots, Q) <=> d \in Contents(Spots, Pending)
    BY <1>2, <1>3, PendingType, SpotsApart, MovesKeeps DEF ServiceInv
  <2>2. k.waiters = Append(l2mshr[t].waiters, Cmd)
    BY <1>3, <1>5, AppendFirst
  <2>3. Moves(Spots, Pending, Pending', LookupAt, MshrAt(t))
    BY <1>2, <1>3, <2>2, WaiterMoves
  <2> QED BY <1>2, <2>1, <2>3, ServedKept DEF ValuesOK
<1>9. Head(k.waiters) = Cmd /\ Len(k.waiters) = 1
  BY <1>5
<1>10. WriteApart(k, v)' /\ WrittenOK(k, v)'
  <2>1. WrittenOK(k, v)'
    BY <1>9 DEF WrittenOK
  <2>2. ASSUME Writing(k) PROVE WriteApart(k, v)'
    <3>1. CoherentWrite(Cmd)
      BY <1>9, <2>2 DEF Writing, CoherentWrite
    <3>2. /\ \A h \in Harts : HoldsD(h, Cmd.line) =>
                h = Cmd.hart \/ h \in WriteProbeTargets
          /\ \A r \in Queued : DRead(r.cmd) => r.cmd.line # Cmd.line
          /\ Cmd.op = "SC" => lr_value[Cmd.hart] = v[Cmd.line]
      BY <1>5, <3>1, WriterAlone
    <3>3. \A h \in Harts : reservation'[h] # Cmd.line
      BY <1>5, <3>1, DispatchReservations
    <3>4. \A h \in Harts : h \in WriteProbeTargets => Revoking(k, h)
      BY <3>1 DEF Revoking
    <3>5. lr_value' = lr_value
      BY <1>2 DEF privateVars
    <3>6. \A h : HoldsD(h, k.line)' => HoldsD(h, k.line)
      BY <1>2, PrivateSame
    <3>7. /\ \A h \in Harts : reservation'[h] # k.line
          /\ \A r \in Queued' : DRead(r.cmd) => r.cmd.line # k.line
          /\ \A h \in Harts : HoldsD(h, k.line)' =>
                h = Head(k.waiters).hart \/ Revoking(k, h)
          /\ Head(k.waiters).op = "SC" =>
                lr_value'[Head(k.waiters).hart] = v[k.line]
      BY <1>6, <1>9, <3>2, <3>3, <3>4, <3>5, <3>6
    <3> QED BY <3>7 DEF WriteApart, Writing, Revoking, DRead, PrivateFill, IsRead
  <2>3. ASSUME ~Writing(k) PROVE WriteApart(k, v)'
    BY <2>3 DEF WriteApart, Writing
  <2> QED BY <2>1, <2>2, <2>3
<1>11. ASSUME NEW j \in Busy', NEW n, n = l2mshr'[j]
       PROVE  WriteApart(n, v)' /\ WrittenOK(n, v)'
  <2>1. CASE j = t
    BY <1>4, <1>10, <1>11, <2>1
  <2>2. CASE j # t
    <3>1. j \in Busy /\ n = l2mshr[j] /\ l2mshr'[j] = n
      BY <1>4, <1>11, <2>2 DEF Busy
    <3>2. n.line \in Lines
      BY <3>1, WorkedLine
    <3>3. LineKept(n, v, v)
      BY <1>2, <1>6, <3>2 DEF LineKept
    <3> QED BY <1>2, <3>1, <3>3, OthersKept
  <2> QED BY <2>1, <2>2
<1> QED
  BY <1>7, <1>8, <1>11 DEF ValuesOK, WritesOK

LEMMA TakesValues ==
    ASSUME L2Inv, TrackInv, NEW v, ValuesOK(v),
           DispatchBypass \/ DispatchWriteAround \/ DispatchAlloc
    PROVE  ValuesOK(v)'
<1>1. /\ L2TypeOK /\ ServiceInv /\ Dispatch /\ lookup # << >> /\ ~Terminates
      /\ FreeMshrs # {} /\ UNCHANGED hit
  BY InvParts
     DEF DispatchBypass, DispatchWriteAround, DispatchAlloc, Dispatch,
         WritesAround, Misses, NotVictim, Unowned, Cached
<1>2. CASE DispatchBypass \/ DispatchWriteAround
  <2>1. PICK k : k = [NewMshr("NEED_BYPASS") EXCEPT !.bypass = TRUE]
    OBVIOUS
  <2>2. /\ k.state = "NEED_BYPASS" /\ k.line = Cmd.line
        /\ k.cacheable = Cmd.cacheable /\ k.waiters = <<Cmd>> /\ TakeMshr(k)
    BY <1>1, <1>2, <2>1, BypassFields DEF DispatchBypass, DispatchWriteAround
  <2>3. /\ k.cacheable => Cmd.op = "WRITE"
        /\ CoherentWrite(Cmd) => WriteProbeTargets = {}
    BY <1>1, <1>2, <2>2
       DEF DispatchBypass, DispatchWriteAround, WritesAround, ProbeNeeded,
           WriteProbeNeeded, Terminates, CoherentWrite
  <2> QED BY <1>1, <2>2, <2>3, TakenValues
<1>3. CASE DispatchAlloc
  <2>1. PICK k : k = AllocMshr
    OBVIOUS
  <2>2. /\ k.state \in {"NEED_WB", "NEED_FILL"} /\ k.line = Cmd.line
        /\ k.cacheable = Cmd.cacheable /\ k.waiters = <<Cmd>> /\ TakeMshr(k)
        /\ k.bypass = FALSE
    BY <1>1, <1>3, <2>1, AllocMshrFields DEF DispatchAlloc
  <2>3. CoherentWrite(Cmd) => WriteProbeTargets = {}
    BY <1>1, <1>3 DEF DispatchAlloc, ProbeNeeded, WriteProbeNeeded, Terminates
  <2> QED BY <1>1, <2>2, <2>3, TakenValues
<1> QED
  BY <1>2, <1>3

\* The MSHR of a probe: it revokes the other sharers of a line to be written.
LEMMA ProbeTakenValues ==
    ASSUME L2Inv, TrackInv, Dispatch, NEW v, ValuesOK(v), ProbeNeeded,
           FreeMshrs # {}, NEW b \in L2Mshrs, TakeMshr(Probing(b)),
           Cmd.cacheable, ~Terminates, b.waiters = <<Cmd>>, b.line = Cmd.line,
           b.cacheable = Cmd.cacheable, b.bypass => Cmd.op = "WRITE",
           UNCHANGED hit
    PROVE  ValuesOK(v)'
<1>1. PICK k : k = Probing(b)
  OBVIOUS
<1>2. DirectoryTypeOK /\ L2TypeOK /\ ServiceInv /\ lookup # << >>
  BY InvParts DEF Dispatch
<1>3. /\ k.state = "NEED_PROBE" /\ k.waiters = <<Cmd>> /\ k.line = Cmd.line
      /\ k.cacheable = Cmd.cacheable /\ k.bypass = b.bypass
      /\ ~PrivateProbeNeeded =>
            k.coh_action = "CLEAR" /\ k.targets = WriteProbeTargets
  BY <1>1, <1>2, ProbingFields
<1>4. CoherentWrite(Cmd) => ~PrivateProbeNeeded
  BY DEF CoherentWrite, OpWrites, PrivateProbeNeeded, PrivateFill, IsRead
<1>5. TakeMshr(k)
  BY <1>1
<1> QED
  BY <1>3, <1>4, <1>5, TakenValues DEF ProbeStates

LEMMA ProbeDispatchValues ==
    ASSUME L2Inv, TrackInv, NEW v, ValuesOK(v), DispatchProbe
    PROVE  ValuesOK(v)'
<1>1. L2TypeOK /\ ServiceInv /\ Dispatch /\ lookup # << >>
  BY InvParts DEF DispatchProbe, Dispatch
<1>2. ProbeNeeded /\ FreeMshrs # {} /\ UNCHANGED hit
  BY DEF DispatchProbe
<1>3. NotVictim => Cmd.cacheable /\ ~Terminates
  BY DEF NotVictim, Unowned, Cached
<1>4. CASE /\ NotVictim /\ HitWays # {}
           /\ TakeMshr(Probing([NewMshr("REPLAY") EXCEPT
                                  !.way = First(HitWays),
                                  !.data = Row[First(HitWays)].data]))
  <2> DEFINE n == NewMshr("REPLAY")
             w == First(HitWays)
             d == Row[w].data
             b == [n EXCEPT !.way = w, !.data = d]
  <2>1. w \in L2Ways /\ Row[w] \in L2Entries
    BY <1>1, <1>4, RowFacts
  <2>2. d \in Values
    BY <2>1 DEF L2Entries
  <2>3. /\ n \in L2Mshrs /\ n.line = Cmd.line /\ n.waiters = <<Cmd>>
        /\ n.cacheable = Cmd.cacheable /\ n.bypass = FALSE
    BY <1>1, NewMshrFields DEF L2MshrStates
  <2>4. TakeMshr(Probing(b))
    BY <1>4
  <2> HIDE DEF n, w, d
  <2>5. b \in L2Mshrs
    BY <2>1, <2>2, <2>3 DEF L2Mshrs
  <2>6. /\ b.line = Cmd.line /\ b.waiters = <<Cmd>>
        /\ b.cacheable = Cmd.cacheable /\ b.bypass = FALSE
    BY <2>3 DEF L2Mshrs
  <2> HIDE DEF b
  <2> QED BY <1>1, <1>2, <1>3, <1>4, <2>4, <2>5, <2>6, ProbeTakenValues
<1>5. CASE /\ WritesAround
           /\ TakeMshr(Probing([NewMshr("NEED_BYPASS") EXCEPT
                                  !.bypass = TRUE]))
  <2>1. PICK b : b = [NewMshr("NEED_BYPASS") EXCEPT !.bypass = TRUE]
    OBVIOUS
  <2>2. /\ b \in L2Mshrs /\ b.line = Cmd.line /\ b.waiters = <<Cmd>>
        /\ b.cacheable = Cmd.cacheable
    BY <1>1, <2>1, BypassFields
  <2>3. NotVictim /\ Cmd.op = "WRITE"
    BY <1>5 DEF WritesAround, Misses
  <2>4. TakeMshr(Probing(b))
    BY <1>5, <2>1
  <2> QED BY <1>1, <1>2, <1>3, <2>2, <2>3, <2>4, ProbeTakenValues
<1>6. CASE Misses /\ OpenWays # {} /\ TakeMshr(Probing(AllocMshr))
  <2>1. PICK b : b = AllocMshr
    OBVIOUS
  <2>2. /\ b \in L2Mshrs /\ b.line = Cmd.line /\ b.waiters = <<Cmd>>
        /\ b.cacheable = Cmd.cacheable /\ b.bypass = FALSE
    BY <1>1, <1>6, <2>1, AllocMshrFields
  <2>3. NotVictim
    BY <1>6 DEF Misses
  <2>4. TakeMshr(Probing(b))
    BY <1>6, <2>1
  <2> QED BY <1>1, <1>2, <1>3, <2>2, <2>3, <2>4, ProbeTakenValues
<1> QED
  BY <1>4, <1>5, <1>6 DEF DispatchProbe

\* The command joins the MSHR of its line, behind the one it works on.
LEMMA MergeJoins ==
    ASSUME L2Inv, DispatchMerge
    PROVE  \E t, m, k :
              /\ t \in MshrIds /\ m = l2mshr[t] /\ l2mshr' = [l2mshr EXCEPT ![t] = k]
              /\ t \in Busy /\ ~m.bypass /\ m.waiters # << >>
              /\ k.waiters = Append(m.waiters, Cmd)
              /\ k.state = m.state /\ k.bypass = m.bypass
              /\ k.cacheable = m.cacheable /\ k.line = m.line
              /\ k.coh_action = m.coh_action /\ k.targets = m.targets
<1> DEFINE i == First(MatchingMshrs)
           m == l2mshr[i]
           f == m.private_fill \/ PrivateFill(Cmd)
           ai == IF PrivateProbeNeeded THEN m.add_i \cup ISharer ELSE m.add_i
           ad == IF PrivateProbeNeeded THEN m.add_d \cup DSharer ELSE m.add_d
           w == Append(m.waiters, Cmd)
           k == [m EXCEPT !.waiters = w, !.private_fill = f,
                          !.add_i = ai, !.add_d = ad]
<1>1. /\ L2TypeOK /\ MatchingMshrs # {} /\ Mergeable(m)
      /\ l2mshr' = [l2mshr EXCEPT ![i] = k]
  BY InvParts DEF DispatchMerge
<1>2. i \in MatchingMshrs
  <2>1. MatchingMshrs \in SUBSET MshrIds
    BY DEF MatchingMshrs, Busy
  <2> QED BY <1>1, <2>1, FirstMshr
<1> HIDE DEF i
<1>3. i \in MshrIds /\ i \in Busy
  BY <1>2 DEF MatchingMshrs, Busy
<1>4. m \in L2Mshrs /\ m.waiters # << >> /\ ~m.bypass
  BY <1>1, <1>3, WorkedLine DEF MshrShape, Mergeable
<1>5. m = l2mshr[i] /\ w = Append(m.waiters, Cmd)
  OBVIOUS
<1> HIDE DEF m, f, ai, ad, w
<1>6. /\ k.waiters = w /\ k.state = m.state /\ k.bypass = m.bypass
      /\ k.cacheable = m.cacheable /\ k.line = m.line
      /\ k.coh_action = m.coh_action /\ k.targets = m.targets
  BY <1>4 DEF L2Mshrs
<1> HIDE DEF k
<1>7. /\ i \in MshrIds /\ m = l2mshr[i] /\ l2mshr' = [l2mshr EXCEPT ![i] = k]
      /\ i \in Busy /\ ~m.bypass /\ m.waiters # << >>
      /\ k.waiters = Append(m.waiters, Cmd)
      /\ k.state = m.state /\ k.bypass = m.bypass
      /\ k.cacheable = m.cacheable /\ k.line = m.line
      /\ k.coh_action = m.coh_action /\ k.targets = m.targets
  BY <1>1, <1>3, <1>4, <1>5, <1>6
<1> WITNESS i, m, k
<1> QED
  BY <1>7, Zenon

LEMMA MergeValues ==
    ASSUME L2Inv, NEW v, ValuesOK(v), DispatchMerge
    PROVE  ValuesOK(v)'
<1>1. PICK t, m, k :
         /\ t \in MshrIds /\ m = l2mshr[t] /\ l2mshr' = [l2mshr EXCEPT ![t] = k]
         /\ t \in Busy /\ ~m.bypass /\ m.waiters # << >>
         /\ k.waiters = Append(m.waiters, Cmd)
         /\ k.state = m.state /\ k.bypass = m.bypass
         /\ k.cacheable = m.cacheable /\ k.line = m.line
         /\ k.coh_action = m.coh_action /\ k.targets = m.targets
  BY MergeJoins
<1>2. /\ L2TypeOK /\ ServiceInv /\ Dispatch /\ lookup # << >> /\ lookup' = << >>
      /\ UNCHANGED <<privateVars, cmds, hit, responses>>
      /\ \A h \in Harts : reservation'[h] \in {NoLine, reservation[h]}
      /\ NoLine \notin Lines
  <2>1. Dispatch /\ UNCHANGED hit
    BY DEF DispatchMerge
  <2> QED BY <2>1, InvParts, DispatchReservations, LinesAssumption DEF Dispatch
<1>3. l2mshr'[t] = k /\ \A j \in MshrIds : j # t => l2mshr'[j] = l2mshr[j]
  BY <1>1, <1>2 DEF L2TypeOK
<1>4. \A x \in Queued' : x \in Queued
  BY <1>2 DEF Queued, Elements
<1>5. HartsOK(v)' /\ AnswersOK(v)' /\ ReservedOK(v)'
  BY <1>2, <1>4, PrivateSame, DispatchReserved DEF ValuesOK, AnswersOK
<1>6. AllServed'
  <2>1. \A Q : Moves(Spots, Pending, Q, LookupAt, MshrAt(t)) =>
           \A d : d \in Contents(Spots, Q) <=> d \in Contents(Spots, Pending)
    <3>1. t \in MshrIds
      BY <1>1
    <3> QED BY <1>2, <3>1, PendingType, SpotsApart, MovesKeeps DEF ServiceInv
  <2>2. Moves(Spots, Pending, Pending', LookupAt, MshrAt(t))
    BY <1>1, <1>2, WaiterMoves
  <2> QED BY <1>2, <2>1, <2>2, ServedKept DEF ValuesOK
<1>7. Working(m, k) /\ StillRevoking(m, k)
  <2>1. m.waiters \in Seq(Commands) /\ Cmd \in Commands
    BY <1>1, <1>2, QueueTypes, CmdFacts
  <2>2. Head(k.waiters) = Head(m.waiters)
    BY <1>1, <2>1, AppendToWaiters
  <2> QED BY <1>1, <2>2 DEF Working, StillRevoking, Revoking
<1>8. ASSUME NEW j \in Busy', NEW n, n = l2mshr'[j]
      PROVE  WriteApart(n, v)' /\ WrittenOK(n, v)'
  <2>1. j \in Busy
    BY <1>1, <1>3, <1>8 DEF Busy
  <2>2. PICK p : p = l2mshr[j]
    OBVIOUS
  <2>3. p.line \in Lines
    BY <2>1, <2>2, WorkedLine
  <2>4. LineKept(p, v, v)
    BY <1>2, <1>4, <2>3 DEF LineKept
  <2>5. Working(p, n) /\ StillRevoking(p, n)
    <3>1. CASE j = t
      BY <1>1, <1>3, <1>7, <1>8, <2>2, <3>1
    <3>2. CASE j # t
      <4>1. n = p
        BY <1>3, <1>8, <2>1, <2>2, <3>2 DEF Busy
      <4> QED BY <4>1 DEF Working, StillRevoking
    <3> QED BY <3>1, <3>2
  <2> QED BY <1>2, <1>8, <2>1, <2>2, <2>4, <2>5, WorkKept
<1> QED
  BY <1>5, <1>6, <1>8 DEF ValuesOK, WritesOK

LEMMA LookupValues ==
    ASSUME L2Inv, ArrayInv, TrackInv, CurrentOK, CurrentOK', Lookup,
           NEW v, v = LineValue, ValuesOK(v), NEW w, w = LineValue'
    PROVE  ValuesOK(w)'
<1>1. CASE DispatchHit
  BY <1>1, HitValues
<1>2. CASE ~DispatchHit
  <2>1. /\ Dispatch /\ lookup # << >> /\ UNCHANGED mem
        /\ UNCHANGED array \/ \E x \in L2Ways : Reserve(x)
    <3>1. /\ OpenWays # {} => AllocWay \in L2Ways
          /\ lookup # << >> /\ HitWays # {} => First(HitWays) \in L2Ways
      <4>1. CASE lookup # << >>
        BY <4>1, InvParts, RowFacts
      <4>2. CASE lookup = << >>
        BY <1>2, <4>2
           DEF Lookup, DispatchImmediate, DispatchBypass, DispatchMerge,
               DispatchVictimHit, DispatchWriteAround, DispatchAlloc,
               DispatchProbe, Dispatch
      <4> QED BY <4>1, <4>2
    <3> QED
      BY <1>2, <3>1
         DEF Lookup, DispatchImmediate, DispatchBypass, DispatchMerge,
             DispatchVictimHit, DispatchWriteAround, DispatchAlloc,
             DispatchProbe, Dispatch
  <2>2. w = v
    BY <2>1, DispatchReserves
  <2>3. ValuesOK(v)'
    BY <1>2, ImmediateValues, TakesValues, MergeValues, VictimHitValues,
       ProbeDispatchValues DEF Lookup
  <2> QED BY <2>2, <2>3
<1> QED
  BY <1>1, <1>2


-----------------------------------------------------------------------------
(* What the harts do: their accesses, snoops, commands and answers.          *)

\* The home has answered the fill that hart h waits for.
Answered(h, l) ==
    /\ mshr[h].state = "issued" /\ mshr[h].line = l
    /\ \E r \in Queued : DRead(r.cmd) /\ r.cmd.line = l

\* A hart gains at most the copy that it has just been answered; a write of
\* the line and a store to it are then impossible.
LEMMA PrivateValues ==
    ASSUME L2Inv, NEW v, ValuesOK(v), UNCHANGED <<l2mshr, reservation>>,
           \A r \in Queued' : r \in Queued,
           HartsOK(v)', ReservedOK(v)', AllServed',
           \A h \in Harts, l \in Lines :
              HoldsD(h, l)' => HoldsD(h, l) \/ Answered(h, l),
           \A h \in Harts :
              marked[h].state = "sc_send" => lr_value'[h] = lr_value[h]
    PROVE  ValuesOK(v)'
<1>1. ASSUME NEW c \in Contents(Spots, Pending), c.source = "DCACHE",
             c.op = "WRITE", c.cacheable
      PROVE  ~Answered(c.hart, c.line)
  <2>1. /\ PrivateTypeOK /\ c \in Commands /\ c.hart \in Harts /\ Waits(c)
        /\ ServedOK(c) /\ CacheValue(c.hart, v)
    BY DEF L2Inv, TypeOK, Contents, Commands, ServiceInv, ValuesOK, AllServed,
           HartsOK
  <2>2. stores[c.hart] # << >> /\ Head(stores[c.hart]).line = c.line
    BY <1>1, <2>1 DEF Waits, ServedOK
  <2>3. ~(mshr[c.hart].state # "free" /\ mshr[c.hart].line = c.line)
    BY <2>1, <2>2, StoredLine
  <2> QED BY <2>3 DEF Answered
<1>2. ASSUME NEW r \in Queued' PROVE AnswerOK(r, v)'
  <2>1. r \in Queued /\ AnswerOK(r, v)
    BY <1>2 DEF ValuesOK, AnswersOK
  <2>2. /\ r.cmd \in Contents(Spots, Pending) /\ r.cmd.hart \in Harts
        /\ r.cmd \in Commands
    BY <2>1, QueuedFacts
  <2>3. r.cmd.line \in Lines
    BY <2>2 DEF Commands
  <2>4. r.cmd.source = "DCACHE" /\ r.cmd.op = "WRITE" /\ r.cmd.cacheable
           => (HoldsD(r.cmd.hart, r.cmd.line)' => HoldsD(r.cmd.hart, r.cmd.line))
    BY <1>1, <2>2, <2>3
  <2> QED BY <2>1, <2>4 DEF AnswerOK
<1>3. ASSUME NEW i \in Busy', NEW m, m = l2mshr'[i]
      PROVE  WriteApart(m, v)' /\ WrittenOK(m, v)'
  <2>1. i \in Busy /\ m = l2mshr[i] /\ WriteApart(m, v) /\ WrittenOK(m, v)
    BY <1>3 DEF Busy, ValuesOK, WritesOK
  <2>2. PICK c : c = Head(m.waiters)
    OBVIOUS
  <2>3. /\ c \in Commands /\ c.hart \in Harts /\ c \in Contents(Spots, Pending)
        /\ Legal(c) /\ Waits(c) /\ c.line = m.line /\ c.err = "none"
        /\ c.cacheable <=> m.cacheable
    BY <2>1, <2>2, WorkFacts
  <2>4. ServedOK(c) /\ m.line \in Lines
    BY <2>3 DEF ValuesOK, AllServed, Commands
  <2>5. m.cacheable /\ OpWrites(c.op) =>
           /\ c.source = "DCACHE"
           /\ c.op = "SC" => marked[c.hart].state = "sc_send"
    BY <2>3, <2>4, WriterFacts DEF CoherentWrite
  <2>6. WriteApart(m, v)'
    <3>1. SUFFICES ASSUME Writing(m)
                   PROVE  /\ \A h \in Harts : reservation'[h] # m.line
                          /\ \A r \in Queued' : DRead(r.cmd) => r.cmd.line # m.line
                          /\ \A h \in Harts : HoldsD(h, m.line)' =>
                                h = Head(m.waiters).hart \/ Revoking(m, h)
                          /\ Head(m.waiters).op = "SC" =>
                                lr_value'[Head(m.waiters).hart] = v[m.line]
      BY DEF WriteApart, Writing, Revoking
    <3>2. /\ \A h \in Harts : reservation[h] # m.line
          /\ \A r \in Queued : DRead(r.cmd) => r.cmd.line # m.line
          /\ \A h \in Harts : HoldsD(h, m.line) =>
                h = c.hart \/ Revoking(m, h)
          /\ c.op = "SC" => lr_value[c.hart] = v[m.line]
          /\ m.cacheable /\ OpWrites(c.op)
      BY <2>1, <2>2, <3>1 DEF WriteApart, Writing
    <3>3. \A h \in Harts : ~Answered(h, m.line)
      BY <3>2 DEF Answered
    <3>4. c.op = "SC" => lr_value'[c.hart] = v[m.line]
      BY <2>3, <2>5, <3>2
    <3> QED BY <2>2, <2>4, <3>2, <3>3, <3>4
  <2>7. WrittenOK(m, v)'
    <3>1. m.bypass /\ m.cacheable =>
             /\ Len(m.waiters) = 1 /\ c.op = "WRITE"
             /\ m.state = "REPLAY" /\ HoldsD(c.hart, m.line) =>
                   c.data = v[m.line]
      BY <2>1, <2>2 DEF WrittenOK
    <3>2. m.bypass /\ m.cacheable =>
             (HoldsD(c.hart, m.line)' => HoldsD(c.hart, m.line))
      BY <1>1, <2>3, <2>4, <2>5, <3>1 DEF OpWrites
    <3> QED BY <2>2, <3>1, <3>2 DEF WrittenOK
  <2> QED BY <2>6, <2>7
<1> QED
  BY <1>2, <1>3 DEF ValuesOK, AnswersOK, WritesOK

\* The commands in service stay served while the fabric does not move.
LEMMA ServedStays ==
    ASSUME AllServed, UNCHANGED <<cmds, lookup, hit, responses, l2mshr>>,
           \A c \in Contents(Spots, Pending) : ServedOK(c) => ServedOK(c)'
    PROVE  AllServed'
<1>1. Pending' = Pending
  BY NothingMoves
<1> QED
  BY <1>1 DEF AllServed

\* The value of every line is that of the data array and the memory.
LEMMA SameValue ==
    ASSUME CurrentOK, CurrentOK', UNCHANGED <<array, mem>>
    PROVE  LineValue' = LineValue
<1>1. \A s \in L2Sets, w \in L2Ways :
         /\ array'[s][w].valid = array[s][w].valid
         /\ array'[s][w].dirty = array[s][w].dirty
         /\ array'[s][w].line = array[s][w].line
         /\ array'[s][w].data = array[s][w].data
  OBVIOUS
<1> QED
  BY <1>1, ReservedValue

\* Commands that wait on a hart and its LR or its SC exclude each other.
LEMMA MarkedApart ==
    ASSUME L2Inv, NEW h \in Harts
    PROVE  /\ LrAnswered(h) => marked[h].state = "lr_reserve"
           /\ marked[h].state = "lr_lookup" => ~LrAnswered(h)
<1>1. ASSUME NEW r \in Elements(responses), r.cmd.op = "LR", r.cmd.hart = h
      PROVE  marked[h].state = "lr_reserve"
  <2>1. r \in Queued
    BY <1>1 DEF Queued
  <2>2. Legal(r.cmd) /\ Waits(r.cmd)
    BY <2>1, QueuedFacts
  <2> QED BY <1>1, <2>2 DEF Legal, Waits
<1> QED
  BY <1>1 DEF LrAnswered


\* A hart that takes a step of its own keeps what its commands rest on, and
\* its LR ends with the value of its reserved line.
LEMMA HartMoves ==
    ASSUME L2Inv, NEW v, ValuesOK(v), NEW h \in Harts,
           CacheValue(h, v)', AccessMoves(h, v), UNCHANGED l2Vars,
           \A g \in Harts, l \in Lines : HoldsD(g, l)' => HoldsD(g, l)
    PROVE  ValuesOK(v)'
<1>1. /\ UNCHANGED <<cmds, lookup, hit, responses, l2mshr, reservation>>
      /\ \A r \in Queued' : r \in Queued
      /\ PrivateTypeOK /\ ServiceInv
  BY DEF l2Vars, Queued, Elements, L2Inv, TypeOK
<1>2. \A g \in Harts \ {h} : HartSame(g)
  BY DEF AccessMoves
<1>3. HartsOK(v)'
  <2>1. \A g \in Harts \ {h} : CacheValue(g, v)'
    BY <1>2, CacheFrame DEF ValuesOK, HartsOK
  <2> QED BY <2>1 DEF HartsOK
<1>4. ReservedOK(v)'
  <2>1. \A g : LrAnswered(g)' <=> LrAnswered(g)
    BY <1>1, AnsweredSame
  <2>2. \A g \in Harts : Reserved(g, v)
    BY DEF ValuesOK, ReservedOK
  <2>3. \A g \in Harts \ {h} : Reserved(g, v)'
    BY <1>1, <1>2, <2>1, <2>2 DEF HartSame, Reserved, LrPending
  <2>4. Reserved(h, v)'
    <3>1. /\ LrAnswered(h) => marked[h].state = "lr_reserve"
          /\ marked[h].state = "lr_lookup" => ~LrAnswered(h)
      BY MarkedApart
    <3>2. CASE /\ marked[h].state = "lr_lookup" /\ marked'[h].state = "idle"
               /\ lr_value'[h] = v[marked[h].line]
      BY <1>1, <2>1, <2>2, <3>1, <3>2 DEF Reserved, LrPending
    <3>3. CASE lr_value'[h] = lr_value[h] /\ marked'[h] = marked[h]
      BY <1>1, <2>1, <2>2, <3>3 DEF Reserved, LrPending
    <3>4. CASE /\ lr_value'[h] = lr_value[h]
               /\ marked[h].state \in {"idle", "sc_invalidate"}
               /\ marked'[h].state \in {"lr_reserve", "sc_invalidate", "fence",
                                        "sc_send"}
      BY <1>1, <2>1, <2>2, <3>1, <3>4 DEF Reserved, LrPending
    <3> QED BY <3>2, <3>3, <3>4 DEF AccessMoves, MarkedMoves
  <2> QED BY <2>3, <2>4 DEF ReservedOK
<1>5. AllServed'
  <2>1. ASSUME NEW c \in Contents(Spots, Pending), ServedOK(c)
        PROVE  ServedOK(c)'
    <3>1. /\ c \in Commands /\ c.hart \in Harts /\ Legal(c) /\ Waits(c)
          /\ stores[c.hart] \in Seq(StoreEntries)
      BY <1>1 DEF Contents, Commands, ServiceInv, PrivateTypeOK
    <3>2. CASE c.hart # h
      <4>1. HartSame(c.hart)
        BY <1>2, <3>1, <3>2
      <4> QED BY <2>1, <4>1 DEF HartSame, ServedOK
    <3>3. CASE c.hart = h
      <4>1. \/ stores'[h] = stores[h]
            \/ /\ marked[h].state = "idle"
               /\ \E e \in StoreEntries : stores'[h] = Append(stores[h], e)
        BY DEF AccessMoves
      <4>2. c.source = "DCACHE" /\ c.op = "WRITE" /\ c.cacheable =>
               Head(stores'[h]) = Head(stores[h])
        <5>1. c.source = "DCACHE" /\ c.op = "WRITE" /\ c.cacheable =>
                 stores[h] # << >>
          BY <3>1, <3>3 DEF Waits
        <5>2. \A e \in StoreEntries : stores[h] # << >> =>
                 Head(Append(stores[h], e)) = Head(stores[h])
          BY <3>1, <3>3
        <5> QED BY <4>1, <5>1, <5>2
      <4>3. c.op \in {"LR", "SC"} =>
               stores'[h] = stores[h] /\ mshr'[h].state = "free"
        <5>1. c.op \in {"LR", "SC"} =>
                 /\ marked[h].state \in {"lr_reserve", "sc_send"}
                 /\ mshr[h].state = "free"
          BY <2>1, <3>1, <3>3 DEF Legal, Waits, ServedOK
        <5> QED BY <4>1, <5>1 DEF AccessMoves
      <4> QED BY <2>1, <3>3, <4>2, <4>3 DEF ServedOK
    <3> QED BY <3>2, <3>3
  <2> QED BY <1>1, <2>1, ServedStays DEF ValuesOK
<1>6. \A g \in Harts : marked[g].state = "sc_send" => lr_value'[g] = lr_value[g]
  BY <1>2 DEF HartSame, AccessMoves, MarkedMoves
<1> QED
  BY <1>1, <1>3, <1>4, <1>5, <1>6, PrivateValues

LEMMA HartValues ==
    ASSUME ~OverlayFills, L2Inv, NEW v, ValuesOK(v), NEW h \in Harts,
           L1DStep(h) \/ InvalidateL1D(h) \/ L1IStep(h)
    PROVE  ValuesOK(v)'
<1>1. /\ PrivateTypeOK /\ CacheValue(h, v) /\ UNCHANGED l2Vars
      /\ endpoint \in [Harts -> EndpointSlots]
  BY DEF L2Inv, TypeOK, ProbeTypeOK, ValuesOK, HartsOK, L1DStep, InvalidateL1D,
         L1IStep
<1>2. CASE L1DStep(h)
  <2>1. L1DAccess(h, endpoint[h].invalidate)
    BY <1>2 DEF L1DStep
  <2>2. CacheValue(h, v)' /\ AccessMoves(h, v)
    BY <1>1, <2>1, AccessValue
  <2>3. \E l \in Lines \cup {NoLine} : Drops(h, l)
    BY <1>1, <2>1, AccessHolders
  <2>4. \A g \in Harts, l \in Lines : HoldsD(g, l)' => HoldsD(g, l)
    BY <2>3 DEF Drops
  <2> QED BY <1>1, <2>2, <2>4, HartMoves
<1>3. CASE InvalidateL1D(h)
  <2>1. PICK x : x = endpoint[h].line
    OBVIOUS
  <2>2. x \in Lines /\ SnoopInvalidate(h, x)
    BY <1>1, <1>3, <2>1 DEF EndpointSlots, InvalidateL1D
  <2>3. /\ CacheValue(h, v)'
        /\ \A g \in Harts \ {h} : HartSame(g)
        /\ mshr[h].state = "free" => mshr'[h].state = "free"
    BY <1>1, <2>2, SnoopValue
  <2>4. UNCHANGED <<stores, marked, lr_value>>
    BY <2>2 DEF SnoopInvalidate
  <2>5. AccessMoves(h, v)
    BY <2>3, <2>4 DEF AccessMoves, MarkedMoves
  <2>6. \A g \in Harts, l \in Lines : HoldsD(g, l)' => HoldsD(g, l)
    BY <1>1, <2>2, SnoopedHolders DEF Drops
  <2> QED BY <1>1, <2>3, <2>5, <2>6, HartMoves
<1>4. CASE L1IStep(h)
  <2>1. UNCHANGED <<dcache, stores, mshr, marked, lr_value>>
    BY <1>4 DEF L1IStep, L1IAccess, FetchMiss, FenceI
  <2>2. \A g : HartSame(g)
    BY <2>1 DEF HartSame
  <2>3. CacheValue(h, v)'
    BY <1>1, <2>2, CacheFrame
  <2>4. AccessMoves(h, v)
    BY <2>1, <2>2 DEF AccessMoves, MarkedMoves
  <2>5. \A g \in Harts, l \in Lines : HoldsD(g, l)' => HoldsD(g, l)
    BY <2>1 DEF HoldsD
  <2> QED BY <1>1, <2>3, <2>4, <2>5, HartMoves
<1> QED
  BY <1>2, <1>3, <1>4


LEMMA JoinsAdds ==
    ASSUME NEW S, NEW P \in [S -> Seq(Commands)], NEW Q, NEW b \in S,
           NEW c \in Commands, Joins(S, P, Q, b, c)
    PROVE  \A d \in Contents(S, Q) : d \in Contents(S, P) \/ d = c
<1>1. ASSUME NEW d \in Commands, NEW s \in S, NEW n \in DOMAIN Q[s], Q[s][n] = d
      PROVE  d = c \/ \E m \in DOMAIN P[s] : P[s][m] = d
  <2>1. CASE s # b
    <3>1. Q[s] = P[s]
      BY <2>1 DEF Joins
    <3> QED BY <1>1, <3>1
  <2>2. CASE s = b
    <3>1. P[b] \in Seq(Commands) /\ Q[b] = Append(P[b], c)
      BY DEF Joins
    <3>2. n \in DOMAIN Append(P[b], c) /\ Append(P[b], c)[n] = d
      BY <1>1, <2>2, <3>1
    <3>3. (n \in DOMAIN P[b] /\ P[b][n] = d) \/ d = c
      BY <3>1, <3>2
    <3> QED BY <2>2, <3>3
  <2> QED BY <2>1, <2>2
<1> QED
  BY <1>1 DEF Contents

\* What a requester sends is served: the oldest store of the buffer, or an
\* LR or an SC of a hart that has neither a buffered store nor a miss.
LEMMA SentServed ==
    ASSUME L2TypeOK, PrivateTypeOK, NEW h \in Harts, Send(h)
    PROVE  /\ \E c \in Commands : Push(c) /\ ServedOK(c)'
           /\ UNCHANGED privateVars \/ SendFill(h)
<1> USE DEF Sources, Ops
<1>0. /\ InitValue \in Values /\ stores[h] \in Seq(StoreEntries)
      /\ fetch[h] \in Lines \cup {NoLine} /\ mshr[h] \in Mshrs
      /\ marked[h] \in Marked
  BY ValuesAssumption DEF PrivateTypeOK
<1>1. CASE SendStore(h)
  <2>1. /\ stores[h] # << >> /\ Head(stores[h]) \in StoreEntries
        /\ UNCHANGED privateVars
    BY <1>0, <1>1 DEF SendStore
  <2>2. PICK l \in Lines, d \in Values : l = Head(stores[h]).line /\ d = Head(stores[h]).data
    BY <2>1 DEF StoreEntries
  <2>3. PICK c : c = Command(h, "DCACHE", "WRITE", l, d)
    OBVIOUS
  <2>4. /\ c \in Commands /\ c.hart = h /\ c.source = "DCACHE" /\ c.op = "WRITE"
        /\ c.line = l /\ c.data = d
    BY <2>2, <2>3, CommandFields DEF Command
  <2>5. Push(c)
    BY <1>1, <2>2, <2>3 DEF SendStore
  <2>6. ServedOK(c)'
    BY <2>1, <2>2, <2>4 DEF ServedOK, privateVars
  <2> QED BY <2>1, <2>4, <2>5, <2>6
<1>2. ASSUME NEW source \in {"DCACHE", "ICACHE", "PTW", "LEGACY"}, NEW op \in Ops,
             NEW l \in Lines, NEW d \in Values,
             \/ Push(Command(h, source, op, l, d))
             \/ Push([Command(h, source, op, l, d) EXCEPT !.err = "command"]),
             op = "WRITE" => l \in DeviceLines \/ source # "DCACHE",
             op \in {"LR", "SC"} => stores[h] = << >> /\ mshr[h].state = "free"
                                    /\ UNCHANGED privateVars
      PROVE  \E c \in Commands : Push(c) /\ ServedOK(c)'
  <2>1. PICK c : Push(c) /\ (\/ c = Command(h, source, op, l, d)
                             \/ c = [Command(h, source, op, l, d) EXCEPT !.err = "command"])
    BY <1>2
  <2>2. /\ c \in Commands /\ c.hart = h /\ c.source = source /\ c.op = op
        /\ c.line = l /\ (c.cacheable <=> (op # "FENCE" /\ l \notin DeviceLines))
    <3>1. PICK b : b = Command(h, source, op, l, d)
      OBVIOUS
    <3>2. /\ b \in Commands /\ b.hart = h /\ b.source = source /\ b.op = op
          /\ b.line = l /\ (b.cacheable <=> (op # "FENCE" /\ l \notin DeviceLines))
      BY <3>1, CommandFields
    <3>3. c = b \/ c = [b EXCEPT !.err = "command"]
      BY <2>1, <3>1
    <3> QED BY <3>2, <3>3 DEF Commands
  <2>3. ServedOK(c)'
    BY <1>2, <2>2 DEF ServedOK, privateVars
  <2> QED BY <2>1, <2>2, <2>3
<1>3. CASE SendFill(h)
  BY <1>0, <1>2, <1>3 DEF SendFill, Mshrs
<1>4. ASSUME NEW st, NEW op \in {"LR", "SC", "FENCE"}, SendMarked(h, st, op)
      PROVE  (\E c \in Commands : Push(c) /\ ServedOK(c)') /\ UNCHANGED privateVars
  BY <1>0, <1>2, <1>4 DEF SendMarked, Marked
<1>5. CASE SendFetch(h)
  BY <1>0, <1>2, <1>5 DEF SendFetch
<1>6. ASSUME NEW op \in Ops, NEW l \in Lines, SendPtw(h, op, l)
      PROVE  (\E c \in Commands : Push(c) /\ ServedOK(c)') /\ UNCHANGED privateVars
  BY <1>0, <1>2, <1>6 DEF SendPtw
<1>7. ASSUME NEW op \in Ops, NEW l \in Lines, NEW d \in Values,
             SendDevice(h, op, l, d)
      PROVE  (\E c \in Commands : Push(c) /\ ServedOK(c)') /\ UNCHANGED privateVars
  BY <1>0, <1>2, <1>7 DEF SendDevice
<1>8. ASSUME NEW op \in Ops, NEW l \in Lines, SendMalformed(h, op, l)
      PROVE  (\E c \in Commands : Push(c) /\ ServedOK(c)') /\ UNCHANGED privateVars
  BY <1>0, <1>2, <1>8 DEF SendMalformed
<1> QED
  BY <1>1, <1>3, <1>4, <1>5, <1>6, <1>7, <1>8 DEF Send, SendStore, SendFetch

LEMMA SendValues ==
    ASSUME L2Inv, NEW v, ValuesOK(v), NEW h \in Harts, Send(h)
    PROVE  ValuesOK(v)'
<1>1. /\ L2TypeOK /\ PrivateTypeOK /\ ServiceInv /\ mshr \in [Harts -> Mshrs]
      /\ Pending \in [Spots -> Seq(Commands)]
  BY PendingType DEF L2Inv, TypeOK, PrivateTypeOK
<1>2. PICK c \in Commands : Push(c) /\ ServedOK(c)'
  BY <1>1, SentServed
<1>3. /\ UNCHANGED <<lookup, hit, l2mshr, responses, reservation>>
      /\ \A r \in Queued' : r \in Queued
  BY <1>2 DEF Push, Queued, Elements
<1>4. \A d \in Contents(Spots, Pending') : d \in Contents(Spots, Pending) \/ d = c
  BY <1>1, <1>2, PushJoins, JoinsAdds, SpotsApart
<1>5. /\ UNCHANGED <<stores, dcache, marked, lr_value>>
      /\ \A g \in Harts : \/ mshr'[g] = mshr[g]
                          \/ /\ mshr[g].state = "need" /\ mshr'[g].state = "issued"
                             /\ mshr'[g].line = mshr[g].line
                             /\ mshr'[g].overlay = mshr[g].overlay
                             /\ mshr'[g].data = mshr[g].data
  <2>1. CASE UNCHANGED privateVars
    BY <2>1 DEF privateVars
  <2>2. CASE SendFill(h)
    BY <1>1, <2>2 DEF SendFill, Mshrs
  <2> QED BY <1>1, <2>1, <2>2, SentServed
<1>6. HartsOK(v)'
  <2>1. ASSUME NEW g \in Harts PROVE CacheValue(g, v)'
    <3>1. CacheValue(g, v)
      BY DEF ValuesOK, HartsOK
    <3> QED BY <1>5, <3>1, CacheDrops
  <2> QED BY <2>1 DEF HartsOK
<1>7. ReservedOK(v)'
  <2>1. \A g : LrAnswered(g)' <=> LrAnswered(g)
    BY <1>3, AnsweredSame
  <2> QED
    BY <1>3, <1>5, <2>1 DEF ValuesOK, ReservedOK, Reserved, LrPending
<1>8. AllServed'
  <2>1. ASSUME NEW d \in Contents(Spots, Pending) PROVE ServedOK(d)'
    <3>1. ServedOK(d) /\ d.hart \in Harts
      BY DEF ValuesOK, AllServed, Contents, Commands
    <3> QED BY <1>5, <3>1 DEF ServedOK
  <2>2. \A d : d \in Contents(Spots, Pending') => ServedOK(d)'
    BY <1>2, <1>4, <2>1
  <2> QED BY <2>2 DEF AllServed
<1>9. \A g \in Harts, l \in Lines : HoldsD(g, l)' => HoldsD(g, l)
  BY <1>5 DEF HoldsD
<1> QED
  BY <1>3, <1>5, <1>6, <1>7, <1>8, <1>9, PrivateValues


\* What an answer does to the hart that receives it.
AnswerMoves(c, v) ==
    /\ CacheValue(c.hart, v)'
    /\ \A g \in Harts \ {c.hart} : HartSame(g)
    /\ UNCHANGED lr_value
    /\ \A g \in Harts, l \in Lines :
          HoldsD(g, l)' => HoldsD(g, l) \/ Answered(g, l)
    /\ \/ stores'[c.hart] = stores[c.hart]
       \/ c.source = "DCACHE" /\ c.op = "WRITE" /\ c.cacheable
    /\ mshr[c.hart].state = "free" => mshr'[c.hart].state = "free"
    /\ \/ c.op # "LR" /\ marked'[c.hart] = marked[c.hart]
       \/ /\ c.op = "LR" /\ marked'[c.hart].state = "lr_lookup"
          /\ marked'[c.hart].line = marked[c.hart].line
       \/ /\ c.op # "LR" /\ marked'[c.hart].state = "idle"
          /\ marked[c.hart].state \in {"sc_send", "fence"}

LEMMA AnswerOutcome ==
    ASSUME PrivateTypeOK, NEW v, NEW r \in Queued, r \in Responses,
           NEW c \in Commands, c = r.cmd, Legal(c), Waits(c), ServedOK(c),
           AnswerOK(r, v), \A g \in Harts : CacheValue(g, v),
           Response(c, r.error, r.data)
    PROVE  AnswerMoves(c, v)
<1> DEFINE h == c.hart
<1>0. /\ h \in Harts /\ c.line \in Lines /\ CacheValue(h, v)
      /\ r.error \in BOOLEAN
  BY DEF Commands, Responses
<1> HIDE DEF h
<1>1. ASSUME UNCHANGED <<dcache, stores, mshr, marked, lr_value>>, c.op # "LR"
      PROVE  AnswerMoves(c, v)
  <2>1. \A g : HartSame(g)
    BY <1>1 DEF HartSame
  <2>2. CacheValue(h, v)'
    BY <1>0, <2>1, CacheFrame
  <2>3. \A g \in Harts, l \in Lines : HoldsD(g, l)' => HoldsD(g, l)
    BY <1>1 DEF HoldsD
  <2> QED BY <1>1, <2>1, <2>2, <2>3 DEF AnswerMoves, h
<1>2. CASE c.source = "ICACHE"
  BY <1>1, <1>2 DEF Legal, Response, FetchResponse
<1>3. CASE c.source = "DCACHE" /\ c.cacheable /\ c.op = "WRITE"
  <2>1. StoreResponse(h) /\ stores[h] # << >>
    BY <1>3 DEF Response, Waits, h
  <2>2. LET e == Head(stores[h])
        IN  dcache[h][e.line] # Absent => v[e.line] = e.data
    <3>1. Head(stores[h]).line = c.line /\ Head(stores[h]).data = c.data
      BY <1>3 DEF ServedOK, h
    <3>2. HoldsD(h, c.line) => c.data = v[c.line]
      BY <1>3 DEF AnswerOK, h
    <3> QED BY <3>1, <3>2 DEF HoldsD
  <2>3. /\ CacheValue(h, v)'
        /\ \A g \in Harts \ {h} : HartSame(g)
        /\ UNCHANGED <<dcache, mshr, marked, lr_value>>
    BY <1>0, <2>1, <2>2, StoreAnswer
  <2>4. \A g \in Harts, l \in Lines : HoldsD(g, l)' => HoldsD(g, l)
    BY <2>3 DEF HoldsD
  <2> QED BY <1>3, <2>3, <2>4 DEF AnswerMoves, h
<1>4. CASE c.source = "DCACHE" /\ c.cacheable /\ c.op = "READ"
  <2>1. FillResponse(h, r.error, r.data)
    BY <1>4 DEF Response, h
  <2>2. mshr[h].state = "issued" /\ mshr[h].line = c.line /\ DRead(c)
    BY <1>4 DEF Waits, DFill, DRead, PrivateFill, IsRead, h
  <2>3. ~r.error /\ r.data = v[mshr[h].line]
    BY <1>4, <2>2 DEF AnswerOK
  <2>4. /\ CacheValue(h, v)'
        /\ \A g \in Harts \ {h} : HartSame(g)
        /\ UNCHANGED <<dcache, stores, lr_value>>
        /\ marked'[h] = marked[h]
        /\ mshr'[h].state = "complete" => mshr'[h].line = c.line
    <3>1. /\ CacheValue(h, v)'
          /\ \A g \in Harts \ {h} : HartSame(g)
          /\ UNCHANGED <<dcache, stores, lr_value>>
          /\ \/ mshr[h].reissue /\ mshr'[h].state = "need" /\ marked'[h] = marked[h]
             \/ /\ ~r.error /\ mshr'[h].state = "complete" /\ marked'[h] = marked[h]
                /\ mshr'[h].line = mshr[h].line
             \/ /\ r.error /\ mshr'[h].state = "free"
                /\ \/ marked'[h] = marked[h] /\ marked[h].state # "lr_lookup"
                   \/ marked[h].state = "lr_lookup" /\ marked'[h].state = "idle"
      BY <1>0, <2>1, <2>2, <2>3, FillAnswer
    <3> QED BY <2>2, <2>3, <3>1
  <2>5. Answered(h, c.line)
    BY <2>2 DEF Answered
  <2>6. \A g \in Harts, l \in Lines :
           HoldsD(g, l)' => HoldsD(g, l) \/ Answered(g, l)
    BY <2>4, <2>5 DEF HoldsD, HartSame
  <2> QED BY <1>4, <2>2, <2>4, <2>6 DEF AnswerMoves, h
<1>5. CASE c.source = "DCACHE" /\ c.op \in {"LR", "SC", "FENCE"}
  <2>1. MarkedResponse(h, c.op, r.error)
    BY <1>5 DEF Response, h
  <2>2. /\ c.op = "LR" => marked[h].state = "lr_reserve"
        /\ c.op # "LR" => marked[h].state \in {"sc_send", "fence"}
    BY <1>5 DEF Waits, h
  <2>3. c.op = "LR" => ~r.error /\ stores[h] = << >> /\ mshr[h].state = "free"
    <3>1. c.op = "LR" => c.cacheable
      BY <1>5, AccessAssumption DEF Legal
    <3> QED BY <1>5, <3>1 DEF AnswerOK, ServedOK, h
  <2>4. /\ CacheValue(h, v)'
        /\ \A g \in Harts \ {h} : HartSame(g)
        /\ UNCHANGED <<dcache, stores, mshr, lr_value>>
        /\ IF c.op = "LR" /\ ~r.error
           THEN marked'[h].state = "lr_lookup" /\ marked'[h].line = marked[h].line
           ELSE marked'[h].state = "idle"
    BY <1>0, <2>1, <2>2, <2>3, MarkedAnswer
  <2>5. \A g \in Harts, l \in Lines : HoldsD(g, l)' => HoldsD(g, l)
    BY <2>4 DEF HoldsD
  <2> QED BY <2>2, <2>3, <2>4, <2>5 DEF AnswerMoves, h
<1>6. CASE /\ ~(c.source = "ICACHE")
           /\ ~(c.source = "DCACHE" /\ c.cacheable /\ c.op = "WRITE")
           /\ ~(c.source = "DCACHE" /\ c.cacheable /\ c.op = "READ")
           /\ ~(c.source = "DCACHE" /\ c.op \in {"LR", "SC", "FENCE"})
  <2>1. UNCHANGED privateVars
    BY <1>6 DEF Response
  <2>2. c.op # "LR"
    BY <1>6 DEF Legal
  <2> QED BY <1>1, <2>1, <2>2 DEF privateVars
<1> QED
  BY <1>2, <1>3, <1>4, <1>5, <1>6

LEMMA RespondValues ==
    ASSUME L2Inv, NEW v, ValuesOK(v), Respond
    PROVE  ValuesOK(v)'
<1>1. PICK r : r = Head(responses)
  OBVIOUS
<1>2. /\ L2TypeOK /\ PrivateTypeOK /\ ServiceInv
      /\ responses # << >> /\ responses \in Seq(Responses)
      /\ Pending \in [Spots -> Seq(Commands)]
  BY PendingType DEF L2Inv, TypeOK, Respond, L2TypeOK
<1>3. /\ Response(r.cmd, r.error, r.data) /\ responses' = Tail(responses)
      /\ UNCHANGED <<hit, l2mshr, reservation>>
  BY <1>1 DEF Respond
<1>4. /\ r \in Elements(responses)
      /\ \A y : y \in Elements(responses) <=> y = r \/ y \in Elements(responses')
  BY <1>1, <1>2, <1>3, ElementsOf
<1>5. /\ r \in Queued
      /\ \A y \in Queued' : y \in Queued
  BY <1>3, <1>4 DEF Queued, Elements
<1>6. PICK c \in Commands : c = r.cmd
  BY <1>5, QueuedFacts
<1>7. /\ r \in Responses /\ c.hart \in Harts /\ Legal(c) /\ Waits(c)
      /\ ServedOK(c) /\ AnswerOK(r, v) /\ \A g \in Harts : CacheValue(g, v)
  BY <1>5, <1>6, QueuedFacts DEF ValuesOK, AllServed, AnswersOK, HartsOK
<1>8. AnswerMoves(c, v)
  BY <1>2, <1>3, <1>5, <1>6, <1>7, AnswerOutcome
<1>9. \A d \in Contents(Spots, Pending') :
         d \in Contents(Spots, Pending) /\ Channel(d) # Channel(c)
  <2>1. \A Q : Leaves(Spots, Pending, Q, ResponsesAt) =>
           \A d \in Contents(Spots, Q) :
              /\ d \in Contents(Spots, Pending)
              /\ Channel(d) # Channel(Head(Pending[ResponsesAt]))
    BY <1>2, SpotsApart, LeavesKeeps DEF ServiceInv
  <2>2. /\ Leaves(Spots, Pending, Pending', ResponsesAt)
        /\ Head(Pending[ResponsesAt]) = c
    BY <1>1, <1>2, <1>6, RespondLeaves
  <2> QED BY <2>1, <2>2
<1>10. HartsOK(v)'
  <2>1. \A g \in Harts \ {c.hart} : CacheValue(g, v)'
    BY <1>7, <1>8, CacheFrame DEF AnswerMoves
  <2> QED BY <1>8, <2>1 DEF HartsOK, AnswerMoves
<1>11. ReservedOK(v)'
  <2>1. /\ \A g : LrAnswered(g)' => LrAnswered(g)
        /\ \A g : LrAnswered(g) =>
              LrAnswered(g)' \/ (c.op = "LR" /\ c.hart = g)
    BY <1>4, <1>6 DEF LrAnswered
  <2>2. \A g \in Harts : Reserved(g, v)
    BY DEF ValuesOK, ReservedOK
  <2>3. ASSUME NEW g \in Harts \ {c.hart} PROVE Reserved(g, v)'
    <3>1. marked'[g] = marked[g] /\ lr_value'[g] = lr_value[g]
      BY <1>8 DEF AnswerMoves, HartSame
    <3>2. LrAnswered(g)' <=> LrAnswered(g)
      BY <2>1
    <3> QED BY <1>3, <2>2, <3>1, <3>2 DEF Reserved, LrPending
  <2>4. Reserved(c.hart, v)'
    <3>1. lr_value'[c.hart] = lr_value[c.hart]
      BY <1>8 DEF AnswerMoves
    <3>2. CASE c.op # "LR" /\ marked'[c.hart] = marked[c.hart]
      <4>1. LrAnswered(c.hart)' <=> LrAnswered(c.hart)
        BY <2>1, <3>2
      <4> QED BY <1>3, <1>7, <2>2, <3>1, <3>2, <4>1 DEF Reserved, LrPending
    <3>3. CASE /\ c.op = "LR" /\ marked'[c.hart].state = "lr_lookup"
               /\ marked'[c.hart].line = marked[c.hart].line
      <4>1. LrAnswered(c.hart)
        BY <1>4, <1>6, <3>3 DEF LrAnswered
      <4> QED BY <1>3, <1>7, <2>2, <3>3, <4>1 DEF Reserved, LrPending
    <3>4. CASE /\ c.op # "LR" /\ marked'[c.hart].state = "idle"
               /\ marked[c.hart].state \in {"sc_send", "fence"}
      <4>1. ~LrAnswered(c.hart) /\ ~LrAnswered(c.hart)'
        BY <1>7, <2>1, <3>4, MarkedApart
      <4> QED BY <1>3, <1>7, <2>2, <3>1, <3>4, <4>1 DEF Reserved, LrPending
    <3> QED BY <1>8, <3>2, <3>3, <3>4 DEF AnswerMoves
  <2> QED BY <2>3, <2>4 DEF ReservedOK
<1>12. AllServed'
  <2>1. ASSUME NEW d \in Contents(Spots, Pending), Channel(d) # Channel(c)
        PROVE  ServedOK(d)'
    <3>1. /\ d \in Commands /\ d.hart \in Harts /\ Legal(d) /\ Waits(d)
          /\ ServedOK(d)
      BY <1>2 DEF Contents, Commands, ServiceInv, ValuesOK, AllServed
    <3>2. CASE d.hart # c.hart
      <4>1. HartSame(d.hart)
        BY <1>8, <3>1, <3>2 DEF AnswerMoves
      <4> QED BY <3>1, <4>1 DEF HartSame, ServedOK
    <3>3. CASE d.hart = c.hart /\ stores'[c.hart] = stores[c.hart]
      <4>1. mshr[c.hart].state = "free" => mshr'[c.hart].state = "free"
        BY <1>8 DEF AnswerMoves
      <4> QED BY <3>1, <3>3, <4>1 DEF ServedOK
    <3>4. CASE /\ d.hart = c.hart
               /\ c.source = "DCACHE" /\ c.op = "WRITE" /\ c.cacheable
      <4>1. ~(d.source = "DCACHE" /\ d.op = "WRITE" /\ d.cacheable)
        BY <2>1, <3>4 DEF Channel
      <4>2. d.op \notin {"LR", "SC"}
        BY <1>7, <3>1, <3>4 DEF Waits, ServedOK
      <4> QED BY <4>1, <4>2 DEF ServedOK
    <3> QED BY <1>8, <3>2, <3>3, <3>4 DEF AnswerMoves
  <2>2. \A d : d \in Contents(Spots, Pending') => ServedOK(d)'
    BY <1>9, <2>1
  <2> QED BY <2>2 DEF AllServed
<1>13. /\ \A g \in Harts, l \in Lines :
             HoldsD(g, l)' => HoldsD(g, l) \/ Answered(g, l)
       /\ UNCHANGED lr_value
  BY <1>8 DEF AnswerMoves
<1> QED
  BY <1>3, <1>5, <1>10, <1>11, <1>12, <1>13, PrivateValues


-----------------------------------------------------------------------------
(* The invariant.                                                            *)

LEMMA InitValues == Init => ValueInv
<1> SUFFICES ASSUME Init PROVE ValueInv
  OBVIOUS
<1>1. PICK v : v = LineValue
  OBVIOUS
<1>2. /\ cmds = << >> /\ lookup = << >> /\ hit = << >> /\ responses = << >>
      /\ \A i \in MshrIds : l2mshr[i] = FreeL2Mshr
      /\ \A h \in Harts : reservation[h] = NoLine
      /\ FreeL2Mshr.waiters = << >> /\ FreeL2Mshr.state = "IDLE"
  BY DEF Init, L2Init, FreeL2Mshr
<1>3. /\ \A h \in Harts, l \in Lines : dcache[h][l] = Absent
      /\ \A h \in Harts : mshr[h].state = "free" /\ marked[h].state = "idle"
  BY DEF Init, PrivateInit, FreeMshr, NoMarked
<1>4. HartsOK(v) /\ ReservedOK(v)
  BY <1>2, <1>3 DEF HartsOK, CacheValue, CleanCopy, LrDrained, MissApart,
     MissCurrent, LrMissOwn, ReservedOK, Reserved
<1>5. AllServed
  <2>1. \A s \in Spots : Pending[s] = << >>
    BY <1>2, PendingAt, SpotsApart DEF CommandsOf
  <2> QED BY <2>1 DEF AllServed, Contents
<1>6. AnswersOK(v) /\ WritesOK(v)
  BY <1>2 DEF AnswersOK, Queued, Elements, WritesOK, Busy
<1> QED
  BY <1>1, <1>4, <1>5, <1>6 DEF ValueInv, ValuesOK

\* What the steps of the values build on.
HomeOK == L2Inv /\ ArrayInv /\ TrackInv /\ CurrentOK

LEMMA NextValues ==
    ASSUME ~OverlayFills, MemoryWorks, HomeOK, HomeOK', ValueInv, [Next]_vars
    PROVE  ValueInv'
<1>1. PICK v : v = LineValue /\ ValuesOK(v)
  BY DEF ValueInv
<1>2. PICK w : w = LineValue'
  OBVIOUS
<1> SUFFICES ValuesOK(w)'
  BY <1>2 DEF ValueInv
<1>3. /\ L2Inv /\ L2Inv' /\ ArrayInv /\ ArrayInv' /\ TrackInv
      /\ CurrentOK /\ CurrentOK'
  BY DEF HomeOK
<1>4. ASSUME UNCHANGED <<array, mem>>, ValuesOK(v)' PROVE ValuesOK(w)'
  BY <1>1, <1>2, <1>3, <1>4, SameValue
<1>5. ASSUME \/ \E n \in 1 .. COMMAND_ENTRIES : WriteBeat(n)
             \/ Capture
             \/ \E h \in Harts : ProbeStep(h)
             \/ UNCHANGED vars
      PROVE  ValuesOK(w)'
  <2>1. UNCHANGED <<array, mem>>
    BY <1>5 DEF WriteBeat, Capture, ProbeStep, l2Vars, vars
  <2> QED BY <1>1, <1>3, <1>4, <1>5, <2>1, IdleValues
<1>6. CASE Lookup
  BY <1>1, <1>2, <1>3, <1>6, LookupValues
<1>7. ASSUME ProbeStart \/ ProbeComplete \/ \E i \in MshrIds : BusRequest(i)
      PROVE  ValuesOK(w)'
  <2>1. UNCHANGED <<array, mem>>
    BY <1>7 DEF ProbeStart, ProbeComplete, BusRequest
  <2> QED BY <1>1, <1>3, <1>4, <1>7, <2>1, ProbeValues
<1>8. ASSUME NEW i \in MshrIds, Replay(i) PROVE ValuesOK(w)'
  BY <1>1, <1>2, <1>3, <1>8, ReplayValues
<1>9. CASE BusResponse
  BY <1>1, <1>2, <1>3, <1>9, BusValues
<1>10. CASE HitEnqueue
  <2>1. UNCHANGED <<array, mem>>
    BY <1>10 DEF HitEnqueue
  <2> QED BY <1>1, <1>3, <1>4, <1>10, <2>1, HitEnqueueValues
<1>11. CASE Respond
  <2>1. UNCHANGED <<array, mem>>
    BY <1>11 DEF Respond
  <2> QED BY <1>1, <1>3, <1>4, <1>11, <2>1, RespondValues
<1>12. ASSUME NEW h \in Harts, Send(h) PROVE ValuesOK(w)'
  <2>1. UNCHANGED <<array, mem>>
    BY <1>12 DEF Send, SendStore, SendFill, SendMarked, SendFetch, SendPtw,
                 SendDevice, SendMalformed, Push
  <2> QED BY <1>1, <1>3, <1>4, <1>12, <2>1, SendValues
<1>13. ASSUME NEW h \in Harts, L1DStep(h) \/ InvalidateL1D(h) \/ L1IStep(h)
       PROVE  ValuesOK(w)'
  <2>1. UNCHANGED <<array, mem>>
    BY <1>13 DEF L1DStep, InvalidateL1D, L1IStep, l2Vars
  <2> QED BY <1>1, <1>3, <1>4, <1>13, <2>1, HartValues
<1> QED
  BY <1>5, <1>6, <1>7, <1>8, <1>9, <1>10, <1>11, <1>12, <1>13
     DEF Next, L2Step

\* Whatever is in flight, every copy, answer, MSHR and reservation carries
\* the value of its line, or the line is the writer's alone
\* (l2_native.v:1736-2053).
THEOREM L2Values ==
    ASSUME ~OverlayFills, LinesApart, MemoryWorks
    PROVE  Spec => []ValueInv
<1>1. Spec => []HomeOK
  <2>1. L2Inv /\ ArrayInv /\ TrackInv => HomeOK
    BY CurrentHolds DEF HomeOK
  <2>2. (Spec => []L2Inv) /\ (Spec => []ArrayInv) /\ (Spec => []TrackInv)
    BY L2Invariant, L2Array, TrackInvariant
  <2> QED BY <2>1, <2>2, PTL
<1>2. HomeOK /\ HomeOK' /\ ValueInv /\ [Next]_vars => ValueInv'
  BY NextValues
<1> QED
  BY <1>1, <1>2, InitValues, PTL DEF Spec

LEMMA NotDevice ==
    ASSUME NEW v, v = LineValue, NEW l \in Lines, l \notin DeviceLines
    PROVE  v[l] = Current(l)
  BY DEF LineValue

\* A resident D-cache line has the current value, the dirty way's or the
\* memory's, or that of the hart's own store that has not been answered: no
\* write is dispatched while a copy that it leaves behind exists or is on its
\* way, for any number of harts, MSHRs and queued answers
\* (l2_native.v:642-799 and 1736-2053, l1d.v, icx.v; without OverlayFills, the
\* store overlay of a fill, which the home_overlay run is about).
THEOREM L2Clean ==
    ASSUME ~OverlayFills, LinesApart, MemoryWorks
    PROVE  Spec => []CleanCopies
<1>1. L2Inv /\ ValueInv => CleanCopies
  <2> SUFFICES ASSUME L2Inv, ValueInv, NEW h \in Harts, NEW l \in Lines,
                      dcache[h][l] # Absent
               PROVE  dcache[h][l] = IF BufferedTo(h, l) = {} THEN Current(l)
                                     ELSE StoreOverlay(h, l)
    BY DEF CleanCopies
  <2>1. PICK v : v = LineValue /\ ValuesOK(v)
    BY DEF ValueInv
  <2>2. dcache[h][l] = Seen(stores[h], l, v[l])
    BY <2>1 DEF ValuesOK, HartsOK, CacheValue, CleanCopy
  <2>3. l \notin DeviceLines
    BY AccessAssumption DEF L2Inv, ServiceInv, AccessInv, DLines
  <2>4. v[l] = Current(l)
    BY <2>1, <2>3, NotDevice
  <2> QED BY <2>2, <2>4, ViewSeen
<1> QED
  BY <1>1, L2Values, L2Invariant, PTL

\* An SC that still has its reservation, or that has passed the reservation
\* check and waits in its MSHR for probes, a writeback or a fill, replaces the
\* very value that its LR returned (l2_native.v:1736-2053).
THEOREM L2Atomic ==
    ASSUME ~OverlayFills, LinesApart, MemoryWorks
    PROVE  Spec => []ScAtomic
<1>1. L2Inv /\ ArrayInv /\ ValueInv => ScAtomic
  <2> SUFFICES ASSUME L2Inv, ArrayInv, ValueInv PROVE ScAtomic
    OBVIOUS
  <2>1. PICK v : v = LineValue /\ ValuesOK(v)
    BY DEF ValueInv
  <2>2. ASSUME NEW h \in Harts, marked[h].state = "sc_send",
               reservation[h] = marked[h].line
        PROVE  Current(marked[h].line) = lr_value[h]
    <3>1. PICK l : l = marked[h].line
      OBVIOUS
    <3>2. l \in AtomicLines /\ l \in Lines /\ l \notin DeviceLines
      BY <2>2, <3>1, AccessAssumption DEF L2Inv, ServiceInv, AccessInv
    <3>3. ~LrPending(h) /\ l # NoLine
      BY <2>2, <3>2, MarkedApart, LinesAssumption DEF LrPending
    <3>4. lr_value[h] = v[l]
      BY <2>1, <2>2, <3>1, <3>3 DEF ValuesOK, ReservedOK, Reserved
    <3> QED BY <2>1, <3>1, <3>2, <3>4, NotDevice
  <2>3. ASSUME NEW i \in Busy, l2mshr[i].state = "REPLAY",
               Head(l2mshr[i].waiters).op = "SC"
        PROVE  l2mshr[i].data = lr_value[Head(l2mshr[i].waiters).hart]
    <3>1. PICK m, c : m = l2mshr[i] /\ c = Head(m.waiters)
      OBVIOUS
    <3>2. /\ c \in Commands /\ Legal(c) /\ c.line = m.line
          /\ c.cacheable <=> m.cacheable
      BY <3>1, WorkFacts
    <3>3. m.line \in Lines /\ m.line \notin DeviceLines /\ m.cacheable
      BY <2>3, <3>1, <3>2, AccessAssumption DEF Legal
    <3>4. WriteApart(m, v) /\ WrittenOK(m, v)
      BY <2>1, <3>1 DEF ValuesOK, WritesOK
    <3>5. ~m.bypass
      BY <2>3, <3>1, <3>3, <3>4 DEF WrittenOK
    <3>6. lr_value[c.hart] = v[m.line]
      BY <2>3, <3>1, <3>3, <3>4, <3>5 DEF WriteApart, Writing, OpWrites
    <3>7. i \in Holders /\ Replaying(m)
      BY <2>3, <3>1, <3>5 DEF Holders, Replaying, Phase, ProbeStates
    <3>8. m.data = Current(m.line)
      BY <3>1, <3>7, HolderCurrent
    <3> QED BY <2>1, <3>1, <3>3, <3>6, <3>8, NotDevice
  <2> QED BY <2>2, <2>3 DEF ScAtomic
<1> QED
  BY <1>1, L2Values, L2Array, L2Invariant, PTL
=============================================================================
