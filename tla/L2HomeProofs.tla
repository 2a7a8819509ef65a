---------------------------- MODULE L2HomeProofs ----------------------------
(***************************************************************************)
(* Proofs about L2Home, for every number of harts, lines, values, MSHRs,    *)
(* waiters, ways and sets, and every depth of its queues: what is in        *)
(* service, and the types and bounds of every register.                     *)
(***************************************************************************)
EXTENDS L2Home, FabricProofs

-----------------------------------------------------------------------------
(* Where a command can be: a queue of the pipeline or the waiters of an      *)
(* MSHR.                                                                     *)

CmdsAt == <<"cmds", 0>>
LookupAt == <<"lookup", 0>>
HitAt == <<"hit", 0>>
ResponsesAt == <<"responses", 0>>
MshrAt(i) == <<"mshr", i>>

Spots == {CmdsAt, LookupAt, HitAt, ResponsesAt} \cup {MshrAt(i) : i \in MshrIds}

CommandsOf(s) == [n \in DOMAIN s |-> s[n].cmd]

\* Pending[s]: the commands at s, oldest first.
Pending ==
    [s \in Spots |->
        CASE s = CmdsAt -> CommandsOf(cmds)
          [] s = LookupAt -> lookup
          [] s = HitAt -> CommandsOf(hit)
          [] s = ResponsesAt -> CommandsOf(responses)
          [] OTHER -> l2mshr[s[2]].waiters]

\* The requester tells the answers to its commands apart by these.
Channel(c) == <<c.hart, c.source, c.op, c.cacheable>>

\* No requester has two commands of a channel in the queues Q at once.
DistinctIn(S, Q) ==
    \A s, t \in S : \A m \in DOMAIN Q[s], n \in DOMAIN Q[t] :
        Channel(Q[s][m]) = Channel(Q[t][n]) => s = t /\ m = n

\* The commands in the queues Q.
Contents(S, Q) == {c \in Commands : \E s \in S : \E n \in DOMAIN Q[s] : Q[s][n] = c}

\* From queues P to Q: the head of a moves to the end of b ...
Moves(S, P, Q, a, b) ==
    /\ a # b /\ P[a] # << >>
    /\ Q[a] = Tail(P[a]) /\ Q[b] = Append(P[b], Head(P[a]))
    /\ \A s \in S \ {a, b} : Q[s] = P[s]

\* ... or leaves, or c joins b.
Leaves(S, P, Q, a) ==
    /\ P[a] # << >>
    /\ Q[a] = Tail(P[a])
    /\ \A s \in S \ {a} : Q[s] = P[s]

Joins(S, P, Q, b, c) ==
    /\ Q[b] = Append(P[b], c)
    /\ \A s \in S \ {b} : Q[s] = P[s]

LEMMA LeavesKeeps ==
    ASSUME NEW S, NEW P \in [S -> Seq(Commands)], NEW Q, NEW a \in S,
           Leaves(S, P, Q, a), DistinctIn(S, P)
    PROVE  /\ DistinctIn(S, Q)
           /\ Head(P[a]) \in Contents(S, P)
           /\ \A c \in Contents(S, Q) :
                 c \in Contents(S, P) /\ Channel(c) # Channel(Head(P[a]))
<1>1. /\ P[a] \in Seq(Commands) /\ P[a] # << >>
      /\ Head(P[a]) = P[a][1] /\ 1 \in DOMAIN P[a] /\ Head(P[a]) \in Commands
  BY HeadTailProperties DEF Leaves
<1>2. \A n \in DOMAIN Q[a] : n + 1 \in DOMAIN P[a] /\ Q[a][n] = P[a][n + 1]
                             /\ n \in Nat /\ n + 1 # 1
  BY <1>1 DEF Leaves
<1>3. \A s \in S : s # a => Q[s] = P[s]
  BY DEF Leaves
<1>4. DistinctIn(S, Q)
  <2> SUFFICES ASSUME NEW s \in S, NEW t \in S,
                      NEW m \in DOMAIN Q[s], NEW n \in DOMAIN Q[t],
                      Channel(Q[s][m]) = Channel(Q[t][n])
               PROVE  s = t /\ m = n
    BY DEF DistinctIn
  <2>1. CASE s = a /\ t = a
    <3>1. m + 1 = n + 1
      BY <1>2, <2>1 DEF DistinctIn
    <3> QED BY <1>2, <2>1, <3>1
  <2>2. CASE s = a /\ t # a
    BY <1>2, <1>3, <2>2 DEF DistinctIn
  <2>3. CASE s # a /\ t = a
    BY <1>2, <1>3, <2>3 DEF DistinctIn
  <2>4. CASE s # a /\ t # a
    BY <1>3, <2>4 DEF DistinctIn
  <2> QED BY <2>1, <2>2, <2>3, <2>4
<1>5. ASSUME NEW c \in Contents(S, Q)
      PROVE  c \in Contents(S, P) /\ Channel(c) # Channel(Head(P[a]))
  <2>1. PICK s \in S : \E n \in DOMAIN Q[s] : Q[s][n] = c
    BY DEF Contents
  <2>2. PICK n \in DOMAIN Q[s] : Q[s][n] = c
    BY <2>1
  <2>3. CASE s = a
    <3>1. n + 1 \in DOMAIN P[a] /\ c = P[a][n + 1] /\ n + 1 # 1
      BY <1>2, <2>2, <2>3
    <3>2. Channel(c) # Channel(P[a][1])
      BY <1>1, <3>1 DEF DistinctIn
    <3> QED BY <1>1, <3>1, <3>2 DEF Contents
  <2>4. CASE s # a
    <3>1. n \in DOMAIN P[s] /\ c = P[s][n]
      BY <1>3, <2>2, <2>4
    <3>2. Channel(c) # Channel(P[a][1])
      BY <1>1, <2>4, <3>1 DEF DistinctIn
    <3> QED BY <1>1, <3>1, <3>2 DEF Contents
  <2> QED BY <2>3, <2>4
<1>6. Head(P[a]) \in Contents(S, P)
  BY <1>1 DEF Contents
<1> QED
  BY <1>4, <1>5, <1>6

LEMMA JoinsKeeps ==
    ASSUME NEW S, NEW P \in [S -> Seq(Commands)], NEW Q, NEW b \in S,
           NEW c \in Commands, Joins(S, P, Q, b, c), DistinctIn(S, P),
           \A d \in Contents(S, P) : Channel(d) # Channel(c)
    PROVE  /\ DistinctIn(S, Q)
           /\ \A d : d \in Contents(S, Q) <=> d \in Contents(S, P) \/ d = c
<1> DEFINE k == Len(P[b]) + 1
<1>1. /\ P[b] \in Seq(Commands) /\ k \in Nat \ {0}
      /\ DOMAIN Q[b] = 1 .. k /\ Q[b][k] = c /\ DOMAIN P[b] = 1 .. (k - 1)
      /\ \A n \in DOMAIN P[b] : Q[b][n] = P[b][n]
  BY AppendProperties DEF Joins
<1>2. \A s \in S : s # b => Q[s] = P[s]
  BY DEF Joins
<1> HIDE DEF k
<1>3. \A s \in S : \A n \in DOMAIN Q[s] :
         \/ s = b /\ n = k /\ Q[s][n] = c
         \/ n \in DOMAIN P[s] /\ Q[s][n] = P[s][n] /\ ~(s = b /\ n = k)
  BY <1>1, <1>2
<1>4. \A s \in S : \A n \in DOMAIN P[s] : P[s][n] \in Contents(S, P)
  BY DEF Contents
<1>5. DistinctIn(S, Q)
  <2> SUFFICES ASSUME NEW s \in S, NEW t \in S,
                      NEW m \in DOMAIN Q[s], NEW n \in DOMAIN Q[t],
                      Channel(Q[s][m]) = Channel(Q[t][n])
               PROVE  s = t /\ m = n
    BY DEF DistinctIn
  <2>1. CASE s = b /\ m = k /\ Q[s][m] = c
    BY <1>3, <1>4, <2>1
  <2>2. CASE m \in DOMAIN P[s] /\ Q[s][m] = P[s][m]
    BY <1>3, <1>4, <2>2 DEF DistinctIn
  <2> QED BY <1>3, <2>1, <2>2
<1>6. Contents(S, Q) \subseteq Contents(S, P) \cup {c}
  BY <1>3 DEF Contents
<1>7. \A s \in S : \A n \in DOMAIN P[s] : n \in DOMAIN Q[s] /\ Q[s][n] = P[s][n]
  <2>1. \A n \in DOMAIN P[b] : n \in DOMAIN Q[b]
    BY <1>1
  <2> QED BY <1>1, <1>2, <2>1
<1>8. k \in DOMAIN Q[b]
  BY <1>1
<1>9. Contents(S, P) \cup {c} \subseteq Contents(S, Q)
  BY <1>1, <1>7, <1>8 DEF Contents
<1> QED
  BY <1>5, <1>6, <1>9

LEMMA MovesKeeps ==
    ASSUME NEW S, NEW P \in [S -> Seq(Commands)], NEW Q,
           NEW a \in S, NEW b \in S, Moves(S, P, Q, a, b), DistinctIn(S, P)
    PROVE  /\ DistinctIn(S, Q)
           /\ \A d : d \in Contents(S, Q) <=> d \in Contents(S, P)
<1> DEFINE R == [P EXCEPT ![a] = Tail(@)]
           c == Head(P[a])
<1>1. P[a] \in Seq(Commands) /\ P[a] # << >> /\ P[b] \in Seq(Commands)
      /\ a # b
  BY DEF Moves
<1>2. c \in Commands /\ Tail(P[a]) \in Seq(Commands)
  BY <1>1, HeadTailProperties
<1>3. R \in [S -> Seq(Commands)]
  BY <1>2
<1>4. Leaves(S, P, R, a)
  BY <1>1 DEF Leaves
<1>5. Joins(S, R, Q, b, c)
  BY <1>1 DEF Joins, Moves
<1> HIDE DEF R
<1>6. /\ DistinctIn(S, R)
      /\ Head(P[a]) \in Contents(S, P)
      /\ \A d \in Contents(S, R) :
             d \in Contents(S, P) /\ Channel(d) # Channel(Head(P[a]))
  BY <1>4, LeavesKeeps
<1>7. /\ DistinctIn(S, Q)
      /\ \A d : d \in Contents(S, Q) <=> d \in Contents(S, R) \/ d = c
  <2>1. \A d \in Contents(S, R) : Channel(d) # Channel(c)
    BY <1>6
  <2>2. c \in Commands /\ DistinctIn(S, R)
    BY <1>2, <1>6
  <2> HIDE DEF c
  <2> QED BY <1>3, <1>5, <2>1, <2>2, JoinsKeeps
<1>8. Contents(S, P) \subseteq Contents(S, R) \cup {c}
  <2> SUFFICES ASSUME NEW d \in Contents(S, P), d # c
               PROVE  d \in Contents(S, R)
    OBVIOUS
  <2>1. PICK s \in S : \E n \in DOMAIN P[s] : P[s][n] = d
    BY DEF Contents
  <2>2. PICK n \in DOMAIN P[s] : P[s][n] = d
    BY <2>1
  <2>3. CASE s = a
    <3>1. n # 1 /\ n \in 1 .. Len(P[a])
      BY <1>1, <2>2, <2>3
    <3>2. R[a] = Tail(P[a])
      BY DEF R
    <3>3. n - 1 \in DOMAIN R[a] /\ R[a][n - 1] = P[a][n]
      BY <1>1, <3>1, <3>2
    <3> QED BY <2>2, <2>3, <3>3 DEF Contents
  <2>4. CASE s # a
    BY <2>2, <2>4 DEF Contents, R
  <2> QED BY <2>3, <2>4
<1> QED
  BY <1>6, <1>7, <1>8

-----------------------------------------------------------------------------
(* The queues of a state.                                                    *)

LEMMA SpotsApart ==
    /\ {CmdsAt, LookupAt, HitAt, ResponsesAt} \subseteq Spots
    /\ \A i \in MshrIds : MshrAt(i) \in Spots /\ MshrAt(i)[2] = i
    /\ \A i, j : MshrAt(i) = MshrAt(j) => i = j
    /\ \A i : MshrAt(i) \notin {CmdsAt, LookupAt, HitAt, ResponsesAt}
    /\ CmdsAt # LookupAt /\ CmdsAt # HitAt /\ CmdsAt # ResponsesAt
    /\ LookupAt # HitAt /\ LookupAt # ResponsesAt /\ HitAt # ResponsesAt
    /\ \A s \in Spots : \/ s \in {CmdsAt, LookupAt, HitAt, ResponsesAt}
                        \/ \E i \in MshrIds : s = MshrAt(i)
  BY DEF Spots, CmdsAt, LookupAt, HitAt, ResponsesAt, MshrAt

\* What is at each spot.
LEMMA PendingAt ==
    /\ Pending[CmdsAt] = CommandsOf(cmds)
    /\ Pending[LookupAt] = lookup
    /\ Pending[HitAt] = CommandsOf(hit)
    /\ Pending[ResponsesAt] = CommandsOf(responses)
    /\ \A i \in MshrIds : Pending[MshrAt(i)] = l2mshr[i].waiters
  BY SpotsApart DEF Pending

LEMMA CommandsOfSeq ==
    ASSUME NEW R, NEW s \in Seq(R), \A r \in R : r.cmd \in Commands
    PROVE  /\ CommandsOf(s) \in Seq(Commands)
           /\ DOMAIN CommandsOf(s) = DOMAIN s
           /\ \A n \in DOMAIN s : CommandsOf(s)[n] = s[n].cmd
           /\ s # << >> => /\ CommandsOf(s) # << >>
                           /\ Head(CommandsOf(s)) = Head(s).cmd
                           /\ CommandsOf(Tail(s)) = Tail(CommandsOf(s))
           /\ \A r \in R : CommandsOf(Append(s, r))
                              = Append(CommandsOf(s), r.cmd)
<1>1. \A t \in Seq(R) : /\ CommandsOf(t) \in Seq(Commands)
                        /\ Len(CommandsOf(t)) = Len(t)
                        /\ DOMAIN CommandsOf(t) = 1 .. Len(t)
                        /\ \A n \in 1 .. Len(t) : CommandsOf(t)[n] = t[n].cmd
  <2> SUFFICES ASSUME NEW t \in Seq(R)
               PROVE  /\ CommandsOf(t) \in Seq(Commands)
                      /\ Len(CommandsOf(t)) = Len(t)
                      /\ DOMAIN CommandsOf(t) = 1 .. Len(t)
                      /\ \A n \in 1 .. Len(t) : CommandsOf(t)[n] = t[n].cmd
    OBVIOUS
  <2>1. DOMAIN t = 1 .. Len(t) /\ Len(t) \in Nat
        /\ \A n \in 1 .. Len(t) : t[n] \in R
    OBVIOUS
  <2>2. CommandsOf(t) = [n \in 1 .. Len(t) |-> t[n].cmd]
    BY <2>1 DEF CommandsOf
  <2>3. \A n \in 1 .. Len(t) : t[n].cmd \in Commands
    BY <2>1
  <2>4. CommandsOf(t) \in Seq(Commands) /\ Len(CommandsOf(t)) = Len(t)
    BY <2>1, <2>2, <2>3, IsASeq
  <2> QED BY <2>2, <2>4
<1>2. ASSUME s # << >>
      PROVE  /\ CommandsOf(s) # << >>
             /\ Head(CommandsOf(s)) = Head(s).cmd
             /\ CommandsOf(Tail(s)) = Tail(CommandsOf(s))
  <2>1. /\ Tail(s) \in Seq(R) /\ Len(s) \in Nat /\ Len(s) # 0
        /\ Len(Tail(s)) = Len(s) - 1 /\ Head(s) = s[1]
        /\ \A n \in 1 .. Len(Tail(s)) : Tail(s)[n] = s[n + 1]
    BY <1>2
  <2> DEFINE C == CommandsOf(s)
  <2>2. /\ C \in Seq(Commands) /\ Len(C) = Len(s)
        /\ \A n \in 1 .. Len(s) : C[n] = s[n].cmd
    BY <1>1
  <2> HIDE DEF C
  <2>3. C # << >> /\ Head(C) = Head(s).cmd
    BY <2>1, <2>2
  <2>4. /\ Tail(C) \in Seq(Commands) /\ Len(Tail(C)) = Len(s) - 1
        /\ \A n \in 1 .. (Len(s) - 1) : Tail(C)[n] = C[n + 1]
    BY <2>1, <2>2, <2>3
  <2>5. \A n \in 1 .. (Len(s) - 1) : CommandsOf(Tail(s))[n] = Tail(C)[n]
    <3> SUFFICES ASSUME NEW n \in 1 .. (Len(s) - 1)
                 PROVE  CommandsOf(Tail(s))[n] = Tail(C)[n]
      OBVIOUS
    <3>1. n + 1 \in 1 .. Len(s) /\ n \in 1 .. Len(Tail(s))
      BY <2>1
    <3>2. CommandsOf(Tail(s))[n] = Tail(s)[n].cmd
      BY <1>1, <2>1, <3>1
    <3>3. Tail(s)[n] = s[n + 1] /\ C[n + 1] = s[n + 1].cmd
      BY <2>1, <2>2, <3>1
    <3> QED BY <2>4, <3>2, <3>3
  <2>6. CommandsOf(Tail(s)) = Tail(C)
    BY <1>1, <2>1, <2>4, <2>5, SeqEqual
  <2> QED BY <2>3, <2>6 DEF C
<1>3. ASSUME NEW r \in R
      PROVE  CommandsOf(Append(s, r)) = Append(CommandsOf(s), r.cmd)
  <2> DEFINE C == CommandsOf(s)
             D == CommandsOf(Append(s, r))
             c == r.cmd
  <2>1. /\ C \in Seq(Commands) /\ Len(C) = Len(s) /\ Len(s) \in Nat
        /\ \A n \in 1 .. Len(s) : C[n] = s[n].cmd
    BY <1>1
  <2>2. /\ Append(s, r) \in Seq(R) /\ Len(Append(s, r)) = Len(s) + 1
        /\ Append(s, r)[Len(s) + 1] = r
        /\ \A n \in 1 .. Len(s) : Append(s, r)[n] = s[n]
    BY AppendProperties
  <2>3. /\ D \in Seq(Commands) /\ Len(D) = Len(s) + 1
        /\ \A n \in 1 .. (Len(s) + 1) : D[n] = Append(s, r)[n].cmd
    BY <1>1, <2>2
  <2> HIDE DEF C, D
  <2>4. c \in Commands
    OBVIOUS
  <2>5. c = r.cmd
    OBVIOUS
  <2> HIDE DEF c
  <2>6. /\ Append(C, c) \in Seq(Commands) /\ Len(Append(C, c)) = Len(s) + 1
        /\ Append(C, c)[Len(s) + 1] = c
        /\ \A n \in 1 .. Len(s) : Append(C, c)[n] = C[n]
    BY <2>1, <2>4, AppendProperties
  <2>7. \A n \in 1 .. (Len(s) + 1) : D[n] = Append(C, c)[n]
    <3> SUFFICES ASSUME NEW n \in 1 .. (Len(s) + 1)
                 PROVE  D[n] = Append(C, c)[n]
      OBVIOUS
    <3>1. CASE n = Len(s) + 1
      BY <2>2, <2>3, <2>5, <2>6, <3>1
    <3>2. CASE n # Len(s) + 1
      <4>1. n \in 1 .. Len(s)
        BY <2>1, <3>2
      <4> QED BY <2>1, <2>2, <2>3, <2>6, <4>1
    <3> QED BY <3>1, <3>2
  <2>8. D = Append(C, c)
    BY <2>3, <2>6, <2>7, SeqEqual
  <2> QED BY <2>8 DEF C, D, c
<1>4. DOMAIN s = 1 .. Len(s)
  OBVIOUS
<1> QED
  BY <1>1, <1>2, <1>3, <1>4

LEMMA PendingAtNext ==
    /\ Pending'[CmdsAt] = CommandsOf(cmds')
    /\ Pending'[LookupAt] = lookup'
    /\ Pending'[HitAt] = CommandsOf(hit')
    /\ Pending'[ResponsesAt] = CommandsOf(responses')
    /\ \A i \in MshrIds : Pending'[MshrAt(i)] = l2mshr'[i].waiters
  BY SpotsApart DEF Pending

LEMMA QueueTypes ==
    ASSUME L2TypeOK
    PROVE  /\ cmds \in Seq([cmd: Commands, beat: BOOLEAN])
           /\ \A r \in [cmd: Commands, beat: BOOLEAN] : r.cmd \in Commands
           /\ hit \in Seq(Responses) /\ responses \in Seq(Responses)
           /\ \A r \in Responses : r.cmd \in Commands
           /\ lookup \in Seq(Commands)
           /\ \A i \in MshrIds : l2mshr[i].waiters \in Seq(Commands)
  BY DEF L2TypeOK, Responses, L2Mshrs

LEMMA PendingType == L2TypeOK => Pending \in [Spots -> Seq(Commands)]
<1> SUFFICES ASSUME L2TypeOK PROVE Pending \in [Spots -> Seq(Commands)]
  OBVIOUS
<1>1. /\ CommandsOf(cmds) \in Seq(Commands)
      /\ CommandsOf(hit) \in Seq(Commands)
      /\ CommandsOf(responses) \in Seq(Commands)
  BY QueueTypes, CommandsOfSeq
<1>2. \A s \in Spots : Pending[s] \in Seq(Commands)
  <2> SUFFICES ASSUME NEW s \in Spots PROVE Pending[s] \in Seq(Commands)
    OBVIOUS
  <2>1. ASSUME NEW i \in MshrIds, s = MshrAt(i)
        PROVE  Pending[s] \in Seq(Commands)
    BY <2>1, QueueTypes, PendingAt
  <2>2. CASE s \in {CmdsAt, LookupAt, HitAt, ResponsesAt}
    BY <1>1, <2>2, QueueTypes, PendingAt
  <2> QED BY <2>1, <2>2, SpotsApart
<1> QED
  BY <1>2 DEF Pending

LEMMA OneElement ==
    ASSUME NEW S, NEW s \in Seq(S), Len(s) <= 1, s # << >>
    PROVE  s = <<Head(s)>> /\ Tail(s) = << >>
<1>0. Len(s) \in Nat /\ Len(s) # 0
  BY EmptySeq
<1>1. Len(s) = 1 /\ Head(s) = s[1] /\ s[1] \in S
  <2>1. Len(s) = 1
    BY <1>0
  <2>2. Head(s) = s[1]
    BY HeadTailProperties
  <2>3. s[1] \in S
    BY <2>1, ElementOfSeq
  <2> QED BY <2>1, <2>2, <2>3
<1>2. Tail(s) \in Seq(S) /\ Len(Tail(s)) = 0
  BY <1>1
<1>3. /\ <<Head(s)>> \in Seq(S) /\ Len(<<Head(s)>>) = 1
      /\ <<Head(s)>>[1] = s[1]
  BY <1>1
<1>4. s = <<Head(s)>>
  BY <1>1, <1>3, SeqEqual
<1> QED
  BY <1>2, <1>4, EmptySeq

LEMMA AppendFirst ==
    ASSUME NEW S, NEW x \in S PROVE Append(<< >>, x) = <<x>> /\ <<x>> \in Seq(S)
  OBVIOUS

\* lookup_capture moves the head of the FIFO to the lookup stage.
LEMMA CaptureMoves ==
    ASSUME L2TypeOK, Capture
    PROVE  Moves(Spots, Pending, Pending', CmdsAt, LookupAt)
<1>1. /\ cmds # << >> /\ lookup = << >> /\ cmds' = Tail(cmds)
      /\ lookup' = <<Head(cmds).cmd>> /\ UNCHANGED <<hit, l2mshr, responses>>
  BY DEF Capture
<1>2. /\ CommandsOf(cmds) # << >>
      /\ Head(CommandsOf(cmds)) = Head(cmds).cmd
      /\ CommandsOf(Tail(cmds)) = Tail(CommandsOf(cmds))
  BY <1>1, QueueTypes, CommandsOfSeq
<1>3. Pending'[CmdsAt] = Tail(Pending[CmdsAt]) /\ Pending[CmdsAt] # << >>
  BY <1>1, <1>2, PendingAt, PendingAtNext
<1>4. Pending'[LookupAt] = Append(Pending[LookupAt], Head(Pending[CmdsAt]))
  BY <1>1, <1>2, PendingAt, PendingAtNext
<1>5. \A s \in Spots \ {CmdsAt, LookupAt} : Pending'[s] = Pending[s]
  BY <1>1, PendingAt, PendingAtNext, SpotsApart
<1> QED
  BY <1>3, <1>4, <1>5, SpotsApart DEF Moves

\* A command that is answered moves to the hit stage.
LEMMA HitMoves ==
    ASSUME L2TypeOK, lookup # << >>, lookup' = << >>, hit = << >>,
           NEW r \in Responses, r.cmd = Cmd, hit' = <<r>>,
           UNCHANGED <<cmds, l2mshr, responses>>
    PROVE  Moves(Spots, Pending, Pending', LookupAt, HitAt)
<1>1. lookup = <<Cmd>> /\ Tail(lookup) = << >> /\ Cmd \in Commands
  BY OneElement DEF L2TypeOK, Cmd
<1>2. CommandsOf(hit') = <<Cmd>> /\ CommandsOf(hit) = << >>
  BY DEF CommandsOf
<1>3. Pending'[LookupAt] = Tail(Pending[LookupAt]) /\ Pending[LookupAt] # << >>
  BY <1>1, PendingAt, PendingAtNext
<1>4. Pending'[HitAt] = Append(Pending[HitAt], Head(Pending[LookupAt]))
  BY <1>1, <1>2, PendingAt, PendingAtNext
<1>5. \A s \in Spots \ {LookupAt, HitAt} : Pending'[s] = Pending[s]
  BY PendingAt, PendingAtNext, SpotsApart
<1> QED
  BY <1>3, <1>4, <1>5, SpotsApart DEF Moves

\* One that takes or joins an MSHR moves to its waiters.
LEMMA WaiterMoves ==
    ASSUME L2TypeOK, lookup # << >>, lookup' = << >>,
           NEW i \in MshrIds, NEW m, l2mshr' = [l2mshr EXCEPT ![i] = m],
           m.waiters = Append(l2mshr[i].waiters, Cmd),
           UNCHANGED <<cmds, hit, responses>>
    PROVE  Moves(Spots, Pending, Pending', LookupAt, MshrAt(i))
<1>1. lookup = <<Cmd>> /\ Tail(lookup) = << >>
  BY OneElement DEF L2TypeOK, Cmd
<1>2. l2mshr'[i] = m /\ \A j \in MshrIds : j # i => l2mshr'[j] = l2mshr[j]
  BY DEF L2TypeOK
<1>3. Pending'[LookupAt] = Tail(Pending[LookupAt]) /\ Pending[LookupAt] # << >>
  BY <1>1, PendingAt, PendingAtNext
<1>4. Head(Pending[LookupAt]) = Cmd
  BY PendingAt DEF Cmd
<1>5. Pending'[MshrAt(i)] = Append(Pending[MshrAt(i)], Cmd)
  BY <1>2, PendingAt, PendingAtNext
<1>6. \A s \in Spots \ {LookupAt, MshrAt(i)} : Pending'[s] = Pending[s]
  BY <1>2, PendingAt, PendingAtNext, SpotsApart
<1> QED
  BY <1>3, <1>4, <1>5, <1>6, SpotsApart DEF Moves

\* A response moves from the hit stage, or from an MSHR, to the FIFO ...
LEMMA HitEnqueueMoves ==
    ASSUME L2TypeOK, HitEnqueue
    PROVE  Moves(Spots, Pending, Pending', HitAt, ResponsesAt)
<1> DEFINE r == Head(hit)
<1>1. /\ hit # << >> /\ hit' = << >> /\ responses' = Append(responses, r)
      /\ UNCHANGED <<cmds, lookup, l2mshr>>
  BY DEF HitEnqueue, Enqueue
<1>2. hit = <<r>> /\ Tail(hit) = << >> /\ r \in Responses
  BY <1>1, OneElement, QueueTypes DEF L2TypeOK
<1> HIDE DEF r
<1>3. CommandsOf(hit) = <<r.cmd>> /\ CommandsOf(hit') = << >>
  BY <1>1, <1>2 DEF CommandsOf
<1>4. CommandsOf(responses') = Append(CommandsOf(responses), r.cmd)
  BY <1>1, <1>2, QueueTypes, CommandsOfSeq
<1>5. Pending'[HitAt] = Tail(Pending[HitAt]) /\ Pending[HitAt] # << >>
  BY <1>3, PendingAt, PendingAtNext
<1>6. Pending'[ResponsesAt] = Append(Pending[ResponsesAt], Head(Pending[HitAt]))
  BY <1>3, <1>4, PendingAt, PendingAtNext
<1>7. \A s \in Spots \ {HitAt, ResponsesAt} : Pending'[s] = Pending[s]
  BY <1>1, PendingAt, PendingAtNext, SpotsApart
<1> QED
  BY <1>5, <1>6, <1>7, SpotsApart DEF Moves

\* ... and leaves it when the requester takes it.
LEMMA RespondLeaves ==
    ASSUME L2TypeOK, Respond
    PROVE  /\ Leaves(Spots, Pending, Pending', ResponsesAt)
           /\ Head(Pending[ResponsesAt]) = Head(responses).cmd
<1>1. /\ responses # << >> /\ responses' = Tail(responses)
      /\ UNCHANGED <<cmds, lookup, hit, l2mshr>>
  BY DEF Respond
<1>2. /\ CommandsOf(responses) # << >>
      /\ Head(CommandsOf(responses)) = Head(responses).cmd
      /\ CommandsOf(Tail(responses)) = Tail(CommandsOf(responses))
  BY <1>1, QueueTypes, CommandsOfSeq
<1>3. \A s \in Spots \ {ResponsesAt} : Pending'[s] = Pending[s]
  BY <1>1, PendingAt, PendingAtNext, SpotsApart
<1> QED
  BY <1>1, <1>2, <1>3, PendingAt, PendingAtNext DEF Leaves

\* A new command joins the command FIFO.
LEMMA PushJoins ==
    ASSUME L2TypeOK, NEW c \in Commands, Push(c)
    PROVE  Joins(Spots, Pending, Pending', CmdsAt, c)
<1> DEFINE r == [cmd |-> c, beat |-> FALSE]
<1>1. cmds' = Append(cmds, r) /\ UNCHANGED <<lookup, hit, l2mshr, responses>>
  BY DEF Push
<1>2. r \in [cmd: Commands, beat: BOOLEAN] /\ r.cmd = c
  OBVIOUS
<1> HIDE DEF r
<1>3. CommandsOf(cmds') = Append(CommandsOf(cmds), c)
  BY <1>1, <1>2, QueueTypes, CommandsOfSeq
<1>4. \A s \in Spots \ {CmdsAt} : Pending'[s] = Pending[s]
  BY <1>1, PendingAt, PendingAtNext, SpotsApart
<1> QED
  BY <1>3, <1>4, PendingAt, PendingAtNext DEF Joins

\* Steps of the MSHRs, the memory and the beats move no command.
LEMMA NothingMoves ==
    ASSUME CommandsOf(cmds') = CommandsOf(cmds),
           \A i \in MshrIds : l2mshr'[i].waiters = l2mshr[i].waiters,
           UNCHANGED <<lookup, hit, responses>>
    PROVE  Pending' = Pending
<1>1. \A s \in Spots : Pending'[s] = Pending[s]
  BY PendingAt, PendingAtNext, SpotsApart
<1> QED
  BY <1>1 DEF Pending
-----------------------------------------------------------------------------
(* What is in service.                                                       *)

DLines == LoadLines \cup AtomicLines

\* A read whose answer an L1D may install.
DFill(c) == c.source = "DCACHE" /\ c.op = "READ" /\ c.cacheable

\* The commands the requesters send.
Legal(c) ==
    /\ c.source = "LEGACY" <=> c.err # "none"
    /\ c.source = "LEGACY" => c.op \in {"READ", "WRITE"}
    /\ c.cacheable <=> c.op # "FENCE" /\ c.line \notin DeviceLines
    /\ c.source = "ICACHE" => c.op = "READ" /\ c.line \in FetchLines
    /\ c.source = "PTW" => c.op \in {"READ", "FENCE"} /\ c.line \in PtwLines
    /\ c.op \in {"LR", "SC"} => c.source = "DCACHE" /\ c.line \in AtomicLines
    /\ DFill(c) => c.line \in DLines

\* What a requester waits for while its command is in service.
Waits(c) ==
    /\ c.source = "DCACHE" /\ c.op = "WRITE" /\ c.cacheable
          => stores[c.hart] # << >>
    /\ DFill(c) => /\ mshr[c.hart].state = "issued"
                   /\ mshr[c.hart].line = c.line
    /\ c.source = "DCACHE" /\ c.op = "LR"
          => marked[c.hart].state = "lr_reserve"
             /\ marked[c.hart].line = c.line
    /\ c.source = "DCACHE" /\ c.op = "SC"
          => marked[c.hart].state = "sc_send" /\ marked[c.hart].line = c.line
    /\ c.source = "DCACHE" /\ c.op = "FENCE" => marked[c.hart].state = "fence"

\* The lines each access is about; a marked write that is sent has revoked the
\* hart's own copy.
AccessInv ==
    /\ \A h \in Harts : marked[h].state = "sc_send" =>
          mshr[h].state = "free" /\ dcache[h][marked[h].line] = Absent
    /\ \A h \in Harts : mshr[h].state # "free" => mshr[h].line \in DLines
    /\ \A h \in Harts : marked[h].state \notin {"idle", "fence"} =>
          marked[h].line \in AtomicLines
    /\ \A h \in Harts : fetch[h] # NoLine => fetch[h] \in FetchLines
    /\ \A h \in Harts : \A n \in DOMAIN stores[h] :
          stores[h][n].line \in StoreLines
    /\ \A h \in Harts, l \in Lines : dcache[h][l] # Absent => l \in DLines

ServiceInv ==
    /\ DistinctIn(Spots, Pending)
    /\ \A c \in Contents(Spots, Pending) : Legal(c) /\ Waits(c)
    /\ AccessInv

\* No access that is in service is given up.
KeepsWaiting ==
    /\ \A h \in Harts : stores[h] # << >> => stores'[h] # << >>
    /\ \A h \in Harts : mshr[h].state = "issued" =>
          mshr'[h].state = "issued" /\ mshr'[h].line = mshr[h].line
    /\ \A h \in Harts : marked[h].state \in {"lr_reserve", "sc_send", "fence"}
          => marked'[h].state = marked[h].state
             /\ marked'[h].line = marked[h].line

LEMMA WaitsKept ==
    ASSUME KeepsWaiting, NEW c \in Commands, Waits(c)
    PROVE  Waits(c)'
<1>1. c.hart \in Harts
  BY DEF Commands
<1> QED
  BY <1>1 DEF KeepsWaiting, Waits

LEMMA ServiceMoved ==
    ASSUME L2TypeOK, ServiceInv, UNCHANGED privateVars,
           NEW s \in Spots, NEW t \in Spots,
           Moves(Spots, Pending, Pending', s, t)
    PROVE  ServiceInv'
<1>1. DistinctIn(Spots, Pending')
      /\ \A d : d \in Contents(Spots, Pending') <=> d \in Contents(Spots, Pending)
  <2>1. \A Q : Moves(Spots, Pending, Q, s, t) =>
           DistinctIn(Spots, Q)
           /\ \A d : d \in Contents(Spots, Q) <=> d \in Contents(Spots, Pending)
    BY PendingType, MovesKeeps DEF ServiceInv
  <2> QED BY <2>1
<1>2. AccessInv'
  BY DEF ServiceInv, AccessInv, privateVars
<1>3. \A c : Waits(c) => Waits(c)'
  BY DEF Waits, privateVars
<1> QED
  BY <1>1, <1>2, <1>3 DEF ServiceInv

LEMMA ServiceStays ==
    ASSUME ServiceInv, Pending' = Pending, KeepsWaiting, AccessInv'
    PROVE  ServiceInv'
<1>1. \A c \in Contents(Spots, Pending) : Waits(c)'
  BY WaitsKept DEF ServiceInv, Contents
<1> QED
  BY <1>1 DEF ServiceInv

LEMMA NoPrivateStep ==
    (UNCHANGED privateVars) => KeepsWaiting /\ (AccessInv => AccessInv')
  BY DEF privateVars, KeepsWaiting, AccessInv

\* What AccessInv and the types give of one hart.
LEMMA AccessFacts ==
    ASSUME PrivateTypeOK, AccessInv
    PROVE  /\ \A g \in Harts : marked[g].state = "sc_send" =>
                 mshr[g].state = "free" /\ dcache[g][marked[g].line] = Absent
           /\ \A g \in Harts : mshr[g].state # "free" =>
                 mshr[g].line \in DLines
           /\ \A g \in Harts : marked[g].state \notin {"idle", "fence"} =>
                 marked[g].line \in AtomicLines
           /\ \A g \in Harts : fetch[g] # NoLine => fetch[g] \in FetchLines
           /\ \A g \in Harts : \A n \in DOMAIN stores[g] :
                 stores[g][n].line \in StoreLines
           /\ \A g \in Harts, l \in Lines : dcache[g][l] # Absent => l \in DLines
           /\ \A g \in Harts : marked[g].line \in Lines /\ mshr[g].line \in Lines
           /\ mshr \in [Harts -> Mshrs] /\ marked \in [Harts -> Marked]
           /\ dcache \in [Harts -> [Lines -> DataOrAbsent]]
           /\ stores \in [Harts -> Seq(StoreEntries)]
           /\ Absent \notin Values
  BY ValuesAssumption DEF AccessInv, PrivateTypeOK, Marked, Mshrs

\* It is enough that no line changes outside the D-lines, that a hart with a
\* pending SC gains no copy, and that the waiting accesses keep their lines.
LEMMA AccessKept ==
    ASSUME PrivateTypeOK, AccessInv,
           \A g \in Harts : marked'[g].state = "sc_send" =>
              mshr'[g].state = "free" /\ dcache'[g][marked'[g].line] = Absent,
           \A g \in Harts : mshr'[g].state # "free" => mshr'[g].line \in DLines,
           \A g \in Harts : marked'[g].state \notin {"idle", "fence"} =>
              marked'[g].line \in AtomicLines,
           \A g \in Harts, l \in Lines : dcache'[g][l] # Absent => l \in DLines,
           UNCHANGED <<fetch, stores>>
    PROVE  AccessInv'
  BY DEF AccessInv

LEMMA AppendsStore ==
    ASSUME NEW s \in Seq(StoreEntries), NEW e \in StoreEntries
    PROVE  /\ Append(s, e) # << >>
           /\ \A n \in DOMAIN Append(s, e) :
                 Append(s, e)[n] = e \/ (n \in DOMAIN s /\ Append(s, e)[n] = s[n])
  BY AppendProperties

\* An access of an L1D gives up nothing that is in service.
LEMMA L1DWaiting ==
    ASSUME PrivateTypeOK, AccessInv, NEW h \in Harts, NEW blocked,
           L1DAccess(h, blocked)
    PROVE  KeepsWaiting /\ AccessInv'
<1> USE AccessFacts DEF KeepsWaiting
<1>1. ASSUME NEW l \in Lines, LoadMiss(h, l) PROVE KeepsWaiting /\ AccessInv'
  <2>1. /\ l \in DLines /\ marked[h].state = "idle" /\ mshr[h].state = "free"
        /\ UNCHANGED <<dcache, fetch, stores, marked>>
    BY <1>1 DEF LoadMiss, DLines
  <2>2. mshr'[h].state = "need" /\ mshr'[h].line = l
        /\ \A g \in Harts : g # h => mshr'[g] = mshr[g]
    BY <1>1 DEF LoadMiss, AllocateMshr
  <2> QED BY <2>1, <2>2, AccessKept
<1>2. ASSUME NEW l \in Lines, NEW v \in Values, Store(h, l, v)
      PROVE  KeepsWaiting /\ AccessInv'
  <2> DEFINE e == [line |-> l, data |-> v]
  <2>1. /\ l \in StoreLines /\ marked[h].state = "idle"
        /\ UNCHANGED <<fetch, marked>>
        /\ stores' = [stores EXCEPT ![h] = Append(@, e)]
    BY <1>2 DEF Store
  <2>2. \A g \in Harts : /\ mshr'[g].state = mshr[g].state
                         /\ mshr'[g].line = mshr[g].line
    BY <1>2 DEF Store, Mshrs
  <2>3. \A g \in Harts, x \in Lines :
           dcache'[g][x] = dcache[g][x] \/ (g = h /\ dcache[g][x] # Absent)
    BY <1>2 DEF Store
  <2>4. e \in StoreEntries /\ e.line = l
    BY DEF StoreEntries
  <2> HIDE DEF e
  <2>5. \A g \in Harts : g # h => stores'[g] = stores[g]
    BY <2>1
  <2>6. /\ stores'[h] # << >>
        /\ \A n \in DOMAIN stores'[h] : stores'[h][n].line \in StoreLines
    BY <2>1, <2>4, AppendsStore
  <2>7. KeepsWaiting
    BY <2>1, <2>2, <2>5, <2>6
  <2>8. \A g \in Harts : marked'[g].state = "sc_send" =>
           mshr'[g].state = "free" /\ dcache'[g][marked'[g].line] = Absent
    BY <2>1, <2>2, <2>3
  <2>9. \A g \in Harts, x \in Lines : dcache'[g][x] # Absent => x \in DLines
    BY <2>3
  <2>10. \A g \in Harts : \A n \in DOMAIN stores'[g] :
            stores'[g][n].line \in StoreLines
    BY <2>5, <2>6
  <2>11. \A g \in Harts : mshr'[g].state # "free" => mshr'[g].line \in DLines
    BY <2>2
  <2>12. \A g \in Harts : /\ marked'[g].state \notin {"idle", "fence"} =>
                                marked'[g].line \in AtomicLines
                          /\ fetch'[g] # NoLine => fetch'[g] \in FetchLines
    BY <2>1
  <2>13. AccessInv'
    BY ONLY <2>8, <2>9, <2>10, <2>11, <2>12 DEF AccessInv
  <2> QED BY <2>7, <2>13
<1>3. ASSUME NEW victim, FillInstall(h, victim)
      PROVE  KeepsWaiting /\ AccessInv'
  <2>1. /\ mshr[h].state = "complete"
        /\ mshr'[h].state \in {"free", "filled"}
        /\ mshr'[h].state = "filled" => mshr'[h].line = mshr[h].line
        /\ \A g \in Harts : g # h => mshr'[g] = mshr[g]
    BY <1>3 DEF FillInstall, FreeMshr, Mshrs
  <2>2. /\ \A g \in Harts : g # h => dcache'[g] = dcache[g]
        /\ \A l \in Lines : l # mshr[h].line =>
              dcache'[h][l] \in {Absent, dcache[h][l]}
        /\ UNCHANGED <<fetch, stores, marked>>
    BY <1>3 DEF FillInstall
  <2>3. marked[h].state # "sc_send"
    BY <2>1
  <2> QED BY <2>1, <2>2, <2>3, AccessKept
<1>4. ASSUME NEW st \in MarkedStates, NEW l \in Lines, NEW v \in Values,
             st = "fence" \/ (l \in AtomicLines /\ st # "sc_send"),
             BeginMarked(h, st, l, v)
      PROVE  KeepsWaiting /\ AccessInv'
  <2>1. marked[h].state = "idle" /\ UNCHANGED <<dcache, fetch, stores>>
    BY <1>4 DEF BeginMarked
  <2>2. marked'[h].state = st /\ marked'[h].line = l
        /\ \A g \in Harts : g # h => marked'[g] = marked[g]
    BY <1>4 DEF BeginMarked
  <2>3. \A g \in Harts :
           /\ mshr'[g].line = mshr[g].line
           /\ mshr[g].state \in {"free", "issued"}
                 => mshr'[g].state = mshr[g].state
           /\ mshr[g].state # "free" => mshr'[g].state # "free"
    BY <1>4 DEF BeginMarked, AfterBarrier, Mshrs
  <2>4. \A g \in Harts : mshr'[g].state # "free" => mshr'[g].line \in DLines
    BY <2>3
  <2> QED BY <1>4, <2>1, <2>2, <2>3, <2>4, AccessKept
<1>5. CASE \E l \in Lines : BeginLR(h, l)
  BY <1>4, <1>5, ValuesAssumption DEF BeginLR, MarkedStates
<1>6. CASE \E l \in Lines, v \in Values : BeginSC(h, l, v)
  BY <1>4, <1>6 DEF BeginSC, MarkedStates
<1>7. CASE BeginFence(h)
  BY <1>4, <1>7, SomeLine, ValuesAssumption DEF BeginFence, MarkedStates
<1>8. CASE LRHit(h) \/ LRFill(h)
  <2>1. /\ marked[h].state = "lr_lookup" /\ marked'[h].state = "idle"
        /\ \A g \in Harts : g # h => marked'[g] = marked[g]
        /\ UNCHANGED <<dcache, fetch, stores>>
    BY <1>8 DEF LRHit, LRFill, NoMarked
  <2>2. /\ \A g \in Harts : g # h => mshr'[g] = mshr[g]
        /\ mshr'[h] = mshr[h] \/ (mshr[h].state = "filled"
                                  /\ mshr'[h].state = "free")
    BY <1>8 DEF LRHit, LRFill, FreeMshr
  <2> QED BY <2>1, <2>2, AccessKept
<1>9. CASE LRMiss(h)
  <2>1. marked[h].state = "lr_lookup" /\ mshr[h].state = "free"
        /\ UNCHANGED <<dcache, fetch, stores, marked>>
    BY <1>9 DEF LRMiss
  <2>2. mshr'[h].state = "need" /\ mshr'[h].line = marked[h].line
        /\ \A g \in Harts : g # h => mshr'[g] = mshr[g]
    BY <1>9 DEF LRMiss, AllocateMshr
  <2>3. marked[h].line \in DLines
    BY <2>1 DEF DLines
  <2> QED BY <2>1, <2>2, <2>3, AccessKept
<1>10. CASE SelfInvalidate(h)
  <2>1. marked[h].state = "sc_invalidate" /\ mshr[h].state = "free"
        /\ UNCHANGED <<fetch, stores, mshr>>
    BY <1>10 DEF SelfInvalidate
  <2>2. /\ dcache'[h][marked[h].line] = Absent
        /\ \A g \in Harts, l \in Lines : dcache'[g][l] \in {Absent, dcache[g][l]}
    BY <1>10 DEF SelfInvalidate
  <2>3. /\ marked'[h].state = "sc_send"
        /\ \A g \in Harts : /\ marked'[g].line = marked[g].line
                            /\ g # h => marked'[g] = marked[g]
    BY <1>10 DEF SelfInvalidate, Marked
  <2>4. \A g \in Harts : marked'[g].state = "sc_send" =>
           mshr'[g].state = "free" /\ dcache'[g][marked'[g].line] = Absent
    <3> SUFFICES ASSUME NEW g \in Harts, marked'[g].state = "sc_send"
                 PROVE  mshr'[g].state = "free"
                        /\ dcache'[g][marked'[g].line] = Absent
      OBVIOUS
    <3>1. CASE g = h
      BY <2>1, <2>2, <2>3, <3>1
    <3>2. CASE g # h
      <4>1. mshr[g].state = "free" /\ dcache[g][marked[g].line] = Absent
        BY <2>3, <3>2
      <4> QED BY <2>1, <2>2, <2>3, <4>1
    <3> QED BY <3>1, <3>2
  <2>5. \A g \in Harts : marked'[g].state \notin {"idle", "fence"} =>
           marked'[g].line \in AtomicLines
    BY <2>1, <2>3
  <2>6. \A g \in Harts, x \in Lines : dcache'[g][x] # Absent => x \in DLines
    BY <2>2
  <2>7. KeepsWaiting
    BY <2>1, <2>3
  <2> QED BY <2>1, <2>4, <2>5, <2>6, <2>7, AccessKept
<1> QED
  BY <1>1, <1>2, <1>3, <1>5, <1>6, <1>7, <1>8, <1>9, <1>10 DEF L1DAccess

\* A snoop that the L1D completes neither.
LEMMA SnoopWaiting ==
    ASSUME PrivateTypeOK, AccessInv, NEW h \in Harts, NEW l \in Lines,
           SnoopInvalidate(h, l)
    PROVE  KeepsWaiting /\ AccessInv'
<1> USE AccessFacts DEF KeepsWaiting
<1>1. UNCHANGED <<fetch, stores, marked>>
  BY DEF SnoopInvalidate
<1>2. \A g \in Harts, x \in Lines : dcache'[g][x] \in {Absent, dcache[g][x]}
  BY DEF SnoopInvalidate
<1>3. \A g \in Harts :
         /\ mshr'[g].line = mshr[g].line
         /\ mshr[g].state \in {"free", "issued"}
               => mshr'[g].state = mshr[g].state
         /\ mshr[g].state # "free" => mshr'[g].state # "free"
  BY DEF SnoopInvalidate, AfterSnoop, AfterBarrier, Mshrs
<1>4. \A g \in Harts : mshr'[g].state # "free" => mshr'[g].line \in DLines
  BY <1>3
<1>5. \A g \in Harts, x \in Lines : dcache'[g][x] # Absent => x \in DLines
  BY <1>2
<1>6. KeepsWaiting
  BY <1>1, <1>3
<1> QED
  BY <1>1, <1>2, <1>3, <1>4, <1>5, <1>6, AccessKept

\* Nor does the L1I.
LEMMA L1IWaiting ==
    ASSUME AccessInv, PrivateTypeOK, NEW h \in Harts, L1IAccess(h)
    PROVE  KeepsWaiting /\ AccessInv'
<1>1. UNCHANGED <<dcache, stores, mshr, marked>>
  BY DEF L1IAccess, FetchMiss, FenceI
<1>2. \A g \in Harts : fetch'[g] # NoLine => fetch'[g] \in FetchLines
  BY DEF L1IAccess, FetchMiss, FenceI, AccessInv, PrivateTypeOK
<1>3. KeepsWaiting
  BY <1>1 DEF KeepsWaiting
<1>4. AccessInv'
  BY <1>1, <1>2 DEF AccessInv
<1> QED
  BY <1>3, <1>4

\* Every pending command is one that the guards of the requesters see.
LEMMA PendingInService ==
    ASSUME L2TypeOK, NEW c \in Contents(Spots, Pending)
    PROVE  c \in InService
<1>1. PICK s \in Spots : \E n \in DOMAIN Pending[s] : Pending[s][n] = c
  BY DEF Contents
<1>2. PICK n \in DOMAIN Pending[s] : Pending[s][n] = c
  BY <1>1
<1>3. \A R : \A q \in Seq(R) : (\A r \in R : r.cmd \in Commands) =>
         \A k \in DOMAIN CommandsOf(q) :
            k \in DOMAIN q /\ CommandsOf(q)[k] = q[k].cmd
  BY DEF CommandsOf
<1>4. CASE s = CmdsAt
  <2>1. n \in DOMAIN cmds /\ c = cmds[n].cmd
    BY <1>2, <1>4, PendingAt DEF CommandsOf
  <2> QED BY <2>1 DEF InService, Elements
<1>5. CASE s = HitAt
  <2>1. n \in DOMAIN hit /\ c = hit[n].cmd
    BY <1>2, <1>5, PendingAt DEF CommandsOf
  <2> QED BY <2>1 DEF InService, Elements
<1>6. CASE s = ResponsesAt
  <2>1. n \in DOMAIN responses /\ c = responses[n].cmd
    BY <1>2, <1>6, PendingAt DEF CommandsOf
  <2> QED BY <2>1 DEF InService, Elements
<1>7. CASE s = LookupAt
  <2>1. n \in DOMAIN lookup /\ c = lookup[n]
    BY <1>2, <1>7, PendingAt
  <2> QED BY <2>1 DEF InService, Elements
<1>8. ASSUME NEW i \in MshrIds, s = MshrAt(i) PROVE c \in InService
  <2>1. n \in DOMAIN l2mshr[i].waiters /\ c = l2mshr[i].waiters[n]
    BY <1>2, <1>8, PendingAt
  <2> QED BY <2>1 DEF InService, Elements
<1> QED
  BY <1>4, <1>5, <1>6, <1>7, <1>8, SpotsApart

\* A command of a channel that has none in service may join.
LEMMA ServiceJoined ==
    ASSUME L2TypeOK, ServiceInv, NEW c \in Commands, Push(c),
           \A d \in Contents(Spots, Pending) : Channel(d) # Channel(c),
           Legal(c), Waits(c)', KeepsWaiting, AccessInv'
    PROVE  ServiceInv'
<1>2. Joins(Spots, Pending, Pending', CmdsAt, c)
  BY PushJoins
<1>3. DistinctIn(Spots, Pending')
      /\ \A d : d \in Contents(Spots, Pending')
                   <=> d \in Contents(Spots, Pending) \/ d = c
  <2>1. \A Q : Joins(Spots, Pending, Q, CmdsAt, c) =>
           DistinctIn(Spots, Q)
           /\ \A d : d \in Contents(Spots, Q)
                        <=> d \in Contents(Spots, Pending) \/ d = c
    BY PendingType, SpotsApart, JoinsKeeps DEF ServiceInv
  <2> QED BY <1>2, <2>1
<1>4. \A d \in Contents(Spots, Pending) : Waits(d)'
  BY WaitsKept DEF ServiceInv, Contents
<1> QED
  BY <1>3, <1>4 DEF ServiceInv

LEMMA CommandFields ==
    ASSUME NEW h \in Harts, NEW source \in Sources, NEW op \in Ops,
           NEW l \in Lines, NEW v \in Values
    PROVE  LET c == Command(h, source, op, l, v)
           IN  /\ c \in Commands
               /\ c.hart = h /\ c.source = source /\ c.op = op /\ c.line = l
               /\ c.cacheable <=> (op # "FENCE" /\ l \notin DeviceLines)
               /\ c.err = "none"
  BY DEF Command, Commands

\* What a requester sends is legal, and it waits for the answer.
LEMMA SendService ==
    ASSUME L2TypeOK, PrivateTypeOK, ServiceInv, NEW h \in Harts, Send(h)
    PROVE  /\ \E c \in Commands : Push(c)
           /\ PrivateTypeOK' /\ ServiceInv'
<1> USE AccessFacts DEF Sources, Ops
<1>0. AccessInv /\ AccessAssumption /\ DLines \subseteq Lines
  BY AccessAssumption DEF ServiceInv, DLines
<1>1. (UNCHANGED privateVars) => PrivateTypeOK' /\ KeepsWaiting /\ AccessInv'
  BY <1>0, NoPrivateStep DEF privateVars, PrivateTypeOK
<1> DEFINE Goal == (\E c \in Commands : Push(c)) /\ PrivateTypeOK' /\ ServiceInv'
<1>2. ASSUME NEW c \in Commands, Push(c), UNCHANGED privateVars, Legal(c),
             Waits(c), \A d \in InService : Channel(d) # Channel(c)
      PROVE  Goal
  <2>1. Waits(c)'
    BY <1>2 DEF Waits, privateVars
  <2>2. \A d \in Contents(Spots, Pending) : Channel(d) # Channel(c)
    BY <1>2, PendingInService
  <2> QED BY <1>1, <1>2, <2>1, <2>2, ServiceJoined
<1> HIDE DEF Goal
<1>3. CASE SendStore(h)
  <2> DEFINE l == Head(stores[h]).line
             c == Command(h, "DCACHE", "WRITE", l, Head(stores[h]).data)
  <2>1. Head(stores[h]) \in StoreEntries /\ l \in StoreLines
    <3>1. stores[h] # << >> /\ stores[h] \in Seq(StoreEntries)
      BY <1>0, <1>3 DEF SendStore
    <3>2. Head(stores[h]) = stores[h][1] /\ 1 \in DOMAIN stores[h]
          /\ Head(stores[h]) \in StoreEntries
      BY <3>1, HeadTailProperties, EmptySeq
    <3> QED BY <1>0, <3>2
  <2>2. l \in Lines /\ Head(stores[h]).data \in Values /\ l \notin DeviceLines
    BY <1>0, <2>1 DEF StoreEntries
  <2>3. c \in Commands /\ c.hart = h /\ c.source = "DCACHE" /\ c.op = "WRITE"
        /\ c.line = l /\ c.cacheable /\ c.err = "none"
    BY <2>2, CommandFields
  <2>4. Push(c) /\ stores[h] # << >> /\ UNCHANGED privateVars
        /\ ~Outstanding(h, "DCACHE", {"WRITE"}, TRUE)
    BY <1>3 DEF SendStore
  <2> HIDE DEF c, l
  <2>5. \A d \in InService : Channel(d) # Channel(c)
    BY <2>3, <2>4 DEF Outstanding, Channel
  <2>6. Legal(c) /\ Waits(c)
    BY <2>2, <2>3, <2>4 DEF Legal, Waits, DFill
  <2> QED BY <1>2, <2>3, <2>4, <2>5, <2>6 DEF Goal
<1>4. CASE SendFill(h)
  <2> DEFINE l == mshr[h].line
  <2>1. mshr[h].state = "need"
        /\ Push(Command(h, "DCACHE", "READ", l, InitValue))
        /\ mshr' = [mshr EXCEPT ![h].state = "issued"]
        /\ UNCHANGED <<dcache, icache, fetch, stores, marked, lr_value>>
    BY <1>4 DEF SendFill
  <2>2. l \in DLines /\ l \in Lines /\ l \notin DeviceLines
    BY <1>0, <2>1 DEF DLines, AccessAssumption
  <2>3. PICK c \in Commands :
           /\ c = Command(h, "DCACHE", "READ", l, InitValue)
           /\ c.hart = h /\ c.source = "DCACHE" /\ c.op = "READ"
           /\ c.line = l /\ c.cacheable /\ c.err = "none"
    BY <2>2, CommandFields, ValuesAssumption
  <2>4. /\ mshr'[h].state = "issued" /\ mshr'[h].line = l
        /\ \A g \in Harts : g # h => mshr'[g] = mshr[g]
        /\ \A g \in Harts : mshr'[g].line = mshr[g].line
    BY <1>0, <2>1 DEF Mshrs
  <2>5. PrivateTypeOK'
    BY <2>1 DEF PrivateTypeOK, Mshrs
  <2>6. KeepsWaiting
    BY <2>1, <2>4 DEF KeepsWaiting
  <2>7. AccessInv'
    <3>1. marked[h].state # "sc_send"
      BY <1>0, <2>1
    <3> QED BY <1>0, <2>1, <2>2, <2>4, <3>1, AccessKept
  <2>8. Legal(c) /\ Waits(c)'
    <3>1. Legal(c)
      BY <2>2, <2>3 DEF Legal, DFill
    <3>2. Waits(c)'
      BY <2>3, <2>4 DEF Waits, DFill
    <3> QED BY <3>1, <3>2
  <2>9. \A d \in Contents(Spots, Pending) : Channel(d) # Channel(c)
    <3> SUFFICES ASSUME NEW d \in Contents(Spots, Pending),
                        Channel(d) = Channel(c)
                 PROVE  FALSE
      OBVIOUS
    <3>1. DFill(d) /\ d.hart = h
      BY <2>3 DEF Channel, DFill
    <3> QED BY <2>1, <3>1 DEF ServiceInv, Waits
  <2>10. Push(c)
    BY <2>1, <2>3
  <2>11. ServiceInv'
    BY <2>6, <2>7, <2>8, <2>9, <2>10, ServiceJoined
  <2> QED BY <2>5, <2>10, <2>11 DEF Goal
<1>5. ASSUME NEW st \in MarkedStates, NEW op \in Ops, SendMarked(h, st, op),
             <<st, op>> \in {<<"lr_reserve", "LR">>, <<"sc_send", "SC">>,
                             <<"fence", "FENCE">>}
      PROVE  Goal
  <2> DEFINE c == Command(h, "DCACHE", op, marked[h].line, marked[h].data)
  <2>1. marked[h].line \in Lines /\ marked[h].data \in Values
    BY DEF PrivateTypeOK, Marked
  <2>2. marked[h].state = st /\ Push(c) /\ UNCHANGED privateVars
        /\ ~\E d \in InService : d.hart = h /\ d.source = "DCACHE" /\ d.op = op
    BY <1>5 DEF SendMarked
  <2>3. c \in Commands /\ c.hart = h /\ c.source = "DCACHE" /\ c.op = op
        /\ c.line = marked[h].line
        /\ (c.cacheable <=> (op # "FENCE" /\ c.line \notin DeviceLines))
        /\ c.err = "none"
    BY <2>1, CommandFields
  <2> HIDE DEF c
  <2>4. \A d \in InService : Channel(d) # Channel(c)
    BY <2>2, <2>3 DEF Channel
  <2>5. op # "FENCE" => marked[h].line \in AtomicLines
    BY <1>0, <1>5, <2>2
  <2>6. Legal(c)
    BY <1>5, <2>3, <2>5 DEF Legal, DFill
  <2>7. Waits(c)
    BY <1>5, <2>2, <2>3 DEF Waits, DFill
  <2> QED BY <1>2, <2>2, <2>3, <2>4, <2>6, <2>7
<1>6. CASE \/ SendMarked(h, "lr_reserve", "LR")
           \/ SendMarked(h, "sc_send", "SC")
           \/ SendMarked(h, "fence", "FENCE")
  BY <1>5, <1>6 DEF MarkedStates, Goal
<1>7. CASE SendFetch(h)
  <2> DEFINE c == Command(h, "ICACHE", "READ", fetch[h], InitValue)
  <2>1. fetch[h] # NoLine /\ ~Outstanding(h, "ICACHE", {"READ"}, TRUE)
        /\ Push(c) /\ UNCHANGED privateVars
    BY <1>7 DEF SendFetch
  <2>2. fetch[h] \in FetchLines /\ fetch[h] \in Lines
        /\ fetch[h] \notin DeviceLines
    BY <1>0, <2>1 DEF AccessAssumption
  <2>3. c \in Commands /\ c.hart = h /\ c.source = "ICACHE" /\ c.op = "READ"
        /\ c.line = fetch[h] /\ c.cacheable /\ c.err = "none"
    BY <2>2, CommandFields, ValuesAssumption
  <2> HIDE DEF c
  <2>4. \A d \in InService : Channel(d) # Channel(c)
    BY <2>1, <2>3 DEF Outstanding, Channel
  <2>5. Legal(c) /\ Waits(c)
    BY <2>2, <2>3 DEF Legal, Waits, DFill
  <2> QED BY <1>2, <2>1, <2>3, <2>4, <2>5 DEF Goal
<1>8. ASSUME NEW op \in Ops, NEW l \in Lines, SendPtw(h, op, l) PROVE Goal
  <2> DEFINE c == Command(h, "PTW", op, l, InitValue)
  <2>1. op \in {"READ", "FENCE"} /\ l \in PtwLines
        /\ ~(\E d \in InService : d.hart = h /\ d.source = "PTW")
        /\ Push(c) /\ UNCHANGED privateVars
    BY <1>8 DEF SendPtw
  <2>2. c \in Commands /\ c.hart = h /\ c.source = "PTW" /\ c.op = op
        /\ c.line = l /\ c.err = "none"
        /\ (c.cacheable <=> (op # "FENCE" /\ l \notin DeviceLines))
    BY CommandFields, ValuesAssumption
  <2> HIDE DEF c
  <2>3. \A d \in InService : Channel(d) # Channel(c)
    BY <2>1, <2>2 DEF Channel
  <2>4. Legal(c) /\ Waits(c)
    BY <2>1, <2>2 DEF Legal, Waits, DFill
  <2> QED BY <1>2, <2>1, <2>2, <2>3, <2>4
<1>9. ASSUME NEW op \in Ops, NEW l \in Lines, NEW v \in Values,
             SendDevice(h, op, l, v)
      PROVE  Goal
  <2> DEFINE c == Command(h, "DCACHE", op, l, v)
  <2>1. op \in {"READ", "WRITE"} /\ l \in DeviceLines
        /\ ~Outstanding(h, "DCACHE", {"READ", "WRITE"}, FALSE)
        /\ Push(c) /\ UNCHANGED privateVars
    BY <1>9 DEF SendDevice
  <2>2. c \in Commands /\ c.hart = h /\ c.source = "DCACHE" /\ c.op = op
        /\ c.line = l /\ c.err = "none" /\ ~c.cacheable
    BY <2>1, CommandFields
  <2> HIDE DEF c
  <2>3. \A d \in InService : Channel(d) # Channel(c)
    BY <2>1, <2>2 DEF Outstanding, Channel
  <2>4. Legal(c) /\ Waits(c)
    BY <2>1, <2>2 DEF Legal, Waits, DFill
  <2> QED BY <1>2, <2>1, <2>2, <2>3, <2>4
<1>10. ASSUME NEW op \in Ops, NEW l \in Lines, SendMalformed(h, op, l)
       PROVE  Goal
  <2> DEFINE b == Command(h, "LEGACY", op, l, InitValue)
             c == [b EXCEPT !.err = "command"]
  <2>1. op \in {"READ", "WRITE"} /\ ~(\E d \in InService : d.source = "LEGACY")
        /\ Push(c) /\ UNCHANGED privateVars
    BY <1>10 DEF SendMalformed
  <2>2. b \in Commands /\ b.hart = h /\ b.source = "LEGACY" /\ b.op = op
        /\ b.line = l /\ (b.cacheable <=> (op # "FENCE" /\ l \notin DeviceLines))
    BY CommandFields, ValuesAssumption
  <2> HIDE DEF b
  <2>3. c \in Commands /\ c.hart = h /\ c.source = "LEGACY" /\ c.op = op
        /\ c.line = l /\ c.err = "command"
        /\ (c.cacheable <=> (op # "FENCE" /\ l \notin DeviceLines))
    BY <2>2 DEF Commands
  <2> HIDE DEF c
  <2>4. \A d \in InService : Channel(d) # Channel(c)
    BY <2>1, <2>3 DEF Channel
  <2>5. Legal(c) /\ Waits(c)
    BY <2>1, <2>3 DEF Legal, Waits, DFill
  <2> QED BY <1>2, <2>1, <2>3, <2>4, <2>5
<1> QED
  BY <1>3, <1>4, <1>6, <1>7, <1>8, <1>9, <1>10 DEF Send, Goal

\* The answer to a command ends what its requester waited for, and nothing
\* that another command of the hart waits for.
LEMMA ResponseWaiting ==
    ASSUME PrivateTypeOK, AccessInv, NEW c \in Commands, NEW error, NEW data,
           Legal(c), Waits(c), Response(c, error, data)
    PROVE  /\ AccessInv'
           /\ \A d \in Commands :
                 Waits(d) /\ Legal(d) /\ Channel(d) # Channel(c) => Waits(d)'
<1> USE AccessFacts
<1> DEFINE h == c.hart
           Others == \A d \in Commands :
              Waits(d) /\ Legal(d) /\ Channel(d) # Channel(c) => Waits(d)'
<1>1. h \in Harts /\ c.line \in Lines /\ NoLine \notin Lines
  BY LinesAssumption DEF Commands
<1>2. \A d \in Commands : d.hart \in Harts /\ d.op \in Ops
  BY DEF Commands
<1>3. KeepsWaiting => Others
  BY WaitsKept
<1>4. CASE c.source = "ICACHE" /\ FetchResponse(h, c.line, error)
  <2>1. UNCHANGED <<dcache, stores, mshr, marked>>
        /\ \A g \in Harts : fetch'[g] \in {NoLine, fetch[g]}
    BY <1>4 DEF FetchResponse, PrivateTypeOK
  <2>2. KeepsWaiting /\ AccessInv'
    <3>1. KeepsWaiting
      BY <2>1 DEF KeepsWaiting
    <3>2. AccessInv'
      BY <2>1 DEF AccessInv
    <3> QED BY <3>1, <3>2
  <2> QED BY <1>3, <2>2
<1>5. CASE /\ c.source = "DCACHE" /\ c.cacheable /\ c.op = "WRITE"
           /\ StoreResponse(h)
  <2>1. /\ UNCHANGED <<dcache, fetch, mshr, marked>>
        /\ \A g \in Harts : g # h => stores'[g] = stores[g]
        /\ stores'[h] = Tail(stores[h])
    BY <1>1, <1>5 DEF StoreResponse
  <2>2. stores[h] # << >> /\ stores[h] \in Seq(StoreEntries)
    BY <1>1, <1>5 DEF Waits
  <2>3. \A n \in DOMAIN Tail(stores[h]) :
           n + 1 \in DOMAIN stores[h] /\ Tail(stores[h])[n] = stores[h][n + 1]
    BY <2>2
  <2>4. \A g \in Harts : \A n \in DOMAIN stores'[g] :
           stores'[g][n].line \in StoreLines
    <3>1. \A n \in DOMAIN stores'[h] : stores'[h][n].line \in StoreLines
      BY <1>1, <2>1, <2>3
    <3> QED BY <2>1, <3>1
  <2>5. AccessInv'
    BY <2>1, <2>4 DEF AccessInv
  <2>6. ASSUME NEW d \in Commands, Waits(d), Channel(d) # Channel(c)
        PROVE  Waits(d)'
    <3>1. d.source = "DCACHE" /\ d.op = "WRITE" /\ d.cacheable => d.hart # h
      <4>1. c.cacheable = TRUE /\ c.cacheable \in BOOLEAN
            /\ d.cacheable \in BOOLEAN
        BY <1>5 DEF Commands
      <4> QED BY <1>5, <2>6, <4>1 DEF Channel
    <3> QED BY <1>2, <2>1, <2>6, <3>1 DEF Waits
  <2> QED BY <2>5, <2>6
<1>6. CASE DFill(c) /\ FillResponse(h, error, data)
  <2>1. /\ UNCHANGED <<dcache, fetch, stores>>
        /\ \A g \in Harts : g # h =>
              mshr'[g] = mshr[g] /\ marked'[g] = marked[g]
        /\ \/ marked'[h] = marked[h]
           \/ marked[h].state = "lr_lookup" /\ marked'[h].state = "idle"
        /\ mshr'[h].state = "free" \/ mshr'[h].line = mshr[h].line
    BY <1>1, <1>6 DEF FillResponse, FreeMshr, Mshrs, NoMarked
  <2>2. mshr[h].state = "issued" /\ mshr[h].line \in DLines
    BY <1>1, <1>6 DEF Waits
  <2>3. marked[h].state # "sc_send"
    BY <1>1, <2>2
  <2>4. AccessInv'
    <3>1. \A g \in Harts : mshr'[g].state # "free" => mshr'[g].line \in DLines
      BY <2>1, <2>2
    <3>2. \A g \in Harts : marked'[g].state \notin {"idle", "fence"} =>
             marked'[g].line \in AtomicLines
      BY <2>1
    <3>3. \A g \in Harts : marked'[g].state = "sc_send" =>
             mshr'[g].state = "free" /\ dcache'[g][marked'[g].line] = Absent
      BY <2>1, <2>3
    <3> QED BY <2>1, <3>1, <3>2, <3>3, AccessKept
  <2>5. ASSUME NEW d \in Commands, Waits(d), Channel(d) # Channel(c)
        PROVE  Waits(d)'
    <3>1. DFill(d) => d.hart # h
      <4>1. c.cacheable \in BOOLEAN /\ d.cacheable \in BOOLEAN
        BY DEF Commands
      <4> QED BY <1>6, <2>5, <4>1 DEF Channel, DFill
    <3> QED BY <1>2, <2>1, <2>5, <3>1 DEF Waits
  <2> QED BY <2>4, <2>5
<1>7. CASE /\ c.source = "DCACHE" /\ c.op \in {"LR", "SC", "FENCE"}
           /\ MarkedResponse(h, c.op, error)
  <2>1. /\ UNCHANGED <<dcache, fetch, stores, mshr>>
        /\ \A g \in Harts : g # h => marked'[g] = marked[g]
        /\ \/ marked'[h].state = "idle"
           \/ /\ c.op = "LR" /\ marked'[h].state = "lr_lookup"
              /\ marked'[h].line = marked[h].line
    BY <1>1, <1>7 DEF MarkedResponse, NoMarked, Marked
  <2>2. c.op = "LR" => marked[h].line \in AtomicLines
    BY <1>1, <1>7 DEF Waits
  <2>3. AccessInv'
    BY <2>1, <2>2, AccessKept
  <2>4. ASSUME NEW d \in Commands, Waits(d), Legal(d), Legal(c),
               Channel(d) # Channel(c)
        PROVE  Waits(d)'
    <3>1. d.source = "DCACHE" /\ d.op \in {"LR", "SC", "FENCE"} => d.hart # h
      <4> SUFFICES ASSUME d.source = "DCACHE", d.op \in {"LR", "SC", "FENCE"},
                          d.hart = h
                   PROVE  FALSE
        OBVIOUS
      <4>1. d.op = c.op
        BY <1>7, <2>4 DEF Waits
      <4>2. c.cacheable \in BOOLEAN /\ d.cacheable \in BOOLEAN
        BY DEF Commands
      <4>3. c.cacheable <=> d.cacheable
        BY <1>7, <2>4, <4>1, AccessAssumption DEF Legal
      <4> QED BY <1>7, <2>4, <4>1, <4>2, <4>3 DEF Channel
    <3> QED BY <1>2, <2>1, <2>4, <3>1 DEF Waits
  <2> QED BY <2>3, <2>4
<1>8. CASE UNCHANGED privateVars
  BY <1>3, <1>8, NoPrivateStep
<1> QED
  BY <1>4, <1>5, <1>6, <1>7, <1>8 DEF Response, DFill

LEMMA RespondService ==
    ASSUME L2TypeOK, PrivateTypeOK, ServiceInv, Respond
    PROVE  PrivateTypeOK' /\ ServiceInv'
<1> DEFINE r == Head(responses)
<1>1. r \in Responses /\ responses # << >>
  BY DEF Respond, L2TypeOK
<1>2. PICK c \in Commands : c = r.cmd
  BY <1>1 DEF Responses
<1>3. /\ Leaves(Spots, Pending, Pending', ResponsesAt)
      /\ Head(Pending[ResponsesAt]) = c
  BY <1>2, RespondLeaves
<1>4. /\ DistinctIn(Spots, Pending')
      /\ c \in Contents(Spots, Pending)
      /\ \A d \in Contents(Spots, Pending') :
             d \in Contents(Spots, Pending) /\ Channel(d) # Channel(c)
  <2>1. \A Q : Leaves(Spots, Pending, Q, ResponsesAt) =>
           /\ DistinctIn(Spots, Q)
           /\ Head(Pending[ResponsesAt]) \in Contents(Spots, Pending)
           /\ \A d \in Contents(Spots, Q) :
                 d \in Contents(Spots, Pending)
                 /\ Channel(d) # Channel(Head(Pending[ResponsesAt]))
    BY PendingType, SpotsApart, LeavesKeeps DEF ServiceInv
  <2> QED BY <1>3, <2>1
<1>5. Legal(c) /\ Waits(c) /\ AccessInv
  BY <1>4 DEF ServiceInv
<1>6. Response(c, r.error, r.data)
  BY <1>2 DEF Respond
<1>7. r.error \in BOOLEAN /\ r.data \in Values
  BY <1>1 DEF Responses
<1> HIDE DEF r
<1>8. PrivateTypeOK'
  <2>1. c.source = "DCACHE" /\ c.op = "WRITE" /\ c.cacheable =>
           stores[c.hart] # << >>
    BY <1>5 DEF Waits
  <2> QED BY <1>6, <1>7, <2>1, ResponseType
<1>9. /\ AccessInv'
      /\ \A d \in Commands :
            Waits(d) /\ Legal(d) /\ Channel(d) # Channel(c) => Waits(d)'
  BY <1>5, <1>6, ResponseWaiting
<1>10. \A d \in Contents(Spots, Pending') : Legal(d) /\ Waits(d)'
  BY <1>4, <1>9 DEF ServiceInv, Contents
<1> QED
  BY <1>4, <1>8, <1>9, <1>10 DEF ServiceInv
-----------------------------------------------------------------------------
(* What the MSHRs, the bus tracker and the probe tracker hold.               *)

\* Every waiter is about the MSHR's line, and only the first one may write.
WaitersOK(m) ==
    \A n \in DOMAIN m.waiters :
        LET w == m.waiters[n]
        IN  /\ w.line = m.line /\ w.err = "none" /\ w.op # "FENCE"
            /\ w.cacheable <=> m.cacheable
            /\ n > 1 => ~OpWrites(w.op)
            /\ PrivateFill(w) => m.private_fill

\* The registers of an MSHR fit its state.
MshrShape(m) ==
    /\ m.state = "IDLE" <=> m.waiters = << >>
    /\ WaitersOK(m)
    /\ m.private_fill => ~m.bypass
    /\ m.state # "IDLE" /\ ~m.bypass => m.cacheable
    /\ m.state \in ProbeStates =>
          /\ m.post \in {"NEED_WB", "NEED_FILL", "NEED_BYPASS", "REPLAY"}
          /\ m.bypass <=> m.post = "NEED_BYPASS"
          /\ m.cacheable
    /\ m.state \in {"NEED_BYPASS", "BYPASS_INFLIGHT"} => m.bypass
    /\ m.state \in {"NEED_WB", "WB_INFLIGHT", "NEED_FILL", "FILL_INFLIGHT"}
          => ~m.bypass
    /\ m.state # "IDLE" /\ ~m.bypass /\ Head(m.waiters).op = "WRITE" =>
          \/ m.state = "REPLAY"
          \/ m.state \in ProbeStates /\ m.post = "REPLAY"

\* A cacheable line has one MSHR.
MshrInv ==
    /\ \A i \in MshrIds : MshrShape(l2mshr[i])
    /\ \A i, j \in Busy :
          /\ l2mshr[i].cacheable /\ l2mshr[j].cacheable
          /\ l2mshr[i].line = l2mshr[j].line
          => i = j

\* The bus answers MSHRs that wait for it, each once.
BusInv ==
    /\ \A n \in DOMAIN bus :
          l2mshr[bus[n].mshr].state = InflightState(bus[n].action)
    /\ \A n, k \in DOMAIN bus : bus[n].mshr = bus[k].mshr => n = k

\* The tracker works for the MSHR that started it.
ProbeActive ==
    /\ tracker.busy \/ tracker.done =>
          l2mshr[active_probe].state = "PROBE_INFLIGHT"
    /\ tracker.done => ~tracker.busy

L2Inv == TypeOK /\ ServiceInv /\ MshrInv /\ BusInv /\ ProbeActive

LEMMA FirstIn ==
    ASSUME NEW S \in SUBSET Nat, S # {}
    PROVE  First(S) \in S /\ \A y \in S : First(S) <= y
  BY LeastNat DEF First

LEMMA IdsNat ==
    /\ MshrIds \in SUBSET Nat /\ L2Ways \in SUBSET Nat /\ 0 \in L2Ways
    /\ 0 \in MshrIds
  BY L2Assumption DEF MshrIds, L2Ways

LEMMA FirstMshr ==
    ASSUME NEW S \in SUBSET MshrIds, S # {}
    PROVE  First(S) \in S
  BY FirstIn, IdsNat

LEMMA FirstWay ==
    ASSUME NEW S \in SUBSET L2Ways, S # {}
    PROVE  First(S) \in S
  BY FirstIn, IdsNat

\* The command in the lookup stage.
LEMMA CmdFacts ==
    ASSUME L2TypeOK, ServiceInv, lookup # << >>
    PROVE  /\ Cmd \in Commands /\ Cmd.hart \in Harts /\ Cmd.line \in Lines
           /\ Cmd \in Contents(Spots, Pending) /\ Legal(Cmd) /\ Waits(Cmd)
           /\ SetOf[Cmd.line] \in Sets /\ L2SetOf[Cmd.line] \in L2Sets
           /\ lookup = <<Cmd>>
<1>1. lookup \in Seq(Commands) /\ Len(lookup) <= 1
  BY DEF L2TypeOK
<1>2. lookup = <<Cmd>> /\ Cmd \in Commands
  BY <1>1, OneElement DEF Cmd
<1>3. 1 \in DOMAIN Pending[LookupAt] /\ Pending[LookupAt][1] = Cmd
  BY <1>2, PendingAt
<1>4. Cmd \in Contents(Spots, Pending)
  BY <1>2, <1>3, SpotsApart DEF Contents
<1>5. Cmd.hart \in Harts /\ Cmd.line \in Lines
  BY <1>2 DEF Commands
<1>6. SetOf[Cmd.line] \in Sets /\ L2SetOf[Cmd.line] \in L2Sets
  BY <1>5, GeometryAssumption, L2Assumption
<1> QED
  BY <1>2, <1>4, <1>5, <1>6 DEF ServiceInv

\* The ways of the row that the lookup reads.
LEMMA RowFacts ==
    ASSUME L2TypeOK, ServiceInv, lookup # << >>
    PROVE  /\ Row \in [L2Ways -> L2Entries]
           /\ HitWays \subseteq TagWays /\ StaleWays \subseteq TagWays
           /\ TagWays \subseteq OpenWays /\ FreeWays \subseteq OpenWays
           /\ OpenWays \subseteq L2Ways
           /\ HitWays # {} => First(HitWays) \in HitWays
           /\ OpenWays # {} => AllocWay \in OpenWays
<1>1. /\ HitWays \subseteq TagWays /\ StaleWays \subseteq TagWays
      /\ TagWays \subseteq OpenWays /\ FreeWays \subseteq OpenWays
      /\ OpenWays \subseteq L2Ways
  BY DEF HitWays, TagWays, StaleWays, FreeWays, OpenWays
<1>2. Row \in [L2Ways -> L2Entries]
  BY CmdFacts DEF L2TypeOK, Row
<1>3. HitWays # {} => First(HitWays) \in HitWays
  BY <1>1, FirstWay
<1>4. ASSUME OpenWays # {} PROVE AllocWay \in OpenWays
  <2>1. CASE StaleWays # {}
    BY <1>1, <2>1, FirstWay DEF AllocWay
  <2>2. CASE StaleWays = {} /\ FreeWays # {}
    BY <1>1, <2>2, FirstWay DEF AllocWay
  <2>3. CASE StaleWays = {} /\ FreeWays = {}
    <3>1. next_way[L2SetOf[Cmd.line]] \in L2Ways
      BY CmdFacts DEF L2TypeOK
    <3>2. \A w \in L2Ways : FromPointer(w) \in Nat
      BY <3>1, L2Assumption DEF FromPointer, L2Ways
    <3> DEFINE T == {FromPointer(w) : w \in OpenWays}
    <3>3. T \in SUBSET Nat /\ T # {}
      BY <1>1, <1>4, <3>2
    <3>4. PICK t \in T : \A x \in T : t <= x
      <4> HIDE DEF T
      <4> QED BY <3>3, LeastNat
    <3>5. \E w \in OpenWays : \A x \in OpenWays : FromPointer(w) <= FromPointer(x)
      BY <3>4
    <3>6. (CHOOSE w \in OpenWays :
              \A x \in OpenWays : FromPointer(w) <= FromPointer(x)) \in OpenWays
      BY <3>5
    <3> QED BY <2>3, <3>6 DEF AllocWay
  <2> QED BY <2>1, <2>2, <2>3
<1> QED
  BY <1>1, <1>2, <1>3, <1>4

\* A free MSHR is idle and waits for nothing.
LEMMA FreeFacts ==
    ASSUME L2TypeOK, MshrInv, FreeMshrs # {}
    PROVE  /\ First(FreeMshrs) \in MshrIds /\ First(FreeMshrs) \notin Busy
           /\ l2mshr[First(FreeMshrs)].state = "IDLE"
           /\ l2mshr[First(FreeMshrs)].waiters = << >>
<1>1. FreeMshrs \in SUBSET MshrIds
  BY DEF FreeMshrs
<1>2. First(FreeMshrs) \in FreeMshrs
  BY <1>1, FirstMshr
<1> QED
  BY <1>1, <1>2 DEF FreeMshrs, Busy, MshrInv, MshrShape
-----------------------------------------------------------------------------
(* The dispatch.                                                             *)

LEMMA DispatchDirectoryType ==
    ASSUME TypeOK, ServiceInv, lookup # << >>, DirectoryAtDispatch
    PROVE  DirectoryTypeOK'
<1> USE DEF TypeOK
<1>1. Cmd.line \in Lines /\ ISharer \in SUBSET Harts /\ DSharer \in SUBSET Harts
      /\ VictimWay(SetOf[Cmd.line]) \in Ways
      /\ (LookupHit(Cmd.line) => LookupWay(Cmd.line) \in Ways)
  BY CmdFacts, LookupWays DEF ISharer, DSharer
<1>2. \/ LookupHit(Cmd.line)
         /\ DirectoryMerge(Cmd.line, LookupWay(Cmd.line), ISharer, DSharer, {})
      \/ DirectoryAllocateFor(Cmd.line, VictimWay(SetOf[Cmd.line]), ISharer,
                              DSharer)
      \/ LookupHit(Cmd.line)
         /\ DirectoryMerge(Cmd.line, LookupWay(Cmd.line), {}, {}, Harts)
      \/ UNCHANGED directoryVars
  BY DEF DirectoryAtDispatch
<1>3. (UNCHANGED directoryVars) => DirectoryTypeOK'
  BY DEF directoryVars, DirectoryTypeOK
<1>4. \A l \in Lines, w \in Ways, i, d, c \in SUBSET Harts :
         DirectoryMerge(l, w, i, d, c) => DirectoryTypeOK'
  BY MergeWrite
<1>5. \A l \in Lines, w \in Ways, i, d \in SUBSET Harts :
         DirectoryAllocateFor(l, w, i, d) => DirectoryTypeOK'
  BY EntryWrite
<1>6. {} \in SUBSET Harts /\ Harts \in SUBSET Harts
  OBVIOUS
<1> QED
  BY <1>1, <1>2, <1>3, <1>4, <1>5, <1>6

LEMMA NewMshrFields ==
    ASSUME L2TypeOK, ServiceInv, lookup # << >>, NEW st \in L2MshrStates
    PROVE  LET m == NewMshr(st)
           IN  /\ m \in L2Mshrs
               /\ m.state = st /\ m.post = "IDLE" /\ m.bypass = FALSE
               /\ m.line = Cmd.line /\ m.cacheable = Cmd.cacheable
               /\ m.private_fill = PrivateFill(Cmd)
               /\ m.waiters = <<Cmd>> /\ m.coh_action = "ALLOCATE"
               /\ m.data = InitValue /\ m.way = 0
               /\ m.generation = generation
               /\ m.entry = 0 /\ m.targets = {} /\ m.mask = {}
               /\ m.add_i = {} /\ m.add_d = {} /\ m.clear_d = {}
<1> DEFINE f == PrivateFill(Cmd)
           c == Cmd.cacheable
<1>1. f \in BOOLEAN /\ c \in BOOLEAN
  BY CmdFacts DEF PrivateFill, Commands
<1>2. /\ Cmd.line \in Lines /\ <<Cmd>> \in Seq(Commands)
      /\ generation \in 0 .. Generations - 1 /\ 0 \in 0 .. Generations - 1
      /\ 0 \in Ways /\ 0 \in L2Ways /\ AnyLine \in Lines
      /\ {} \in CacheMasks
  BY CmdFacts, SomeLine, L2Assumption, GeometryAssumption
     DEF L2TypeOK, Ways, L2Ways, AnyLine, CacheMasks
<1>0. NewMshr(st) =
        [FreeL2Mshr EXCEPT
            !.state = st, !.line = Cmd.line, !.cacheable = c,
            !.private_fill = f, !.waiters = <<Cmd>>,
            !.generation = generation]
  BY DEF NewMshr
<1> HIDE DEF f, c
<1>3. FreeL2Mshr \in L2Mshrs
  BY <1>2, ValuesAssumption DEF L2Mshrs, L2MshrStates, FreeL2Mshr
<1>4. NewMshr(st) \in L2Mshrs
  <2> DEFINE a == [FreeL2Mshr EXCEPT !.state = st, !.line = Cmd.line,
                                     !.cacheable = c]
             b == [a EXCEPT !.private_fill = f, !.waiters = <<Cmd>>,
                            !.generation = generation]
  <2>1. a \in L2Mshrs
    BY <1>1, <1>2, <1>3 DEF L2Mshrs
  <2>2. NewMshr(st) = b
    BY <1>0
  <2> HIDE DEF a
  <2>3. b \in L2Mshrs
    BY <1>1, <1>2, <2>1 DEF L2Mshrs
  <2> QED BY <2>2, <2>3
<1> QED
  BY <1>0, <1>4 DEF f, c, FreeL2Mshr


LEMMA AllocMshrFields ==
    ASSUME L2TypeOK, ServiceInv, lookup # << >>, OpenWays # {}
    PROVE  LET m == AllocMshr
           IN  /\ m \in L2Mshrs
               /\ m.state \in {"NEED_WB", "NEED_FILL"} /\ m.post = "IDLE"
               /\ m.bypass = FALSE
               /\ m.line = Cmd.line /\ m.cacheable = Cmd.cacheable
               /\ m.private_fill = PrivateFill(Cmd)
               /\ m.waiters = <<Cmd>> /\ m.coh_action = "ALLOCATE"
               /\ m.way = AllocWay /\ m.clear_d = {}
<1> DEFINE v == Row[AllocWay]
           st == IF v.valid /\ v.dirty THEN "NEED_WB" ELSE "NEED_FILL"
           n == NewMshr(st)
<1>1. AllocWay \in L2Ways /\ v \in L2Entries
  BY RowFacts
<1>2. v.line \in Lines /\ v.data \in Values
  BY <1>1 DEF L2Entries
<1>3. st \in {"NEED_WB", "NEED_FILL"} /\ st \in L2MshrStates
  BY DEF L2MshrStates
<1>4. AllocMshr = [n EXCEPT !.way = AllocWay, !.victim = v.line,
                            !.vdata = v.data]
  BY DEF AllocMshr
<1> HIDE DEF st, v
<1>5. /\ n \in L2Mshrs
      /\ n.state = st /\ n.post = "IDLE" /\ n.bypass = FALSE
      /\ n.line = Cmd.line /\ n.cacheable = Cmd.cacheable
      /\ n.private_fill = PrivateFill(Cmd)
      /\ n.waiters = <<Cmd>> /\ n.coh_action = "ALLOCATE"
      /\ n.clear_d = {}
  BY <1>3, NewMshrFields
<1> HIDE DEF n
<1>6. AllocMshr \in L2Mshrs
  BY <1>1, <1>2, <1>4, <1>5 DEF L2Mshrs
<1> QED
  BY <1>3, <1>4, <1>5, <1>6 DEF L2Mshrs

\* What a dispatch that probes finds in the directory.
LEMMA ProbeFacts ==
    ASSUME DirectoryTypeOK, L2TypeOK, ServiceInv, lookup # << >>
    PROVE  /\ VictimWay(SetOf[Cmd.line]) \in Ways /\ DirVictim \in Entries
           /\ DirVictim.line \in Lines
           /\ DirVictim.i \in SUBSET Harts /\ DirVictim.d \in SUBSET Harts
           /\ WriteProbeTargets \in SUBSET Harts
           /\ WriteProbeTargets # {} =>
                 /\ LookupHit(Cmd.line)
                 /\ LookupWay(Cmd.line) \in MatchingWays(Cmd.line)
                 /\ LookupWay(Cmd.line) \in Ways
                 /\ dir[SetOf[Cmd.line]][LookupWay(Cmd.line)] \in Entries
                 /\ WriteProbeTargets =
                       dir[SetOf[Cmd.line]][LookupWay(Cmd.line)].d \ {Cmd.hart}
           /\ ISharer \in SUBSET Harts /\ DSharer \in SUBSET Harts
<1>1. Cmd.line \in Lines /\ Cmd.hart \in Harts /\ SetOf[Cmd.line] \in Sets
  BY CmdFacts
<1>2. /\ VictimWay(SetOf[Cmd.line]) \in Ways
      /\ LookupHit(Cmd.line) =>
            /\ LookupWay(Cmd.line) \in MatchingWays(Cmd.line)
            /\ LookupWay(Cmd.line) \in Ways
  BY <1>1, LookupWays
<1>3. \A w \in Ways : dir[SetOf[Cmd.line]][w] \in Entries
  BY <1>1 DEF DirectoryTypeOK
<1>4. DirVictim \in Entries
  BY <1>2, <1>3 DEF DirVictim
<1>5. \A e \in Entries : e.line \in Lines /\ e.i \in SUBSET Harts
                         /\ e.d \in SUBSET Harts
  BY DEF Entries
<1> QED
  BY <1>1, <1>2, <1>3, <1>4, <1>5 DEF WriteProbeTargets, ISharer, DSharer

\* What the MSHR of a probing dispatch holds.
LEMMA ProbingFields ==
    ASSUME DirectoryTypeOK, L2TypeOK, ServiceInv, lookup # << >>, ProbeNeeded,
           NEW b \in L2Mshrs
    PROVE  LET m == Probing(b)
               e == dir[SetOf[Cmd.line]][LookupWay(Cmd.line)]
           IN  /\ m \in L2Mshrs
               /\ m.state = "NEED_PROBE" /\ m.post = b.state
               /\ m.bypass = b.bypass /\ m.cacheable = b.cacheable
               /\ m.private_fill = b.private_fill /\ m.line = b.line
               /\ m.waiters = b.waiters /\ m.data = b.data
               /\ PrivateProbeNeeded =>
                     /\ m.coh_action = "ALLOCATE"
                     /\ m.entry = VictimWay(SetOf[Cmd.line])
                     /\ m.targets = DirVictim.i \cup DirVictim.d
                     /\ DirVictim.d # {} => "D" \in m.mask
                     /\ m.probe_line = DirVictim.line
                     /\ m.add_i = ISharer /\ m.add_d = DSharer
                     /\ m.clear_d = b.clear_d
               /\ ~PrivateProbeNeeded =>
                     /\ m.coh_action = "CLEAR"
                     /\ m.entry = LookupWay(Cmd.line)
                     /\ m.targets = WriteProbeTargets /\ m.mask = {"D"}
                     /\ m.probe_line = Cmd.line
                     /\ m.add_i = e.i /\ m.add_d = e.d
                     /\ m.clear_d = IF Cmd.op = "SC" THEN Harts
                                    ELSE WriteProbeTargets
<1> DEFINE e == dir[SetOf[Cmd.line]][LookupWay(Cmd.line)]
           mask == (IF DirVictim.i # {} THEN {"I"} ELSE {})
                   \cup (IF DirVictim.d # {} THEN {"D"} ELSE {})
           clear == IF Cmd.op = "SC" THEN Harts ELSE WriteProbeTargets
           line == Cmd.line
           c == [b EXCEPT !.state = "NEED_PROBE", !.post = b.state]
<1>1. line \in Lines /\ mask \in CacheMasks /\ {"D"} \in CacheMasks
      /\ "ALLOCATE" \in {"ALLOCATE", "CLEAR"}
      /\ (DirVictim.d # {} => "D" \in mask)
  BY CmdFacts DEF CacheMasks
<1>2. clear \in SUBSET Harts
  BY ProbeFacts
<1>3. c \in L2Mshrs
  BY DEF L2Mshrs, L2MshrStates
<1>4. /\ c.state = "NEED_PROBE" /\ c.post = b.state
      /\ c.bypass = b.bypass /\ c.cacheable = b.cacheable
      /\ c.private_fill = b.private_fill /\ c.line = b.line
      /\ c.waiters = b.waiters /\ c.data = b.data /\ c.clear_d = b.clear_d
  BY DEF L2Mshrs
<1>5. CASE PrivateProbeNeeded
  <2> DEFINE w == VictimWay(SetOf[Cmd.line])
             t == DirVictim.i \cup DirVictim.d
             p == [c EXCEPT !.coh_action = "ALLOCATE", !.entry = w,
                            !.targets = t]
             q == [p EXCEPT !.mask = mask, !.probe_line = DirVictim.line]
             r == [q EXCEPT !.add_i = ISharer, !.add_d = DSharer]
  <2>1. Probing(b) = r
    BY <1>5 DEF Probing
  <2> HIDE DEF c, mask
  <2>2. w \in Ways /\ t \in SUBSET Harts
    BY ProbeFacts
  <2>3. DirVictim.line \in Lines /\ ISharer \in SUBSET Harts
        /\ DSharer \in SUBSET Harts
    BY ProbeFacts
  <2> HIDE DEF w, t
  <2>4. p \in L2Mshrs
    BY <1>1, <1>3, <2>2 DEF L2Mshrs
  <2>5. /\ p.coh_action = "ALLOCATE" /\ p.entry = w /\ p.targets = t
        /\ p.state = c.state /\ p.post = c.post
        /\ p.bypass = c.bypass /\ p.cacheable = c.cacheable
        /\ p.private_fill = c.private_fill /\ p.line = c.line
        /\ p.waiters = c.waiters /\ p.data = c.data /\ p.clear_d = c.clear_d
    BY <1>3 DEF L2Mshrs
  <2> HIDE DEF p
  <2>6. q \in L2Mshrs
    BY <1>1, <2>3, <2>4 DEF L2Mshrs
  <2>7. /\ q.mask = mask /\ q.probe_line = DirVictim.line
        /\ q.coh_action = p.coh_action /\ q.entry = p.entry
        /\ q.targets = p.targets
        /\ q.state = p.state /\ q.post = p.post
        /\ q.bypass = p.bypass /\ q.cacheable = p.cacheable
        /\ q.private_fill = p.private_fill /\ q.line = p.line
        /\ q.waiters = p.waiters /\ q.data = p.data /\ q.clear_d = p.clear_d
    BY <2>4 DEF L2Mshrs
  <2> HIDE DEF q
  <2>8. r \in L2Mshrs
    BY <2>3, <2>6 DEF L2Mshrs
  <2>9. /\ r.add_i = ISharer /\ r.add_d = DSharer
        /\ r.mask = q.mask /\ r.probe_line = q.probe_line
        /\ r.coh_action = q.coh_action /\ r.entry = q.entry
        /\ r.targets = q.targets
        /\ r.state = q.state /\ r.post = q.post
        /\ r.bypass = q.bypass /\ r.cacheable = q.cacheable
        /\ r.private_fill = q.private_fill /\ r.line = q.line
        /\ r.waiters = q.waiters /\ r.data = q.data /\ r.clear_d = q.clear_d
    BY <2>6 DEF L2Mshrs
  <2> HIDE DEF r
  <2> QED BY <1>1, <1>4, <1>5, <2>1, <2>5, <2>7, <2>8, <2>9 DEF w, t
<1>6. CASE ~PrivateProbeNeeded
  <2> DEFINE w == LookupWay(Cmd.line)
             t == WriteProbeTargets
             p == [c EXCEPT !.coh_action = "CLEAR", !.entry = w,
                            !.targets = t]
             q == [p EXCEPT !.mask = {"D"}, !.probe_line = line]
             r == [q EXCEPT !.add_i = e.i, !.add_d = e.d, !.clear_d = clear]
  <2>1. Probing(b) = r
    BY <1>6 DEF Probing
  <2> HIDE DEF c
  <2>2. WriteProbeTargets # {}
    BY <1>6 DEF ProbeNeeded, WriteProbeNeeded
  <2>3. w \in Ways /\ t \in SUBSET Harts /\ e \in Entries
    BY <2>2, ProbeFacts
  <2> HIDE DEF w, t, e, clear, line
  <2>4. e.i \in SUBSET Harts /\ e.d \in SUBSET Harts
    BY <2>3 DEF Entries
  <2>5. p \in L2Mshrs
    BY <1>3, <2>3 DEF L2Mshrs
  <2>6. /\ p.coh_action = "CLEAR" /\ p.entry = w /\ p.targets = t
        /\ p.state = c.state /\ p.post = c.post
        /\ p.bypass = c.bypass /\ p.cacheable = c.cacheable
        /\ p.private_fill = c.private_fill /\ p.line = c.line
        /\ p.waiters = c.waiters /\ p.data = c.data
    BY <1>3 DEF L2Mshrs
  <2> HIDE DEF p
  <2>7. q \in L2Mshrs
    BY <1>1, <2>5 DEF L2Mshrs
  <2>8. /\ q.mask = {"D"} /\ q.probe_line = line
        /\ q.coh_action = p.coh_action /\ q.entry = p.entry
        /\ q.targets = p.targets
        /\ q.state = p.state /\ q.post = p.post
        /\ q.bypass = p.bypass /\ q.cacheable = p.cacheable
        /\ q.private_fill = p.private_fill /\ q.line = p.line
        /\ q.waiters = p.waiters /\ q.data = p.data
    BY <2>5 DEF L2Mshrs
  <2> HIDE DEF q
  <2>9. r \in L2Mshrs
    BY <1>2, <2>4, <2>7 DEF L2Mshrs
  <2>10. /\ r.add_i = e.i /\ r.add_d = e.d /\ r.clear_d = clear
         /\ r.mask = q.mask /\ r.probe_line = q.probe_line
         /\ r.coh_action = q.coh_action /\ r.entry = q.entry
         /\ r.targets = q.targets
         /\ r.state = q.state /\ r.post = q.post
         /\ r.bypass = q.bypass /\ r.cacheable = q.cacheable
         /\ r.private_fill = q.private_fill /\ r.line = q.line
         /\ r.waiters = q.waiters /\ r.data = q.data
    BY <2>7 DEF L2Mshrs
  <2> HIDE DEF r
  <2> QED BY <1>4, <1>6, <2>1, <2>6, <2>8, <2>9, <2>10 DEF w, t, e, clear, line
<1> QED
  BY <1>5, <1>6


\* The parts of the state that every dispatch treats alike.
LEMMA DispatchFacts ==
    ASSUME TypeOK, ServiceInv, Dispatch
    PROVE  /\ lookup # << >> /\ lookup' = << >>
           /\ DirectoryTypeOK' /\ ProbeTypeOK' /\ PrivateTypeOK'
           /\ reservation' \in [Harts -> Lines \cup {NoLine}]
           /\ UNCHANGED <<cmds, responses, bus, mem, next_way, next_probe_id,
                          active_probe, tracker, privateVars>>
<1>1. /\ lookup # << >> /\ lookup' = << >> /\ DirectoryAtDispatch
      /\ reservation' = ReservationAtDispatch
      /\ UNCHANGED <<cmds, responses, bus, mem, next_way, next_probe_id,
                     active_probe, probeVars, privateVars>>
  BY DEF Dispatch
<1>2. DirectoryTypeOK'
  BY <1>1, DispatchDirectoryType
<1>3. ProbeTypeOK' /\ UNCHANGED tracker
  BY <1>1 DEF TypeOK, ProbeTypeOK, probeVars
<1>4. PrivateTypeOK'
  BY <1>1 DEF TypeOK, PrivateTypeOK, privateVars
<1>5. reservation \in [Harts -> Lines \cup {NoLine}]
  BY DEF TypeOK, L2TypeOK
<1>6. reservation' \in [Harts -> Lines \cup {NoLine}]
  BY <1>1, <1>5 DEF ReservationAtDispatch
<1> QED
  BY <1>1, <1>2, <1>3, <1>4, <1>6

\* An answer at the lookup stage changes no MSHR.
LEMMA AnsweredKeeps ==
    ASSUME L2Inv, Dispatch, NEW r \in Responses, r.cmd = Cmd,
           hit = << >>, hit' = <<r>>, UNCHANGED l2mshr,
           array' \in [L2Sets -> [L2Ways -> L2Entries]],
           generation' \in 0 .. Generations - 1
    PROVE  L2Inv'
<1>1. TypeOK /\ ServiceInv /\ L2TypeOK
  BY DEF L2Inv, TypeOK
<1>2. /\ lookup # << >> /\ lookup' = << >>
      /\ DirectoryTypeOK' /\ ProbeTypeOK' /\ PrivateTypeOK'
      /\ reservation' \in [Harts -> Lines \cup {NoLine}]
      /\ UNCHANGED <<cmds, responses, bus, mem, next_way, next_probe_id,
                     active_probe, tracker, privateVars>>
  BY <1>1, DispatchFacts
<1>3. ServiceInv'
  <2>1. Moves(Spots, Pending, Pending', LookupAt, HitAt)
    BY <1>1, <1>2, HitMoves
  <2> QED BY <1>1, <1>2, <2>1, SpotsApart, ServiceMoved
<1>4. hit' \in Seq(Responses) /\ Len(hit') <= 1
  OBVIOUS
<1>5. lookup' \in Seq(Commands) /\ Len(lookup') <= 1
  BY <1>2
<1>6. L2TypeOK'
  BY <1>1, <1>2, <1>4, <1>5 DEF L2TypeOK
<1>7. MshrInv' /\ BusInv' /\ ProbeActive'
  BY <1>2 DEF L2Inv, MshrInv, BusInv, ProbeActive, Busy
<1> QED
  BY <1>2, <1>3, <1>6, <1>7 DEF L2Inv, TypeOK

\* Writing one way of the array, or the pointer of a set, keeps its type.
LEMMA WayType ==
    ASSUME L2TypeOK, NEW s \in L2Sets, NEW w \in L2Ways
    PROVE  /\ array[s][w] \in L2Entries
           /\ \A e \in L2Entries :
                 [array EXCEPT ![s][w] = e]
                     \in [L2Sets -> [L2Ways -> L2Entries]]
           /\ \A b \in BOOLEAN :
                 [array EXCEPT ![s][w].reserved = b]
                     \in [L2Sets -> [L2Ways -> L2Entries]]
<1>1. array \in [L2Sets -> [L2Ways -> L2Entries]]
  BY DEF L2TypeOK
<1>2. array[s] \in [L2Ways -> L2Entries] /\ array[s][w] \in L2Entries
  BY <1>1
<1>3. ASSUME NEW e \in L2Entries
      PROVE  [array EXCEPT ![s][w] = e] \in [L2Sets -> [L2Ways -> L2Entries]]
  <2>1. [array[s] EXCEPT ![w] = e] \in [L2Ways -> L2Entries]
    BY <1>2
  <2> QED BY <1>1, <2>1
<1>4. ASSUME NEW b \in BOOLEAN
      PROVE  [array EXCEPT ![s][w].reserved = b]
                 \in [L2Sets -> [L2Ways -> L2Entries]]
  <2>1. [array[s][w] EXCEPT !.reserved = b] \in L2Entries
    BY <1>2 DEF L2Entries
  <2>2. [array EXCEPT ![s][w].reserved = b] =
            [array EXCEPT ![s][w] = [array[s][w] EXCEPT !.reserved = b]]
    OBVIOUS
  <2> QED BY <1>3, <2>1, <2>2
<1> QED
  BY <1>2, <1>3, <1>4


\* The answer of a dispatch.
LEMMA ToHitFacts ==
    ASSUME L2TypeOK, ServiceInv, lookup # << >>, NEW v \in Values, ToHit(v)
    PROVE  \E r \in Responses : r.cmd = Cmd /\ hit = << >> /\ hit' = <<r>>
<1> DEFINE e == Cmd.err # "none"
           t == Cmd.op = "SC" /\ Cmd.err = "none" /\ ScReservationMatch
           r == [cmd |-> Cmd, data |-> v, error |-> e, sc_success |-> t]
<1>1. e \in BOOLEAN /\ t \in BOOLEAN /\ Cmd \in Commands
  BY CmdFacts
<1>2. hit = << >> /\ hit' = <<r>>
  BY DEF ToHit
<1> HIDE DEF e, t
<1>3. r \in Responses
  BY <1>1 DEF Responses
<1> QED
  BY <1>2, <1>3

LEMMA NextGeneration ==
    L2TypeOK => (generation + 1) % Generations \in 0 .. Generations - 1
<1> SUFFICES ASSUME L2TypeOK
             PROVE  (generation + 1) % Generations \in 0 .. Generations - 1
  OBVIOUS
<1>1. generation + 1 \in Int /\ Generations \in Nat /\ Generations > 0
  BY L2Assumption DEF L2TypeOK
<1> QED
  BY <1>1

LEMMA ImmediateKeeps == L2Inv /\ DispatchImmediate => L2Inv'
<1> SUFFICES ASSUME L2Inv, DispatchImmediate PROVE L2Inv'
  OBVIOUS
<1>1. TypeOK /\ L2TypeOK /\ ServiceInv /\ Dispatch /\ lookup # << >>
  BY DEF L2Inv, TypeOK, DispatchImmediate, Dispatch
<1>2. PICK r \in Responses : r.cmd = Cmd /\ hit = << >> /\ hit' = <<r>>
  <2>1. InitValue \in Values /\ ToHit(InitValue)
    BY ValuesAssumption DEF DispatchImmediate
  <2> QED BY <1>1, <2>1, ToHitFacts
<1>3. UNCHANGED <<l2mshr, array>>
  BY DEF DispatchImmediate
<1>4. array' \in [L2Sets -> [L2Ways -> L2Entries]]
  BY <1>1, <1>3 DEF L2TypeOK
<1>5. generation' \in {generation, (generation + 1) % Generations}
  BY DEF DispatchImmediate
<1>6. generation' \in 0 .. Generations - 1
  BY <1>1, <1>5, NextGeneration DEF L2TypeOK
<1> QED
  BY <1>1, <1>2, <1>3, <1>4, <1>6, AnsweredKeeps

LEMMA VictimHitKeeps == L2Inv /\ DispatchVictimHit => L2Inv'
<1> SUFFICES ASSUME L2Inv, DispatchVictimHit PROVE L2Inv'
  OBVIOUS
<1>1. TypeOK /\ L2TypeOK /\ ServiceInv /\ Dispatch /\ lookup # << >>
  BY DEF L2Inv, TypeOK, DispatchVictimHit, Dispatch
<1> DEFINE i == First(DirtyVictimMshrs)
<1>2. i \in MshrIds
  <2>1. DirtyVictimMshrs \in SUBSET MshrIds /\ DirtyVictimMshrs # {}
    BY DEF DispatchVictimHit, DirtyVictimMshrs, Busy
  <2> QED BY <2>1, FirstMshr
<1>3. l2mshr[i].vdata \in Values /\ ToHit(l2mshr[i].vdata)
  BY <1>1, <1>2 DEF DispatchVictimHit, L2TypeOK, L2Mshrs
<1>4. PICK r \in Responses : r.cmd = Cmd /\ hit = << >> /\ hit' = <<r>>
  BY <1>1, <1>3, ToHitFacts
<1>5. UNCHANGED <<l2mshr, array, generation>>
  BY DEF DispatchVictimHit
<1>6. /\ array' \in [L2Sets -> [L2Ways -> L2Entries]]
      /\ generation' \in 0 .. Generations - 1
  BY <1>1, <1>5 DEF L2TypeOK
<1> QED
  BY <1>1, <1>4, <1>5, <1>6, AnsweredKeeps

LEMMA HitKeeps == L2Inv /\ DispatchHit => L2Inv'
<1> SUFFICES ASSUME L2Inv, DispatchHit PROVE L2Inv'
  OBVIOUS
<1>1. TypeOK /\ L2TypeOK /\ ServiceInv /\ Dispatch /\ lookup # << >>
  BY DEF L2Inv, TypeOK, DispatchHit, Dispatch
<1> DEFINE w == First(HitWays)
           s == L2SetOf[Cmd.line]
           v == IF IsRead(Cmd) THEN Row[w].data ELSE InitValue
<1>2. w \in L2Ways /\ Row[w] \in L2Entries /\ s \in L2Sets
      /\ Cmd.data \in Values /\ Row[w] = array[s][w]
  <2>1. HitWays # {}
    BY DEF DispatchHit
  <2> QED BY <1>1, <2>1, RowFacts, CmdFacts DEF Commands, Row
<1>3. v \in Values /\ ToHit(v)
  BY <1>2, ValuesAssumption DEF DispatchHit, L2Entries
<1>4. PICK r \in Responses : r.cmd = Cmd /\ hit = << >> /\ hit' = <<r>>
  <2> HIDE DEF v
  <2> QED BY <1>1, <1>3, ToHitFacts
<1>5. UNCHANGED <<l2mshr, generation>> /\ generation' \in 0 .. Generations - 1
  BY <1>1 DEF DispatchHit, L2TypeOK
<1>6. array' \in [L2Sets -> [L2Ways -> L2Entries]]
  <2>1. array' \in
          {array, [array EXCEPT ![s][w] =
                      [array[s][w] EXCEPT !.data = Cmd.data, !.dirty = TRUE]]}
    BY DEF DispatchHit
  <2> DEFINE e == [array[s][w] EXCEPT !.data = Cmd.data, !.dirty = TRUE]
  <2>2. e \in L2Entries
    BY <1>2 DEF L2Entries
  <2>3. array \in [L2Sets -> [L2Ways -> L2Entries]]
    BY <1>1 DEF L2TypeOK
  <2> HIDE DEF e, s, w
  <2> QED BY <1>1, <1>2, <2>1, <2>2, <2>3, WayType DEF e
<1> QED
  BY <1>1, <1>4, <1>5, <1>6, AnsweredKeeps


\* The bus answers no idle MSHR.
LEMMA InflightBusy ==
    \A a : InflightState(a) \in {"WB_INFLIGHT", "FILL_INFLIGHT",
                                 "BYPASS_INFLIGHT"}
  BY DEF InflightState

LEMMA BusTypes ==
    ASSUME L2TypeOK
    PROVE  /\ Len(bus) \in Nat /\ DOMAIN bus = 1 .. Len(bus)
           /\ \A n \in DOMAIN bus :
                 /\ bus[n].mshr \in MshrIds
                 /\ bus[n].action \in BusActions
<1> DEFINE B == [mshr: MshrIds, action: BusActions]
<1>1. bus \in Seq(B)
  BY DEF L2TypeOK, BusActions
<1>2. \A b \in B : b.mshr \in MshrIds /\ b.action \in BusActions
  OBVIOUS
<1> HIDE DEF B
<1> QED
  BY <1>1, <1>2, ElementOfSeq

\* A free MSHR takes the command; if it is cacheable no MSHR has its line.
LEMMA TakenKeeps ==
    ASSUME L2Inv, Dispatch, NEW m \in L2Mshrs, FreeMshrs # {}, TakeMshr(m),
           MshrShape(m), m.waiters = <<Cmd>>, m.line = Cmd.line,
           m.state # "PROBE_INFLIGHT",
           m.cacheable => MatchingMshrs = {},
           UNCHANGED <<hit, generation>>,
           array' \in [L2Sets -> [L2Ways -> L2Entries]]
    PROVE  L2Inv'
<1> DEFINE i == First(FreeMshrs)
<1>1. TypeOK /\ ServiceInv /\ L2TypeOK /\ MshrInv /\ BusInv /\ ProbeActive
  BY DEF L2Inv, TypeOK
<1>2. /\ lookup # << >> /\ lookup' = << >>
      /\ DirectoryTypeOK' /\ ProbeTypeOK' /\ PrivateTypeOK'
      /\ reservation' \in [Harts -> Lines \cup {NoLine}]
      /\ UNCHANGED <<cmds, responses, bus, mem, next_way, next_probe_id,
                     active_probe, tracker, privateVars>>
  BY <1>1, DispatchFacts
<1>3. i \in MshrIds /\ l2mshr[i].state = "IDLE" /\ l2mshr[i].waiters = << >>
  BY <1>1, FreeFacts
<1>4. l2mshr' = [l2mshr EXCEPT ![i] = m]
  BY DEF TakeMshr
<1> HIDE DEF i
<1>5. l2mshr'[i] = m /\ \A j \in MshrIds : j # i => l2mshr'[j] = l2mshr[j]
  BY <1>1, <1>3, <1>4 DEF L2TypeOK
<1>6. ServiceInv'
  <2>1. m.waiters = Append(l2mshr[i].waiters, Cmd)
    BY <1>3
  <2>2. Moves(Spots, Pending, Pending', LookupAt, MshrAt(i))
    BY <1>1, <1>2, <1>3, <1>4, <2>1, WaiterMoves
  <2> QED BY <1>1, <1>2, <1>3, <2>2, SpotsApart, ServiceMoved
<1>7. L2TypeOK'
  <2>1. l2mshr' \in [MshrIds -> L2Mshrs]
    BY <1>1, <1>3, <1>4 DEF L2TypeOK
  <2>2. Len(m.waiters) = 1 /\ 1 <= WAITERS_PER_MSHR
    BY L2Assumption
  <2>3. \A j \in MshrIds : Len(l2mshr'[j].waiters) <= WAITERS_PER_MSHR
    <3> SUFFICES ASSUME NEW j \in MshrIds
                 PROVE  Len(l2mshr'[j].waiters) <= WAITERS_PER_MSHR
      OBVIOUS
    <3>1. CASE j = i
      BY <1>5, <2>2, <3>1
    <3>2. CASE j # i
      BY <1>1, <1>5, <3>2 DEF L2TypeOK
    <3> QED BY <3>1, <3>2
  <2>4. lookup' \in Seq(Commands) /\ Len(lookup') <= 1
    BY <1>2
  <2> QED BY <1>1, <1>2, <2>1, <2>3, <2>4 DEF L2TypeOK
<1>8. MshrInv'
  <2>1. \A j \in MshrIds : MshrShape(l2mshr'[j])
    BY <1>1, <1>5 DEF MshrInv
  <2>2. ASSUME NEW j \in MshrIds, NEW k \in MshrIds,
               l2mshr'[j].state # "IDLE", l2mshr'[k].state # "IDLE",
               l2mshr'[j].cacheable, l2mshr'[k].cacheable,
               l2mshr'[j].line = l2mshr'[k].line
        PROVE  j = k
    <3>1. ASSUME NEW n \in MshrIds, n # i, l2mshr[n].state # "IDLE",
                 l2mshr[n].cacheable, m.cacheable
          PROVE  l2mshr[n].line # m.line
      BY <3>1 DEF MatchingMshrs, Busy
    <3>2. CASE j # i /\ k # i
      BY <1>1, <1>5, <2>2, <3>2 DEF MshrInv, Busy
    <3> QED BY <1>5, <2>2, <3>1, <3>2
  <2> QED BY <2>1, <2>2 DEF MshrInv, Busy
<1>9. BusInv'
  <2>1. \A n \in DOMAIN bus : bus[n].mshr \in MshrIds /\ bus[n].mshr # i
    BY <1>1, <1>3, BusTypes, InflightBusy DEF BusInv
  <2> QED BY <1>1, <1>2, <1>5, <2>1 DEF BusInv
<1>10. ProbeActive'
  <2>1. active_probe \in MshrIds
    BY <1>1 DEF L2TypeOK
  <2> QED BY <1>1, <1>2, <1>3, <1>5, <2>1 DEF ProbeActive
<1> QED
  BY <1>2, <1>6, <1>7, <1>8, <1>9, <1>10 DEF L2Inv, TypeOK

\* The shapes of a new MSHR.
LEMMA TakenShape ==
    ASSUME L2TypeOK, ServiceInv, lookup # << >>, ~Terminates,
           NEW m \in L2Mshrs, m.waiters = <<Cmd>>, m.line = Cmd.line,
           m.cacheable <=> Cmd.cacheable, m.private_fill <=> PrivateFill(Cmd),
           m.private_fill => ~m.bypass,
           ~m.bypass => Cmd.cacheable,
           \/ m.state = "NEED_BYPASS" /\ m.bypass
           \/ /\ m.state \in {"NEED_WB", "NEED_FILL"} /\ ~m.bypass
              /\ Cmd.op # "WRITE"
           \/ /\ m.state = "NEED_PROBE" /\ Cmd.cacheable
              /\ m.post \in {"NEED_WB", "NEED_FILL", "NEED_BYPASS", "REPLAY"}
              /\ m.bypass <=> m.post = "NEED_BYPASS"
              /\ Cmd.op = "WRITE" /\ ~m.bypass => m.post = "REPLAY"
    PROVE  MshrShape(m)
<1>1. Cmd \in Commands /\ Legal(Cmd)
  BY CmdFacts
<1>2. Cmd.err = "none" /\ Cmd.op # "FENCE"
  BY <1>1 DEF Terminates
<1>3. /\ m.waiters # << >> /\ Head(m.waiters) = Cmd
      /\ \A n \in DOMAIN m.waiters : n = 1 /\ m.waiters[n] = Cmd
  OBVIOUS
<1>4. WaitersOK(m)
  BY <1>2, <1>3 DEF WaitersOK
<1>5. m.state # "IDLE"
  OBVIOUS
<1> QED
  BY <1>3, <1>4, <1>5 DEF MshrShape, ProbeStates


LEMMA BypassFields ==
    ASSUME L2TypeOK, ServiceInv, lookup # << >>
    PROVE  LET m == [NewMshr("NEED_BYPASS") EXCEPT !.bypass = TRUE]
           IN  /\ m \in L2Mshrs
               /\ m.state = "NEED_BYPASS" /\ m.bypass = TRUE
               /\ m.line = Cmd.line /\ m.cacheable = Cmd.cacheable
               /\ m.private_fill = PrivateFill(Cmd)
               /\ m.waiters = <<Cmd>> /\ m.clear_d = {}
<1> DEFINE n == NewMshr("NEED_BYPASS")
           f == PrivateFill(Cmd)
<1>1. /\ n \in L2Mshrs
      /\ n.state = "NEED_BYPASS" /\ n.line = Cmd.line
      /\ n.cacheable = Cmd.cacheable /\ n.private_fill = f
      /\ n.waiters = <<Cmd>> /\ n.clear_d = {}
  BY NewMshrFields DEF L2MshrStates
<1> HIDE DEF n, f
<1>2. [n EXCEPT !.bypass = TRUE] \in L2Mshrs
  BY <1>1 DEF L2Mshrs
<1> QED
  BY <1>1, <1>2 DEF n, f, L2Mshrs

LEMMA ArrayKept ==
    L2TypeOK /\ UNCHANGED array => array' \in [L2Sets -> [L2Ways -> L2Entries]]
  BY DEF L2TypeOK

LEMMA ArrayReserved ==
    ASSUME L2TypeOK, ServiceInv, lookup # << >>, NEW w \in L2Ways, Reserve(w)
    PROVE  array' \in [L2Sets -> [L2Ways -> L2Entries]]
<1>1. L2SetOf[Cmd.line] \in L2Sets
  BY CmdFacts
<1>2. \A s \in L2Sets :
         [array EXCEPT ![s][w].reserved = TRUE]
             \in [L2Sets -> [L2Ways -> L2Entries]]
  BY WayType
<1> QED
  BY <1>1, <1>2 DEF Reserve

LEMMA BypassKeeps == L2Inv /\ DispatchBypass => L2Inv'
<1> SUFFICES ASSUME L2Inv, DispatchBypass PROVE L2Inv'
  OBVIOUS
<1> DEFINE m == [NewMshr("NEED_BYPASS") EXCEPT !.bypass = TRUE]
<1>1. TypeOK /\ L2TypeOK /\ ServiceInv /\ Dispatch /\ lookup # << >>
  BY DEF L2Inv, TypeOK, DispatchBypass, Dispatch
<1>2. /\ ~Terminates /\ ~Cmd.cacheable /\ FreeMshrs # {} /\ TakeMshr(m)
      /\ UNCHANGED <<hit, array, generation>>
  BY DEF DispatchBypass
<1>3. /\ m \in L2Mshrs
      /\ m.state = "NEED_BYPASS" /\ m.bypass = TRUE
      /\ m.line = Cmd.line /\ m.cacheable = Cmd.cacheable
      /\ m.private_fill = PrivateFill(Cmd)
      /\ m.waiters = <<Cmd>>
  BY <1>1, BypassFields
<1> HIDE DEF m
<1>4. ~PrivateFill(Cmd)
  BY <1>2 DEF PrivateFill
<1>5. MshrShape(m)
  BY <1>1, <1>2, <1>3, <1>4, TakenShape
<1>6. m.state # "PROBE_INFLIGHT" /\ (m.cacheable => MatchingMshrs = {})
      /\ array' \in [L2Sets -> [L2Ways -> L2Entries]]
  BY <1>1, <1>2, <1>3, ArrayKept
<1> QED
  BY <1>1, <1>2, <1>3, <1>5, <1>6, TakenKeeps

LEMMA WriteAroundKeeps == L2Inv /\ DispatchWriteAround => L2Inv'
<1> SUFFICES ASSUME L2Inv, DispatchWriteAround PROVE L2Inv'
  OBVIOUS
<1> DEFINE m == [NewMshr("NEED_BYPASS") EXCEPT !.bypass = TRUE]
<1>1. TypeOK /\ L2TypeOK /\ ServiceInv /\ Dispatch /\ lookup # << >>
  BY DEF L2Inv, TypeOK, DispatchWriteAround, Dispatch
<1>2. /\ WritesAround /\ FreeMshrs # {} /\ TakeMshr(m)
      /\ UNCHANGED <<hit, array, generation>>
  BY DEF DispatchWriteAround
<1>3. /\ m \in L2Mshrs
      /\ m.state = "NEED_BYPASS" /\ m.bypass = TRUE
      /\ m.line = Cmd.line /\ m.cacheable = Cmd.cacheable
      /\ m.private_fill = PrivateFill(Cmd)
      /\ m.waiters = <<Cmd>>
  BY <1>1, BypassFields
<1> HIDE DEF m
<1>4. ~Terminates /\ Cmd.cacheable /\ MatchingMshrs = {} /\ Cmd.op = "WRITE"
  BY <1>2 DEF WritesAround, Misses, NotVictim, Unowned, Cached
<1>5. ~PrivateFill(Cmd)
  BY <1>4 DEF PrivateFill, IsRead
<1>6. MshrShape(m)
  BY <1>1, <1>3, <1>4, <1>5, TakenShape
<1>7. m.state # "PROBE_INFLIGHT" /\ (m.cacheable => MatchingMshrs = {})
      /\ array' \in [L2Sets -> [L2Ways -> L2Entries]]
  BY <1>1, <1>2, <1>3, <1>4, ArrayKept
<1> QED
  BY <1>1, <1>2, <1>3, <1>6, <1>7, TakenKeeps

LEMMA AllocKeeps == L2Inv /\ DispatchAlloc => L2Inv'
<1> SUFFICES ASSUME L2Inv, DispatchAlloc PROVE L2Inv'
  OBVIOUS
<1> DEFINE m == AllocMshr
<1>1. TypeOK /\ L2TypeOK /\ ServiceInv /\ Dispatch /\ lookup # << >>
  BY DEF L2Inv, TypeOK, DispatchAlloc, Dispatch
<1>2. /\ Misses /\ ~WritesAround /\ FreeMshrs # {} /\ OpenWays # {}
      /\ TakeMshr(m) /\ Reserve(AllocWay) /\ UNCHANGED <<hit, generation>>
  BY DEF DispatchAlloc
<1>3. /\ m \in L2Mshrs
      /\ m.state \in {"NEED_WB", "NEED_FILL"}
      /\ m.bypass = FALSE
      /\ m.line = Cmd.line /\ m.cacheable = Cmd.cacheable
      /\ m.private_fill = PrivateFill(Cmd)
      /\ m.waiters = <<Cmd>>
  BY <1>1, <1>2, AllocMshrFields
<1> HIDE DEF m
<1>4. ~Terminates /\ Cmd.cacheable /\ MatchingMshrs = {} /\ Cmd.op # "WRITE"
  BY <1>2 DEF WritesAround, Misses, NotVictim, Unowned, Cached
<1>5. MshrShape(m)
  BY <1>1, <1>3, <1>4, TakenShape
<1>6. AllocWay \in L2Ways
  BY <1>1, <1>2, RowFacts
<1>7. m.state # "PROBE_INFLIGHT" /\ (m.cacheable => MatchingMshrs = {})
      /\ array' \in [L2Sets -> [L2Ways -> L2Entries]]
  BY <1>1, <1>2, <1>3, <1>4, <1>6, ArrayReserved
<1> QED
  BY <1>1, <1>2, <1>3, <1>5, <1>7, TakenKeeps

\* A probing dispatch takes an MSHR too, from one of three other dispatches.
LEMMA ProbeTaken ==
    ASSUME L2Inv, Dispatch, ProbeNeeded, FreeMshrs # {}, NEW b \in L2Mshrs,
           TakeMshr(Probing(b)), ~Terminates, Cmd.cacheable,
           MatchingMshrs = {}, b.waiters = <<Cmd>>, b.line = Cmd.line,
           b.cacheable <=> Cmd.cacheable, b.private_fill <=> PrivateFill(Cmd),
           b.state \in {"NEED_WB", "NEED_FILL", "NEED_BYPASS", "REPLAY"},
           b.bypass <=> b.state = "NEED_BYPASS",
           b.bypass => ~PrivateFill(Cmd),
           Cmd.op = "WRITE" /\ ~b.bypass => b.state = "REPLAY",
           array' \in [L2Sets -> [L2Ways -> L2Entries]],
           UNCHANGED <<hit, generation>>
    PROVE  L2Inv'
<1> DEFINE m == Probing(b)
<1>1. TypeOK /\ L2TypeOK /\ DirectoryTypeOK /\ ServiceInv /\ lookup # << >>
  BY DEF L2Inv, TypeOK, Dispatch
<1>2. /\ m \in L2Mshrs /\ m.state = "NEED_PROBE" /\ m.post = b.state
      /\ m.bypass = b.bypass /\ m.cacheable = b.cacheable
      /\ m.private_fill = b.private_fill /\ m.line = b.line
      /\ m.waiters = b.waiters
  BY <1>1, ProbingFields
<1>3. TakeMshr(m)
  OBVIOUS
<1> HIDE DEF m
<1>4. MshrShape(m)
  BY <1>1, <1>2, TakenShape
<1>5. m.state # "PROBE_INFLIGHT" /\ m.waiters = <<Cmd>> /\ m.line = Cmd.line
  BY <1>2
<1> QED
  BY <1>1, <1>2, <1>3, <1>4, <1>5, TakenKeeps

LEMMA ProbeKeeps == L2Inv /\ DispatchProbe => L2Inv'
<1> SUFFICES ASSUME L2Inv, DispatchProbe PROVE L2Inv'
  OBVIOUS
<1>1. TypeOK /\ L2TypeOK /\ ServiceInv /\ Dispatch /\ lookup # << >>
  BY DEF L2Inv, TypeOK, DispatchProbe, Dispatch
<1>2. ProbeNeeded /\ FreeMshrs # {} /\ UNCHANGED <<hit, generation>>
  BY DEF DispatchProbe
<1>3. NotVictim =>
         ~Terminates /\ Cmd.cacheable /\ MatchingMshrs = {}
  BY DEF NotVictim, Unowned, Cached
<1>4. CASE /\ NotVictim /\ HitWays # {}
           /\ TakeMshr(Probing([NewMshr("REPLAY") EXCEPT
                                  !.way = First(HitWays),
                                  !.data = Row[First(HitWays)].data]))
           /\ Reserve(First(HitWays))
  <2> DEFINE n == NewMshr("REPLAY")
             w == First(HitWays)
             d == Row[w].data
             f == PrivateFill(Cmd)
             b == [n EXCEPT !.way = w, !.data = d]
  <2>1. w \in L2Ways /\ Row[w] \in L2Entries
    BY <1>1, <1>4, RowFacts
  <2>2. d \in Values
    BY <2>1 DEF L2Entries
  <2>3. /\ n \in L2Mshrs
        /\ n.state = "REPLAY" /\ n.bypass = FALSE
        /\ n.line = Cmd.line /\ n.cacheable = Cmd.cacheable
        /\ n.private_fill = f /\ n.waiters = <<Cmd>>
    BY <1>1, NewMshrFields DEF L2MshrStates
  <2>4. array' \in [L2Sets -> [L2Ways -> L2Entries]]
    BY <1>1, <1>4, <2>1, ArrayReserved
  <2>5. TakeMshr(Probing(b))
    BY <1>4
  <2> HIDE DEF n, w, d, f
  <2>6. b \in L2Mshrs
    BY <2>1, <2>2, <2>3 DEF L2Mshrs
  <2>7. /\ b.state = "REPLAY" /\ b.bypass = FALSE
        /\ b.line = Cmd.line /\ b.cacheable = Cmd.cacheable
        /\ b.private_fill = f /\ b.waiters = <<Cmd>>
    BY <2>3 DEF L2Mshrs
  <2> HIDE DEF b
  <2> QED
    BY <1>1, <1>2, <1>3, <1>4, <2>4, <2>5, <2>6, <2>7, ProbeTaken DEF f
<1>5. CASE /\ WritesAround
           /\ TakeMshr(Probing([NewMshr("NEED_BYPASS") EXCEPT
                                  !.bypass = TRUE]))
           /\ UNCHANGED array
  <2> DEFINE b == [NewMshr("NEED_BYPASS") EXCEPT !.bypass = TRUE]
  <2>1. /\ b \in L2Mshrs
        /\ b.state = "NEED_BYPASS" /\ b.bypass = TRUE
        /\ b.line = Cmd.line /\ b.cacheable = Cmd.cacheable
        /\ b.private_fill = PrivateFill(Cmd)
        /\ b.waiters = <<Cmd>>
    BY <1>1, BypassFields
  <2>2. NotVictim /\ Cmd.op = "WRITE"
    BY <1>5 DEF WritesAround, Misses
  <2>3. ~PrivateFill(Cmd)
    BY <2>2 DEF PrivateFill, IsRead
  <2>4. array' \in [L2Sets -> [L2Ways -> L2Entries]]
    BY <1>1, <1>5, ArrayKept
  <2>5. TakeMshr(Probing(b))
    BY <1>5
  <2> HIDE DEF b
  <2> QED
    BY <1>1, <1>2, <1>3, <2>1, <2>2, <2>3, <2>4, <2>5, ProbeTaken
<1>6. CASE /\ Misses /\ ~WritesAround /\ OpenWays # {}
           /\ TakeMshr(Probing(AllocMshr))
           /\ Reserve(AllocWay)
  <2> DEFINE b == AllocMshr
  <2>1. /\ b \in L2Mshrs
        /\ b.state \in {"NEED_WB", "NEED_FILL"} /\ b.bypass = FALSE
        /\ b.line = Cmd.line /\ b.cacheable = Cmd.cacheable
        /\ b.private_fill = PrivateFill(Cmd)
        /\ b.waiters = <<Cmd>>
    BY <1>1, <1>6, AllocMshrFields
  <2>2. NotVictim /\ Cmd.op # "WRITE"
    BY <1>6 DEF WritesAround, Misses
  <2>3. AllocWay \in L2Ways
    BY <1>1, <1>6, RowFacts
  <2>4. array' \in [L2Sets -> [L2Ways -> L2Entries]]
    BY <1>1, <1>6, <2>3, ArrayReserved
  <2>5. TakeMshr(Probing(b))
    BY <1>6
  <2> HIDE DEF b
  <2> QED
    BY <1>1, <1>2, <1>3, <2>1, <2>2, <2>4, <2>5, ProbeTaken
<1> QED
  BY <1>4, <1>5, <1>6 DEF DispatchProbe


LEMMA AppendToWaiters ==
    ASSUME NEW s \in Seq(Commands), NEW c \in Commands, s # << >>
    PROVE  /\ Append(s, c) \in Seq(Commands) /\ Append(s, c) # << >>
           /\ Len(Append(s, c)) = Len(s) + 1
           /\ Head(Append(s, c)) = Head(s)
           /\ \A n \in DOMAIN Append(s, c) :
                 \/ n \in DOMAIN s /\ Append(s, c)[n] = s[n]
                 \/ n > 1 /\ Append(s, c)[n] = c
<1>1. Len(s) \in Nat /\ Len(s) # 0 /\ DOMAIN s = 1 .. Len(s)
  BY EmptySeq
<1>2. /\ Append(s, c) \in Seq(Commands) /\ Append(s, c) # << >>
      /\ Len(Append(s, c)) = Len(s) + 1
      /\ DOMAIN Append(s, c) = 1 .. Len(s) + 1
      /\ Append(s, c)[Len(s) + 1] = c
      /\ \A n \in 1 .. Len(s) : Append(s, c)[n] = s[n]
  BY <1>1, AppendProperties
<1>3. Head(Append(s, c)) = Head(s)
  <2>1. Head(s) = s[1] /\ Head(Append(s, c)) = Append(s, c)[1]
    BY <1>2, HeadTailProperties
  <2> QED BY <1>1, <1>2, <2>1
<1> QED
  BY <1>1, <1>2, <1>3

\* A command that joins an MSHR.
LEMMA MergeKeeps == L2Inv /\ DispatchMerge => L2Inv'
<1> SUFFICES ASSUME L2Inv, DispatchMerge PROVE L2Inv'
  OBVIOUS
<1> DEFINE i == First(MatchingMshrs)
           m == l2mshr[i]
           f == m.private_fill \/ PrivateFill(Cmd)
           ai == IF PrivateProbeNeeded THEN m.add_i \cup ISharer ELSE m.add_i
           ad == IF PrivateProbeNeeded THEN m.add_d \cup DSharer ELSE m.add_d
           w == Append(m.waiters, Cmd)
           k == [m EXCEPT !.waiters = w, !.private_fill = f,
                          !.add_i = ai, !.add_d = ad]
<1>1. /\ TypeOK /\ DirectoryTypeOK /\ L2TypeOK /\ ServiceInv /\ MshrInv
      /\ BusInv /\ ProbeActive
      /\ Dispatch
  BY DEF L2Inv, TypeOK, DispatchMerge
<1>2. /\ lookup # << >> /\ lookup' = << >>
      /\ DirectoryTypeOK' /\ ProbeTypeOK' /\ PrivateTypeOK'
      /\ reservation' \in [Harts -> Lines \cup {NoLine}]
      /\ UNCHANGED <<cmds, responses, bus, mem, next_way, next_probe_id,
                     active_probe, tracker, privateVars>>
  BY <1>1, DispatchFacts
<1>3. Cmd \in Commands /\ Legal(Cmd)
  BY <1>1, <1>2, CmdFacts
<1>4. Cached /\ MatchingMshrs # {} /\ Mergeable(m) /\ ~CoherentWrite(Cmd)
  BY DEF DispatchMerge
<1>5. l2mshr' = [l2mshr EXCEPT ![i] = k] /\ UNCHANGED <<hit, array, generation>>
  BY DEF DispatchMerge
<1>6. i \in MatchingMshrs
  <2>1. MatchingMshrs \in SUBSET MshrIds
    BY DEF MatchingMshrs, Busy
  <2> QED BY <1>4, <2>1, FirstMshr
<1> HIDE DEF i
<1>7. i \in MshrIds /\ m.state # "IDLE" /\ m.line = Cmd.line
  BY <1>6 DEF MatchingMshrs, Busy
<1>8. m \in L2Mshrs /\ MshrShape(m)
  BY <1>1, <1>7 DEF L2TypeOK, MshrInv
<1>9. /\ ~m.bypass /\ Len(m.waiters) < WAITERS_PER_MSHR
      /\ m.waiters \in Seq(Commands) /\ m.waiters # << >> /\ m.cacheable
  BY <1>4, <1>7, <1>8 DEF Mergeable, MshrShape, L2Mshrs
<1>10. /\ w \in Seq(Commands) /\ w # << >> /\ Len(w) = Len(m.waiters) + 1
       /\ Head(w) = Head(m.waiters)
       /\ \A n \in DOMAIN w :
             \/ n \in DOMAIN m.waiters /\ w[n] = m.waiters[n]
             \/ n > 1 /\ w[n] = Cmd
  BY <1>3, <1>9, AppendToWaiters
<1>11. f \in BOOLEAN /\ ai \in SUBSET Harts /\ ad \in SUBSET Harts
  <2>1. m.private_fill \in BOOLEAN /\ m.add_i \in SUBSET Harts
        /\ m.add_d \in SUBSET Harts
    BY <1>8 DEF L2Mshrs
  <2>2. ISharer \in SUBSET Harts /\ DSharer \in SUBSET Harts
    BY <1>1, <1>2, ProbeFacts
  <2> QED BY <2>1, <2>2
<1>12. f <=> m.private_fill \/ PrivateFill(Cmd)
  OBVIOUS
<1> HIDE DEF w, f, ai, ad
<1>13. /\ k \in L2Mshrs
       /\ k.state = m.state /\ k.post = m.post /\ k.bypass = m.bypass
       /\ k.cacheable = m.cacheable /\ k.line = m.line
       /\ k.private_fill = f /\ k.waiters = w
  <2> DEFINE p == [m EXCEPT !.waiters = w, !.private_fill = f]
  <2>1. k = [p EXCEPT !.add_i = ai, !.add_d = ad]
    BY DEF k
  <2>2. /\ p \in L2Mshrs
        /\ p.state = m.state /\ p.post = m.post /\ p.bypass = m.bypass
        /\ p.cacheable = m.cacheable /\ p.line = m.line
        /\ p.private_fill = f /\ p.waiters = w
    <3> HIDE DEF m
    <3> QED BY <1>8, <1>10, <1>11 DEF L2Mshrs
  <2> HIDE DEF p, k
  <2> QED BY <1>11, <2>1, <2>2 DEF L2Mshrs
<1> HIDE DEF k
<1>14. MshrShape(k)
  <2>1. WaitersOK(k)
    <3>1. WaitersOK(m)
      BY <1>8 DEF MshrShape
    <3>2. /\ Cmd.err = "none" /\ Cmd.op # "FENCE" /\ Cmd.cacheable
          /\ ~OpWrites(Cmd.op)
      BY <1>4 DEF Cached, Terminates, CoherentWrite
    <3> HIDE DEF m
    <3> SUFFICES ASSUME NEW n \in DOMAIN w
                 PROVE  /\ w[n].line = k.line /\ w[n].err = "none"
                        /\ w[n].op # "FENCE"
                        /\ w[n].cacheable <=> k.cacheable
                        /\ n > 1 => ~OpWrites(w[n].op)
                        /\ PrivateFill(w[n]) => k.private_fill
      BY <1>13 DEF WaitersOK
    <3>3. CASE n \in DOMAIN m.waiters /\ w[n] = m.waiters[n]
      BY <1>12, <1>13, <3>1, <3>3 DEF WaitersOK
    <3>4. CASE n > 1 /\ w[n] = Cmd
      BY <1>7, <1>9, <1>12, <1>13, <3>2, <3>4 DEF m
    <3> QED BY <1>10, <3>3, <3>4
  <2> HIDE DEF m
  <2>2. m.state # "IDLE"
    BY <1>7 DEF m
  <2> QED
    BY <1>8, <1>9, <1>10, <1>13, <2>1, <2>2 DEF MshrShape
<1>15. l2mshr'[i] = k /\ \A j \in MshrIds : j # i => l2mshr'[j] = l2mshr[j]
  BY <1>1, <1>5, <1>7 DEF L2TypeOK
<1>16. \A j \in MshrIds :
          /\ l2mshr'[j].state = l2mshr[j].state
          /\ l2mshr'[j].cacheable = l2mshr[j].cacheable
          /\ l2mshr'[j].line = l2mshr[j].line
  BY <1>13, <1>15
<1>17. ServiceInv'
  <2>1. Moves(Spots, Pending, Pending', LookupAt, MshrAt(i))
    <3>1. k.waiters = Append(l2mshr[i].waiters, Cmd)
      BY <1>13 DEF w
    <3> QED BY <1>1, <1>2, <1>5, <1>7, <3>1, WaiterMoves
  <2> QED BY <1>1, <1>2, <1>7, <2>1, SpotsApart, ServiceMoved
<1>18. L2TypeOK'
  <2>1. l2mshr' \in [MshrIds -> L2Mshrs]
    BY <1>1, <1>5, <1>7, <1>13 DEF L2TypeOK
  <2>2. Len(k.waiters) <= WAITERS_PER_MSHR
    <3>1. Len(m.waiters) \in Nat
      BY <1>9
    <3> QED BY <1>9, <1>10, <1>13, <3>1, L2Assumption
  <2>3. \A j \in MshrIds : Len(l2mshr'[j].waiters) <= WAITERS_PER_MSHR
    BY <1>1, <1>15, <2>2 DEF L2TypeOK
  <2>4. lookup' \in Seq(Commands) /\ Len(lookup') <= 1
    BY <1>2
  <2> QED BY <1>1, <1>2, <1>5, <2>1, <2>3, <2>4 DEF L2TypeOK
<1>19. MshrInv'
  <2>1. \A j \in MshrIds : MshrShape(l2mshr'[j])
    BY <1>1, <1>14, <1>15 DEF MshrInv
  <2> QED BY <1>1, <1>16, <2>1 DEF MshrInv, Busy
<1>20. BusInv' /\ ProbeActive'
  <2>1. \A n \in DOMAIN bus : bus[n].mshr \in MshrIds
    BY <1>1, BusTypes
  <2>2. active_probe \in MshrIds
    BY <1>1 DEF L2TypeOK
  <2> QED BY <1>1, <1>2, <1>16, <2>1, <2>2 DEF BusInv, ProbeActive
<1> QED
  BY <1>2, <1>17, <1>18, <1>19, <1>20 DEF L2Inv, TypeOK
-----------------------------------------------------------------------------
(* The MSHRs on their own.                                                   *)

\* MSHR i becomes k: it keeps its line, or is released.
LEMMA MshrUpdated ==
    ASSUME L2TypeOK, MshrInv, NEW i \in MshrIds, NEW k \in L2Mshrs,
           l2mshr' = [l2mshr EXCEPT ![i] = k], MshrShape(k),
           Len(k.waiters) <= WAITERS_PER_MSHR,
           k.state # "IDLE" =>
              /\ l2mshr[i].state # "IDLE"
              /\ k.cacheable = l2mshr[i].cacheable
              /\ k.line = l2mshr[i].line
    PROVE  /\ l2mshr' \in [MshrIds -> L2Mshrs]
           /\ \A j \in MshrIds : Len(l2mshr'[j].waiters) <= WAITERS_PER_MSHR
           /\ l2mshr'[i] = k
           /\ \A j \in MshrIds : j # i => l2mshr'[j] = l2mshr[j]
           /\ MshrInv'
<1>1. l2mshr \in [MshrIds -> L2Mshrs]
      /\ \A j \in MshrIds : Len(l2mshr[j].waiters) <= WAITERS_PER_MSHR
  BY DEF L2TypeOK
<1>2. l2mshr' \in [MshrIds -> L2Mshrs] /\ l2mshr'[i] = k
      /\ \A j \in MshrIds : j # i => l2mshr'[j] = l2mshr[j]
  BY <1>1
<1>3. \A j \in MshrIds : Len(l2mshr'[j].waiters) <= WAITERS_PER_MSHR
  BY <1>1, <1>2
<1>4. \A j \in MshrIds : MshrShape(l2mshr'[j])
  BY <1>2 DEF MshrInv
<1>5. \A j \in MshrIds : l2mshr'[j].state # "IDLE" =>
         /\ l2mshr[j].state # "IDLE"
         /\ l2mshr'[j].cacheable = l2mshr[j].cacheable
         /\ l2mshr'[j].line = l2mshr[j].line
  BY <1>2
<1>6. MshrInv'
  BY <1>4, <1>5 DEF MshrInv, Busy
<1> QED
  BY <1>2, <1>3, <1>6

\* Only the state of MSHR i changes.
LEMMA StateStep ==
    ASSUME L2TypeOK, MshrInv, NEW i \in MshrIds, NEW st \in L2MshrStates,
           l2mshr' = [l2mshr EXCEPT ![i].state = st],
           l2mshr[i].state # "IDLE",
           MshrShape([l2mshr[i] EXCEPT !.state = st])
    PROVE  /\ l2mshr' \in [MshrIds -> L2Mshrs]
           /\ \A j \in MshrIds : Len(l2mshr'[j].waiters) <= WAITERS_PER_MSHR
           /\ l2mshr'[i].state = st
           /\ \A j \in MshrIds : j # i => l2mshr'[j] = l2mshr[j]
           /\ \A j \in MshrIds : l2mshr'[j].waiters = l2mshr[j].waiters
           /\ MshrInv'
<1> DEFINE m == l2mshr[i]
           k == [m EXCEPT !.state = st]
<1>1. m \in L2Mshrs
  BY DEF L2TypeOK
<1>2. l2mshr' = [l2mshr EXCEPT ![i] = k] /\ MshrShape(k) /\ m.state # "IDLE"
      /\ Len(m.waiters) <= WAITERS_PER_MSHR /\ m.waiters = l2mshr[i].waiters
      /\ m.cacheable = l2mshr[i].cacheable /\ m.line = l2mshr[i].line
  BY DEF L2TypeOK
<1> HIDE DEF m
<1>3. /\ k \in L2Mshrs /\ k.state = st /\ k.waiters = m.waiters
      /\ k.cacheable = m.cacheable /\ k.line = m.line
  BY <1>1 DEF L2Mshrs
<1> HIDE DEF k
<1>4. /\ l2mshr' \in [MshrIds -> L2Mshrs]
      /\ \A j \in MshrIds : Len(l2mshr'[j].waiters) <= WAITERS_PER_MSHR
      /\ l2mshr'[i] = k
      /\ \A j \in MshrIds : j # i => l2mshr'[j] = l2mshr[j]
      /\ MshrInv'
  BY <1>2, <1>3, MshrUpdated
<1> QED
  BY <1>2, <1>3, <1>4

\* The fields of an MSHR whose state has become st.
LEMMA StateFields ==
    ASSUME NEW m \in L2Mshrs, NEW st \in L2MshrStates
    PROVE  LET k == [m EXCEPT !.state = st]
           IN  /\ k \in L2Mshrs /\ k.state = st /\ k.post = m.post
               /\ k.bypass = m.bypass /\ k.cacheable = m.cacheable
               /\ k.private_fill = m.private_fill /\ k.line = m.line
               /\ k.waiters = m.waiters
  BY DEF L2Mshrs

\* The shape an MSHR keeps when its state moves on.
LEMMA StateShape ==
    ASSUME NEW m \in L2Mshrs, NEW k, MshrShape(m), m.state # "IDLE",
           k.post = m.post, k.bypass <=> m.bypass,
           k.cacheable <=> m.cacheable,
           k.private_fill <=> m.private_fill, k.line = m.line,
           k.waiters = m.waiters, k.state # "IDLE",
           k.state \in ProbeStates => m.state \in ProbeStates,
           k.state \in {"NEED_BYPASS", "BYPASS_INFLIGHT"} => m.bypass,
           k.state \in {"NEED_WB", "WB_INFLIGHT", "NEED_FILL",
                        "FILL_INFLIGHT"} => ~m.bypass,
           Head(m.waiters).op = "WRITE" /\ ~m.bypass =>
              \/ k.state = "REPLAY"
              \/ m.state \in ProbeStates /\ k.state \in ProbeStates
    PROVE  MshrShape(k)
<1>1. WaitersOK(k)
  BY DEF MshrShape, WaitersOK
<1> QED
  BY <1>1 DEF MshrShape, ProbeStates

\* The commands stay where they are and no private cache steps.
LEMMA InPlace ==
    ASSUME ServiceInv,
           \A j \in MshrIds : l2mshr'[j].waiters = l2mshr[j].waiters,
           UNCHANGED <<cmds, lookup, hit, responses, privateVars>>
    PROVE  ServiceInv'
<1>1. Pending' = Pending
  BY NothingMoves
<1>2. KeepsWaiting /\ AccessInv'
  BY NoPrivateStep DEF ServiceInv
<1> QED
  BY <1>1, <1>2, ServiceStays

\* No step of an MSHR that waits for nothing on the bus changes what it owes.
LEMMA BusStays ==
    ASSUME L2TypeOK, BusInv, NEW i \in MshrIds,
           l2mshr[i].state \notin {"WB_INFLIGHT", "FILL_INFLIGHT",
                                   "BYPASS_INFLIGHT"},
           \A j \in MshrIds : j # i => l2mshr'[j] = l2mshr[j],
           UNCHANGED bus
    PROVE  BusInv'
<1>1. \A n \in DOMAIN bus : bus[n].mshr \in MshrIds /\ bus[n].mshr # i
  BY BusTypes, InflightBusy DEF BusInv
<1> QED
  BY <1>1 DEF BusInv


LEMMA ProbeStartKeeps == L2Inv /\ ProbeStart => L2Inv'
<1> SUFFICES ASSUME L2Inv, ProbeStart PROVE L2Inv'
  OBVIOUS
<1> DEFINE i == First(NeedProbe)
           m == l2mshr[i]
           k == [m EXCEPT !.state = "PROBE_INFLIGHT"]
<1>1. /\ TypeOK /\ DirectoryTypeOK /\ ProbeTypeOK /\ PrivateTypeOK /\ L2TypeOK
      /\ ServiceInv /\ MshrInv /\ BusInv /\ ProbeActive
  BY DEF L2Inv, TypeOK
<1>2. /\ TrackerStart(m.targets, next_probe_id, m.mask, m.probe_line)
      /\ active_probe' = i
      /\ l2mshr' = [l2mshr EXCEPT ![i].state = "PROBE_INFLIGHT"]
      /\ next_probe_id' = (next_probe_id + 1) % ProbeIds
      /\ UNCHANGED <<endpoint, probe_error, cmds, lookup, hit, array,
                     next_way, responses, bus, mem, reservation, generation,
                     directoryVars, privateVars>>
  BY DEF ProbeStart
<1>3. i \in NeedProbe
  <2>1. NeedProbe \in SUBSET MshrIds /\ NeedProbe # {}
    BY DEF ProbeStart, NeedProbe
  <2> QED BY <2>1, FirstMshr
<1> HIDE DEF i
<1>4. i \in MshrIds /\ m.state = "NEED_PROBE" /\ m \in L2Mshrs /\ MshrShape(m)
  BY <1>1, <1>3 DEF NeedProbe, L2TypeOK, MshrInv
<1>5. "PROBE_INFLIGHT" \in L2MshrStates
  BY DEF L2MshrStates
<1>6. MshrShape(k)
  <2>1. /\ k.state = "PROBE_INFLIGHT" /\ k.post = m.post
        /\ k.bypass = m.bypass /\ k.cacheable = m.cacheable
        /\ k.private_fill = m.private_fill /\ k.line = m.line
        /\ k.waiters = m.waiters
    BY <1>4, <1>5, StateFields
  <2> HIDE DEF m, k
  <2> QED BY <1>4, <2>1, StateShape DEF ProbeStates
<1>7. /\ l2mshr' \in [MshrIds -> L2Mshrs]
      /\ \A j \in MshrIds : Len(l2mshr'[j].waiters) <= WAITERS_PER_MSHR
      /\ l2mshr'[i].state = "PROBE_INFLIGHT"
      /\ \A j \in MshrIds : j # i => l2mshr'[j] = l2mshr[j]
      /\ \A j \in MshrIds : l2mshr'[j].waiters = l2mshr[j].waiters
      /\ MshrInv'
  BY <1>1, <1>2, <1>4, <1>5, <1>6, StateStep
<1>8. next_probe_id' \in ProbeId
  BY <1>1, <1>2, ProbeIdsAssumption DEF L2TypeOK, ProbeId
<1>9. L2TypeOK'
  BY <1>1, <1>2, <1>4, <1>7, <1>8 DEF L2TypeOK
<1>10. DirectoryTypeOK' /\ PrivateTypeOK'
  BY <1>1, <1>2 DEF directoryVars, DirectoryTypeOK, privateVars, PrivateTypeOK
<1>11. tracker' = [busy |-> TRUE, done |-> FALSE, issue |-> m.targets,
                   ack |-> {}, id |-> next_probe_id, mask |-> m.mask,
                   line |-> m.probe_line]
  BY <1>2 DEF TrackerStart
<1>12. ProbeTypeOK'
  <2>1. /\ m.targets \in SUBSET Harts /\ m.mask \in CacheMasks
        /\ m.probe_line \in Lines /\ next_probe_id \in ProbeId
    BY <1>1, <1>4 DEF L2Mshrs, L2TypeOK
  <2>2. tracker' \in TrackerRegisters
    BY <1>11, <2>1 DEF TrackerRegisters
  <2> QED BY <1>1, <1>2, <2>2 DEF ProbeTypeOK
<1>13. ServiceInv'
  BY <1>1, <1>2, <1>7, InPlace
<1>14. BusInv'
  BY <1>1, <1>2, <1>4, <1>7, BusStays
<1>15. ProbeActive'
  BY <1>2, <1>7, <1>11 DEF ProbeActive
<1> QED
  BY <1>7, <1>9, <1>10, <1>12, <1>13, <1>14, <1>15 DEF L2Inv, TypeOK

LEMMA ProbeCompleteKeeps == L2Inv /\ ProbeComplete => L2Inv'
<1> SUFFICES ASSUME L2Inv, ProbeComplete PROVE L2Inv'
  OBVIOUS
<1> DEFINE i == active_probe
           m == l2mshr[i]
           st == m.post
           k == [m EXCEPT !.state = st]
<1>1. /\ TypeOK /\ DirectoryTypeOK /\ ProbeTypeOK /\ PrivateTypeOK /\ L2TypeOK
      /\ ServiceInv /\ MshrInv /\ BusInv /\ ProbeActive
  BY DEF L2Inv, TypeOK
<1>2. /\ TrackerDone
      /\ \/ DirectoryAllocateFor(m.line, m.entry, m.add_i, m.add_d \ m.clear_d)
         \/ DirectoryOverwrite(m.line, m.entry, m.add_i, m.add_d \ m.clear_d)
      /\ l2mshr' = [l2mshr EXCEPT ![i].state = st]
      /\ UNCHANGED <<endpoint, probe_error, cmds, lookup, hit, array,
                     next_way, responses, bus, mem, reservation, generation,
                     next_probe_id, active_probe, privateVars>>
  BY DEF ProbeComplete
<1>3. i \in MshrIds /\ m \in L2Mshrs /\ MshrShape(m)
      /\ m.state = "PROBE_INFLIGHT" /\ ~tracker.busy
  BY <1>1, <1>2 DEF L2TypeOK, MshrInv, ProbeActive, TrackerDone
<1>4. DirectoryTypeOK'
  <2>1. /\ m.line \in Lines /\ m.entry \in Ways /\ m.add_i \in SUBSET Harts
        /\ m.add_d \ m.clear_d \in SUBSET Harts
    BY <1>3 DEF L2Mshrs
  <2> QED BY <1>1, <1>2, <2>1, EntryWrite
<1>5. st \in {"NEED_WB", "NEED_FILL", "NEED_BYPASS", "REPLAY"}
      /\ st \in L2MshrStates
  BY <1>3 DEF MshrShape, ProbeStates, L2MshrStates
<1>6. MshrShape(k)
  <2>1. /\ k.state = st /\ k.post = m.post
        /\ k.bypass = m.bypass /\ k.cacheable = m.cacheable
        /\ k.private_fill = m.private_fill /\ k.line = m.line
        /\ k.waiters = m.waiters
    BY <1>3, <1>5, StateFields
  <2>2. /\ m.bypass <=> st = "NEED_BYPASS"
        /\ Head(m.waiters).op = "WRITE" /\ ~m.bypass => st = "REPLAY"
    BY <1>3, <1>5 DEF MshrShape, ProbeStates
  <2>3. /\ st # "IDLE" /\ st \notin ProbeStates
        /\ st \in {"NEED_BYPASS", "BYPASS_INFLIGHT"} => m.bypass
        /\ st \in {"NEED_WB", "WB_INFLIGHT", "NEED_FILL", "FILL_INFLIGHT"}
              => ~m.bypass
    BY <1>5, <2>2 DEF ProbeStates
  <2> HIDE DEF m, k, st
  <2> QED BY <1>3, <2>1, <2>2, <2>3, StateShape
<1>7. /\ l2mshr' \in [MshrIds -> L2Mshrs]
      /\ \A j \in MshrIds : Len(l2mshr'[j].waiters) <= WAITERS_PER_MSHR
      /\ \A j \in MshrIds : j # i => l2mshr'[j] = l2mshr[j]
      /\ \A j \in MshrIds : l2mshr'[j].waiters = l2mshr[j].waiters
      /\ MshrInv'
  <2> HIDE DEF st
  <2> QED BY <1>1, <1>2, <1>3, <1>5, <1>6, StateStep DEF st
<1>8. L2TypeOK'
  BY <1>1, <1>2, <1>7 DEF L2TypeOK
<1>9. PrivateTypeOK'
  BY <1>1, <1>2 DEF privateVars, PrivateTypeOK
<1>10. tracker' = [tracker EXCEPT !.done = FALSE]
  BY <1>2 DEF TrackerDone
<1>11. ProbeTypeOK'
  BY <1>1, <1>2, <1>10 DEF ProbeTypeOK, TrackerRegisters
<1>12. ~tracker'.busy /\ ~tracker'.done
  BY <1>1, <1>3, <1>10 DEF ProbeTypeOK, TrackerRegisters
<1>13. ServiceInv'
  BY <1>1, <1>2, <1>7, InPlace
<1>14. BusInv'
  BY <1>1, <1>2, <1>3, <1>7, BusStays
<1>15. ProbeActive'
  BY <1>12 DEF ProbeActive
<1> QED
  BY <1>4, <1>7, <1>8, <1>9, <1>11, <1>13, <1>14, <1>15 DEF L2Inv, TypeOK


\* The states of a request on the bus.
LEMMA BusStates ==
    /\ NeedState("WB") = "NEED_WB" /\ InflightState("WB") = "WB_INFLIGHT"
    /\ NeedState("FILL") = "NEED_FILL"
    /\ InflightState("FILL") = "FILL_INFLIGHT"
    /\ NeedState("BYPASS") = "NEED_BYPASS"
    /\ InflightState("BYPASS") = "BYPASS_INFLIGHT"
  BY DEF NeedState, InflightState

LEMMA BusRequestKeeps ==
    ASSUME L2Inv, NEW i \in MshrIds, BusRequest(i)
    PROVE  L2Inv'
<1>1. /\ TypeOK /\ DirectoryTypeOK /\ ProbeTypeOK /\ PrivateTypeOK /\ L2TypeOK
      /\ ServiceInv /\ MshrInv /\ BusInv /\ ProbeActive
  BY DEF L2Inv, TypeOK
<1>2. PICK a \in BusActions :
         /\ l2mshr[i].state = NeedState(a)
         /\ bus' = Append(bus, [mshr |-> i, action |-> a])
         /\ l2mshr' = [l2mshr EXCEPT ![i].state = InflightState(a)]
  BY DEF BusRequest
<1>3. /\ Len(bus) < MSHR_ENTRIES
      /\ UNCHANGED <<cmds, lookup, hit, array, next_way, responses, mem,
                     reservation, generation, next_probe_id, active_probe,
                     directoryVars, probeVars, privateVars>>
  BY DEF BusRequest
<1> DEFINE m == l2mshr[i]
           st == InflightState(a)
           k == [m EXCEPT !.state = st]
           r == [mshr |-> i, action |-> a]
<1>4. /\ m \in L2Mshrs /\ MshrShape(m)
      /\ \/ a = "WB" /\ m.state = "NEED_WB" /\ st = "WB_INFLIGHT"
         \/ a = "FILL" /\ m.state = "NEED_FILL" /\ st = "FILL_INFLIGHT"
         \/ a = "BYPASS" /\ m.state = "NEED_BYPASS" /\ st = "BYPASS_INFLIGHT"
  BY <1>1, <1>2, BusStates DEF L2TypeOK, MshrInv, BusActions
<1>5. st \in L2MshrStates /\ m.state # "IDLE"
  BY <1>4 DEF L2MshrStates
<1>6. MshrShape(k)
  <2>1. /\ k.state = st /\ k.post = m.post
        /\ k.bypass = m.bypass /\ k.cacheable = m.cacheable
        /\ k.private_fill = m.private_fill /\ k.line = m.line
        /\ k.waiters = m.waiters
    BY <1>4, <1>5, StateFields
  <2>2. /\ st # "IDLE" /\ st \notin ProbeStates
        /\ st \in {"NEED_BYPASS", "BYPASS_INFLIGHT"} => m.bypass
        /\ st \in {"NEED_WB", "WB_INFLIGHT", "NEED_FILL", "FILL_INFLIGHT"}
              => ~m.bypass
        /\ ~(Head(m.waiters).op = "WRITE" /\ ~m.bypass)
    BY <1>4 DEF ProbeStates, MshrShape
  <2> HIDE DEF m, k, st
  <2> QED BY <1>4, <1>5, <2>1, <2>2, StateShape
<1>7. /\ l2mshr' \in [MshrIds -> L2Mshrs]
      /\ \A j \in MshrIds : Len(l2mshr'[j].waiters) <= WAITERS_PER_MSHR
      /\ l2mshr'[i].state = st
      /\ \A j \in MshrIds : j # i => l2mshr'[j] = l2mshr[j]
      /\ \A j \in MshrIds : l2mshr'[j].waiters = l2mshr[j].waiters
      /\ MshrInv'
  <2> HIDE DEF st
  <2> QED BY <1>1, <1>2, <1>5, <1>6, StateStep DEF st
<1> DEFINE B == [mshr: MshrIds, action: {"WB", "FILL", "BYPASS"}]
<1>8. r \in B /\ bus \in Seq(B) /\ bus' = Append(bus, r)
      /\ r.mshr = i /\ r.action = a
  BY <1>1, <1>2 DEF L2TypeOK, BusActions
<1> HIDE DEF B, r
<1>9. /\ bus' \in Seq(B) /\ Len(bus') = Len(bus) + 1 /\ Len(bus) \in Nat
      /\ DOMAIN bus = 1 .. Len(bus) /\ DOMAIN bus' = 1 .. Len(bus) + 1
      /\ bus'[Len(bus) + 1] = r
      /\ \A n \in 1 .. Len(bus) : bus'[n] = bus[n]
  BY <1>8, AppendProperties
<1>10. L2TypeOK'
  <2>1. Len(bus') <= MSHR_ENTRIES
    BY <1>3, <1>9, L2Assumption
  <2> QED BY <1>1, <1>3, <1>7, <1>9, <2>1 DEF L2TypeOK, B
<1>11. /\ DirectoryTypeOK' /\ ProbeTypeOK' /\ PrivateTypeOK'
  BY <1>1, <1>3 DEF directoryVars, DirectoryTypeOK, privateVars, PrivateTypeOK,
     probeVars, ProbeTypeOK
<1>12. ServiceInv'
  BY <1>1, <1>3, <1>7, InPlace
<1>13. BusInv'
  <2>1. \A n \in 1 .. Len(bus) : bus[n].mshr \in MshrIds /\ bus[n].mshr # i
    BY <1>1, <1>4, <1>9, BusTypes, InflightBusy DEF BusInv
  <2>2. \A n \in DOMAIN bus' :
           l2mshr'[bus'[n].mshr].state = InflightState(bus'[n].action)
    <3> SUFFICES ASSUME NEW n \in DOMAIN bus'
                 PROVE  l2mshr'[bus'[n].mshr].state
                           = InflightState(bus'[n].action)
      OBVIOUS
    <3>1. CASE n = Len(bus) + 1
      BY <1>7, <1>8, <1>9, <3>1
    <3>2. CASE n \in 1 .. Len(bus)
      BY <1>1, <1>7, <1>9, <2>1, <3>2 DEF BusInv
    <3> QED BY <1>9, <3>1, <3>2
  <2>3. \A n, x \in DOMAIN bus' : bus'[n].mshr = bus'[x].mshr => n = x
    BY <1>1, <1>8, <1>9, <2>1 DEF BusInv
  <2> QED BY <2>2, <2>3 DEF BusInv
<1>14. ProbeActive'
  BY <1>1, <1>3, <1>4, <1>7 DEF ProbeActive, L2TypeOK, probeVars
<1> QED
  BY <1>7, <1>10, <1>11, <1>12, <1>13, <1>14 DEF L2Inv, TypeOK


\* The MSHR that the bus answers.
LEMMA BusHead ==
    ASSUME L2TypeOK, MshrInv, BusInv, bus # << >>
    PROVE  LET i == Head(bus).mshr
               a == Head(bus).action
           IN  /\ i \in MshrIds /\ a \in BusActions
               /\ l2mshr[i] \in L2Mshrs /\ MshrShape(l2mshr[i])
               /\ l2mshr[i].state = InflightState(a)
               /\ \/ a = "WB" /\ l2mshr[i].state = "WB_INFLIGHT"
                  \/ a = "FILL" /\ l2mshr[i].state = "FILL_INFLIGHT"
                  \/ a = "BYPASS" /\ l2mshr[i].state = "BYPASS_INFLIGHT"
               /\ Tail(bus) \in Seq([mshr: MshrIds, action: BusActions])
               /\ Len(Tail(bus)) <= MSHR_ENTRIES
               /\ \A n \in DOMAIN Tail(bus) :
                     /\ n \in Nat /\ n + 1 \in DOMAIN bus
                     /\ Tail(bus)[n] = bus[n + 1]
                     /\ bus[n + 1].mshr \in MshrIds
                     /\ bus[n + 1].mshr # i
<1> DEFINE B == [mshr: MshrIds, action: BusActions]
<1>1. bus \in Seq(B) /\ Len(bus) <= MSHR_ENTRIES
  BY DEF L2TypeOK, BusActions
<1>2. Len(bus) \in Nat /\ Len(bus) # 0 /\ DOMAIN bus = 1 .. Len(bus)
  BY <1>1, EmptySeq
<1> HIDE DEF B
<1>3. Head(bus) = bus[1] /\ 1 \in DOMAIN bus /\ bus[1] \in B
  BY <1>1, <1>2, HeadTailProperties, ElementOfSeq
<1>4. /\ Tail(bus) \in Seq(B) /\ Len(Tail(bus)) = Len(bus) - 1
      /\ \A n \in 1 .. Len(Tail(bus)) : Tail(bus)[n] = bus[n + 1]
  BY <1>1, HeadTailProperties
<1>5. DOMAIN Tail(bus) = 1 .. Len(bus) - 1
  BY <1>4
<1>6. \A n \in DOMAIN bus : bus[n].mshr \in MshrIds
  BY BusTypes
<1>7. \A n \in DOMAIN Tail(bus) :
         /\ n \in Nat /\ n + 1 \in DOMAIN bus
         /\ Tail(bus)[n] = bus[n + 1]
         /\ bus[n + 1].mshr \in MshrIds
         /\ bus[n + 1].mshr # Head(bus).mshr
  BY <1>2, <1>3, <1>4, <1>5, <1>6 DEF BusInv
<1>8. Head(bus).mshr \in MshrIds /\ Head(bus).action \in BusActions
  BY <1>3 DEF B
<1>9. l2mshr[Head(bus).mshr].state = InflightState(Head(bus).action)
  BY <1>3 DEF BusInv
<1>10. \/ Head(bus).action = "WB" /\ l2mshr[Head(bus).mshr].state = "WB_INFLIGHT"
       \/ Head(bus).action = "FILL"
          /\ l2mshr[Head(bus).mshr].state = "FILL_INFLIGHT"
       \/ Head(bus).action = "BYPASS"
          /\ l2mshr[Head(bus).mshr].state = "BYPASS_INFLIGHT"
  BY <1>8, <1>9, BusStates DEF BusActions
<1>11. l2mshr[Head(bus).mshr] \in L2Mshrs /\ MshrShape(l2mshr[Head(bus).mshr])
  BY <1>8 DEF L2TypeOK, MshrInv
<1>12. Len(Tail(bus)) <= MSHR_ENTRIES
  BY <1>1, <1>2, <1>4, L2Assumption
<1> QED
  BY <1>4, <1>7, <1>8, <1>9, <1>10, <1>11, <1>12 DEF B

\* The first waiter of a busy MSHR.
LEMMA FirstWaiter ==
    ASSUME NEW m \in L2Mshrs, m.waiters # << >>
    PROVE  /\ Head(m.waiters) \in Commands
           /\ Head(m.waiters) = m.waiters[1] /\ 1 \in DOMAIN m.waiters
           /\ Len(m.waiters) \in Nat \ {0}
<1>1. m.waiters \in Seq(Commands)
  BY DEF L2Mshrs
<1>2. Len(m.waiters) \in Nat /\ Len(m.waiters) # 0
      /\ DOMAIN m.waiters = 1 .. Len(m.waiters)
  BY <1>1, EmptySeq
<1> QED
  BY <1>1, <1>2, HeadTailProperties, ElementOfSeq

LEMMA MemAccessType ==
    ASSUME L2TypeOK, NEW m \in L2Mshrs, m.waiters # << >>,
           NEW a, NEW error, MemAccess(m, a, error)
    PROVE  mem' \in [Lines -> Values]
<1>1. mem \in [Lines -> Values]
  BY DEF L2TypeOK
<1>2. Head(m.waiters).data \in Values
  BY FirstWaiter DEF Commands
<1>3. m.vdata \in Values
  BY DEF L2Mshrs
<1>4. \/ mem' = mem \/ mem' = [mem EXCEPT ![m.victim] = m.vdata]
      \/ mem' = [mem EXCEPT ![m.line] = Head(m.waiters).data]
  BY DEF MemAccess
<1> QED
  BY <1>1, <1>2, <1>3, <1>4

LEMMA BusResponseKeeps == L2Inv /\ BusResponse => L2Inv'
<1> SUFFICES ASSUME L2Inv, BusResponse PROVE L2Inv'
  OBVIOUS
<1> DEFINE i == Head(bus).mshr
           a == Head(bus).action
           m == l2mshr[i]
           s == L2SetOf[m.line]
           v == mem[m.line]
<1>1. /\ TypeOK /\ DirectoryTypeOK /\ ProbeTypeOK /\ PrivateTypeOK /\ L2TypeOK
      /\ ServiceInv /\ MshrInv /\ BusInv /\ ProbeActive
  BY DEF L2Inv, TypeOK
<1>2. /\ bus # << >> /\ bus' = Tail(bus)
      /\ UNCHANGED <<cmds, lookup, hit, responses, reservation, generation,
                     next_probe_id, active_probe, directoryVars, probeVars,
                     privateVars>>
  BY DEF BusResponse
<1>3. PICK error \in BOOLEAN :
         /\ MemAccess(m, a, error)
         /\ l2mshr' = [l2mshr EXCEPT ![i] =
              IF error THEN [m EXCEPT !.state = "ERROR"]
              ELSE IF a = "WB" THEN [m EXCEPT !.state = "NEED_FILL"]
              ELSE [m EXCEPT !.state = "REPLAY", !.data = v]]
         /\ array' = IF error \/ a = "BYPASS" THEN array
            ELSE [array EXCEPT ![s][m.way] =
                    IF a = "WB"
                    THEN [@ EXCEPT !.valid = FALSE, !.dirty = FALSE]
                    ELSE [@ EXCEPT !.valid = TRUE, !.dirty = FALSE,
                                   !.line = m.line, !.data = v,
                                   !.generation = m.generation]]
         /\ next_way' = IF error \/ a # "FILL" THEN next_way
            ELSE [next_way EXCEPT ![s] = NextWay(m.way)]
  BY DEF BusResponse
<1>4. /\ i \in MshrIds /\ a \in BusActions
      /\ m \in L2Mshrs /\ MshrShape(m)
      /\ \/ a = "WB" /\ m.state = "WB_INFLIGHT"
         \/ a = "FILL" /\ m.state = "FILL_INFLIGHT"
         \/ a = "BYPASS" /\ m.state = "BYPASS_INFLIGHT"
      /\ Tail(bus) \in Seq([mshr: MshrIds, action: BusActions])
      /\ Len(Tail(bus)) <= MSHR_ENTRIES
      /\ \A n \in DOMAIN Tail(bus) :
            /\ n \in Nat /\ n + 1 \in DOMAIN bus
            /\ Tail(bus)[n] = bus[n + 1]
            /\ bus[n + 1].mshr \in MshrIds
            /\ bus[n + 1].mshr # i
  BY <1>1, <1>2, BusHead
<1>5. m.line \in Lines /\ m.way \in L2Ways /\ s \in L2Sets /\ v \in Values
      /\ m.generation \in 0 .. Generations - 1
  BY <1>1, <1>4, L2Assumption DEF L2Mshrs, L2TypeOK
<1>6. m.state # "IDLE" /\ m.waiters # << >>
      /\ Len(m.waiters) <= WAITERS_PER_MSHR
  BY <1>1, <1>4 DEF MshrShape, L2TypeOK
<1> DEFINE st == IF error THEN "ERROR" ELSE IF a = "WB" THEN "NEED_FILL"
                 ELSE "REPLAY"
           k == IF error THEN [m EXCEPT !.state = "ERROR"]
                ELSE IF a = "WB" THEN [m EXCEPT !.state = "NEED_FILL"]
                ELSE [m EXCEPT !.state = "REPLAY", !.data = v]
<1>7. /\ k \in L2Mshrs /\ k.state = st /\ MshrShape(k)
      /\ k.line = m.line /\ k.cacheable = m.cacheable
      /\ k.waiters = m.waiters
  <2> DEFINE x == [m EXCEPT !.state = st]
             y == [x EXCEPT !.data = v]
  <2>1. k = x \/ k = y
    OBVIOUS
  <2>2. /\ st \in {"ERROR", "NEED_FILL", "REPLAY"} /\ st \in L2MshrStates
        /\ st = "NEED_FILL" => m.state = "WB_INFLIGHT"
    BY <1>4 DEF L2MshrStates
  <2> HIDE DEF k, st, v, m
  <2>3. /\ x \in L2Mshrs /\ x.state = st /\ x.post = m.post
        /\ x.bypass = m.bypass /\ x.cacheable = m.cacheable
        /\ x.private_fill = m.private_fill /\ x.line = m.line
        /\ x.waiters = m.waiters
    BY <1>4, <2>2, StateFields
  <2> HIDE DEF x
  <2>4. /\ y \in L2Mshrs /\ y.state = x.state /\ y.post = x.post
        /\ y.bypass = x.bypass /\ y.cacheable = x.cacheable
        /\ y.private_fill = x.private_fill /\ y.line = x.line
        /\ y.waiters = x.waiters
    BY <1>5, <2>3 DEF L2Mshrs
  <2> HIDE DEF y
  <2>5. /\ k \in L2Mshrs /\ k.state = st /\ k.post = m.post
        /\ k.bypass = m.bypass /\ k.cacheable = m.cacheable
        /\ k.private_fill = m.private_fill /\ k.line = m.line
        /\ k.waiters = m.waiters
    BY <2>1, <2>3, <2>4
  <2>6. /\ st # "IDLE" /\ st \notin ProbeStates
        /\ st \notin {"NEED_BYPASS", "BYPASS_INFLIGHT"}
        /\ st \in {"NEED_WB", "WB_INFLIGHT", "NEED_FILL", "FILL_INFLIGHT"}
              => ~m.bypass
        /\ ~(Head(m.waiters).op = "WRITE" /\ ~m.bypass)
    BY <1>4, <2>2 DEF ProbeStates, MshrShape
  <2>7. MshrShape(k)
    BY <1>4, <1>6, <2>5, <2>6, StateShape
  <2> QED BY <2>5, <2>7
<1>8. l2mshr' = [l2mshr EXCEPT ![i] = k]
  BY <1>3
<1>9. /\ st # "IDLE"
      /\ m.cacheable = l2mshr[i].cacheable /\ m.line = l2mshr[i].line
      /\ m.waiters = l2mshr[i].waiters /\ l2mshr[i].state # "IDLE"
  BY <1>6
<1> HIDE DEF k, st
<1>10. /\ l2mshr' \in [MshrIds -> L2Mshrs]
       /\ \A j \in MshrIds : Len(l2mshr'[j].waiters) <= WAITERS_PER_MSHR
       /\ l2mshr'[i] = k
       /\ \A j \in MshrIds : j # i => l2mshr'[j] = l2mshr[j]
       /\ MshrInv'
  <2> HIDE DEF m, i
  <2> QED BY <1>1, <1>4, <1>6, <1>7, <1>8, <1>9, MshrUpdated
<1>11. \A j \in MshrIds : l2mshr'[j].waiters = l2mshr[j].waiters
  BY <1>7, <1>9, <1>10
<1>12. array' \in [L2Sets -> [L2Ways -> L2Entries]]
  <2> DEFINE e == array[s][m.way]
             b == [e EXCEPT !.valid = FALSE, !.dirty = FALSE]
             c == [e EXCEPT !.valid = TRUE, !.dirty = FALSE]
             d == [c EXCEPT !.line = m.line, !.data = v,
                            !.generation = m.generation]
  <2>1. \/ array' = array \/ array' = [array EXCEPT ![s][m.way] = b]
        \/ array' = [array EXCEPT ![s][m.way] = d]
    BY <1>3
  <2>2. e \in L2Entries
    BY <1>1, <1>5, WayType
  <2> HIDE DEF e, m, v, s
  <2>3. b \in L2Entries /\ c \in L2Entries
    BY <2>2 DEF L2Entries
  <2> HIDE DEF c
  <2>4. d \in L2Entries
    BY <1>5, <2>3 DEF L2Entries
  <2> HIDE DEF b, d
  <2>5. \A x \in L2Entries : [array EXCEPT ![s][m.way] = x]
                                 \in [L2Sets -> [L2Ways -> L2Entries]]
    BY <1>1, <1>5, WayType
  <2>6. array \in [L2Sets -> [L2Ways -> L2Entries]]
    BY <1>1 DEF L2TypeOK
  <2> QED BY <2>1, <2>3, <2>4, <2>5, <2>6
<1>13. next_way' \in [L2Sets -> L2Ways]
  <2>1. NextWay(m.way) \in L2Ways
    BY <1>5, L2Assumption DEF NextWay, L2Ways
  <2>2. next_way \in [L2Sets -> L2Ways]
    BY <1>1 DEF L2TypeOK
  <2> QED BY <1>3, <1>5, <2>1, <2>2
<1>14. mem' \in [Lines -> Values]
  BY <1>1, <1>3, <1>4, <1>6, MemAccessType
<1>15. bus' \in Seq([mshr: MshrIds, action: {"WB", "FILL", "BYPASS"}])
       /\ Len(bus') <= MSHR_ENTRIES
  BY <1>2, <1>4 DEF BusActions
<1>16. L2TypeOK'
  BY <1>1, <1>2, <1>10, <1>12, <1>13, <1>14, <1>15 DEF L2TypeOK
<1>17. DirectoryTypeOK' /\ ProbeTypeOK' /\ PrivateTypeOK'
  BY <1>1, <1>2 DEF directoryVars, DirectoryTypeOK, privateVars, PrivateTypeOK,
     probeVars, ProbeTypeOK
<1>18. ServiceInv'
  BY <1>1, <1>2, <1>11, InPlace
<1>19. BusInv'
  <2>1. \A n \in DOMAIN bus' :
           l2mshr'[bus'[n].mshr].state = InflightState(bus'[n].action)
    BY <1>1, <1>2, <1>4, <1>10 DEF BusInv
  <2>2. \A n, x \in DOMAIN bus' : bus'[n].mshr = bus'[x].mshr => n = x
    BY <1>1, <1>2, <1>4 DEF BusInv
  <2> QED BY <2>1, <2>2 DEF BusInv
<1>20. ProbeActive'
  BY <1>1, <1>2, <1>4, <1>10 DEF ProbeActive, L2TypeOK, probeVars
<1> QED
  BY <1>10, <1>16, <1>17, <1>18, <1>19, <1>20 DEF L2Inv, TypeOK


\* A response joins its FIFO.
LEMMA EnqueueType ==
    ASSUME L2TypeOK, NEW r \in Responses, Enqueue(r)
    PROVE  /\ responses' \in Seq(Responses)
           /\ Len(responses') <= RESPONSE_ENTRIES
           /\ reservation' \in [Harts -> Lines \cup {NoLine}]
<1>1. /\ responses \in Seq(Responses) /\ Len(responses) < RESPONSE_ENTRIES
      /\ responses' = Append(responses, r)
      /\ reservation' = ReservationAtEnqueue(r)
  BY DEF L2TypeOK, Enqueue
<1>2. responses' \in Seq(Responses) /\ Len(responses') = Len(responses) + 1
      /\ Len(responses) \in Nat
  BY <1>1, AppendProperties
<1>3. r.cmd.line \in Lines /\ r.cmd.hart \in Harts
  BY DEF Responses, Commands
<1>4. reservation \in [Harts -> Lines \cup {NoLine}]
  BY DEF L2TypeOK
<1>5. reservation' \in [Harts -> Lines \cup {NoLine}]
  BY <1>1, <1>3, <1>4 DEF ReservationAtEnqueue
<1> QED
  BY <1>1, <1>2, <1>5, L2Assumption

LEMMA HitEnqueueKeeps == L2Inv /\ HitEnqueue => L2Inv'
<1> SUFFICES ASSUME L2Inv, HitEnqueue PROVE L2Inv'
  OBVIOUS
<1>1. /\ TypeOK /\ DirectoryTypeOK /\ ProbeTypeOK /\ PrivateTypeOK /\ L2TypeOK
      /\ ServiceInv /\ MshrInv /\ BusInv /\ ProbeActive
  BY DEF L2Inv, TypeOK
<1>2. /\ hit # << >> /\ Enqueue(Head(hit)) /\ hit' = << >>
      /\ UNCHANGED <<cmds, lookup, l2mshr, array, next_way, bus, mem,
                     generation, next_probe_id, active_probe, directoryVars,
                     probeVars, privateVars>>
  BY DEF HitEnqueue
<1>3. Head(hit) \in Responses
  BY <1>1, <1>2 DEF L2TypeOK
<1>4. /\ responses' \in Seq(Responses)
      /\ Len(responses') <= RESPONSE_ENTRIES
      /\ reservation' \in [Harts -> Lines \cup {NoLine}]
  BY <1>1, <1>2, <1>3, EnqueueType
<1>5. L2TypeOK'
  BY <1>1, <1>2, <1>4 DEF L2TypeOK
<1>6. DirectoryTypeOK' /\ ProbeTypeOK' /\ PrivateTypeOK'
  BY <1>1, <1>2 DEF directoryVars, DirectoryTypeOK, privateVars, PrivateTypeOK,
     probeVars, ProbeTypeOK
<1>7. ServiceInv'
  BY <1>1, <1>2, HitEnqueueMoves, SpotsApart, ServiceMoved
<1>8. MshrInv' /\ BusInv' /\ ProbeActive'
  BY <1>1, <1>2 DEF MshrInv, BusInv, ProbeActive, Busy, probeVars
<1> QED
  BY <1>5, <1>6, <1>7, <1>8 DEF L2Inv, TypeOK

LEMMA FreeMshrShape == FreeL2Mshr \in L2Mshrs /\ MshrShape(FreeL2Mshr)
<1>1. /\ 0 \in 0 .. Generations - 1 /\ 0 \in Ways /\ 0 \in L2Ways
      /\ AnyLine \in Lines /\ {} \in CacheMasks
  BY SomeLine, L2Assumption, GeometryAssumption
     DEF Ways, L2Ways, AnyLine, CacheMasks
<1>2. FreeL2Mshr \in L2Mshrs
  BY <1>1, ValuesAssumption DEF L2Mshrs, L2MshrStates, FreeL2Mshr
<1>3. FreeL2Mshr.waiters = << >> /\ FreeL2Mshr.state = "IDLE"
      /\ FreeL2Mshr.bypass = FALSE /\ FreeL2Mshr.private_fill = FALSE
  BY DEF FreeL2Mshr
<1> QED
  BY <1>2, <1>3 DEF MshrShape, WaitersOK, ProbeStates

\* What is left of an MSHR after a replay.
LEMMA ReplayedMshr ==
    ASSUME L2TypeOK, NEW m \in L2Mshrs, MshrShape(m), ReplayReady(m)
    PROVE  LET k == IF Len(m.waiters) = 1 THEN FreeL2Mshr
                    ELSE [m EXCEPT !.waiters = Tail(@), !.data = ReplayData(m)]
           IN  /\ k \in L2Mshrs /\ MshrShape(k)
               /\ k.waiters = Tail(m.waiters)
               /\ Len(k.waiters) <= Len(m.waiters)
               /\ k.state # "IDLE" =>
                     /\ k.state = m.state /\ k.cacheable = m.cacheable
                     /\ k.line = m.line
<1>1. m.state \in {"REPLAY", "ERROR"} /\ m.waiters # << >>
      /\ m.waiters \in Seq(Commands)
  BY DEF ReplayReady, MshrShape, L2Mshrs
<1>2. /\ Len(m.waiters) \in Nat \ {0} /\ Head(m.waiters) \in Commands
      /\ Head(m.waiters) = m.waiters[1]
      /\ DOMAIN m.waiters = 1 .. Len(m.waiters)
  BY <1>1, FirstWaiter
<1> DEFINE t == Tail(m.waiters)
           len == Len(m.waiters)
<1>3. /\ t \in Seq(Commands) /\ Len(t) = len - 1
      /\ \A n \in 1 .. Len(t) : t[n] = m.waiters[n + 1]
  BY <1>1, HeadTailProperties
<1> HIDE DEF t
<1>4. Len(t) <= len
  BY <1>2, <1>3
<1>5. CASE Len(m.waiters) = 1
  <2>1. FreeL2Mshr \in L2Mshrs /\ MshrShape(FreeL2Mshr)
    BY FreeMshrShape
  <2>2. FreeL2Mshr.waiters = << >> /\ FreeL2Mshr.state = "IDLE"
    BY DEF FreeL2Mshr
  <2>3. t = << >>
    BY <1>3, <1>5, EmptySeq
  <2> QED BY <1>4, <1>5, <2>1, <2>2, <2>3 DEF t
<1>6. CASE Len(m.waiters) # 1
  <2> DEFINE v == ReplayData(m)
             k == [m EXCEPT !.waiters = t, !.data = v]
  <2>1. v \in Values
    BY <1>2 DEF ReplayData, L2Mshrs, Commands
  <2>2. /\ t \in Seq(Commands) /\ DOMAIN t = 1 .. Len(m.waiters) - 1
        /\ t # << >> /\ Head(t) = m.waiters[2] /\ 2 \in DOMAIN m.waiters
        /\ \A n \in DOMAIN t : n + 1 \in DOMAIN m.waiters /\ n > 0
                               /\ t[n] = m.waiters[n + 1]
    <3>1. len >= 2 /\ Len(t) = len - 1 /\ Len(t) # 0
          /\ DOMAIN t = 1 .. Len(t) /\ 1 \in 1 .. Len(t)
      <4>1. len \in Nat /\ len # 0 /\ len # 1
        BY <1>2, <1>6
      <4> HIDE DEF len
      <4> QED BY <1>3, <4>1
    <3>2. t # << >> /\ t \in Seq(Commands)
      BY <1>3, <3>1, EmptySeq
    <3>3. Head(t) = t[1] /\ t[1] = m.waiters[1 + 1]
      BY <1>3, <3>1, <3>2, HeadTailProperties
    <3> QED BY <1>2, <1>3, <3>1, <3>2, <3>3
  <2> HIDE DEF v
  <2>3. /\ k \in L2Mshrs /\ k.state = m.state /\ k.post = m.post
        /\ k.bypass = m.bypass /\ k.cacheable = m.cacheable
        /\ k.private_fill = m.private_fill /\ k.line = m.line
        /\ k.waiters = t
    BY <2>1, <2>2 DEF L2Mshrs
  <2> HIDE DEF k
  <2>4. WaitersOK(m)
    BY DEF MshrShape
  <2>5. WaitersOK(k)
    <3> SUFFICES ASSUME NEW n \in DOMAIN t
                 PROVE  /\ t[n].line = k.line /\ t[n].err = "none"
                        /\ t[n].op # "FENCE"
                        /\ t[n].cacheable <=> k.cacheable
                        /\ ~OpWrites(t[n].op)
                        /\ PrivateFill(t[n]) => k.private_fill
      BY <2>3 DEF WaitersOK
    <3>1. n + 1 \in DOMAIN m.waiters /\ n + 1 > 1 /\ t[n] = m.waiters[n + 1]
      BY <2>2
    <3> QED BY <2>3, <2>4, <3>1 DEF WaitersOK
  <2>6. ~OpWrites(Head(t).op)
    BY <2>2, <2>4 DEF WaitersOK
  <2>7. MshrShape(k)
    BY <1>1, <2>2, <2>3, <2>5, <2>6 DEF MshrShape, ProbeStates, OpWrites
  <2> QED BY <1>4, <1>6, <2>3, <2>7 DEF k, t, v
<1> QED
  BY <1>5, <1>6

\* A replayed command moves from its MSHR to the response FIFO.
LEMMA ReplayMoves ==
    ASSUME L2TypeOK, NEW i \in MshrIds, l2mshr[i].waiters # << >>,
           NEW r \in Responses, r.cmd = Head(l2mshr[i].waiters),
           responses' = Append(responses, r),
           l2mshr'[i].waiters = Tail(l2mshr[i].waiters),
           \A j \in MshrIds : j # i => l2mshr'[j] = l2mshr[j],
           UNCHANGED <<cmds, lookup, hit>>
    PROVE  Moves(Spots, Pending, Pending', MshrAt(i), ResponsesAt)
<1>1. CommandsOf(responses') = Append(CommandsOf(responses), r.cmd)
  BY QueueTypes, CommandsOfSeq
<1>2. Pending'[MshrAt(i)] = Tail(Pending[MshrAt(i)]) /\ Pending[MshrAt(i)] # << >>
  BY PendingAt, PendingAtNext
<1>3. Pending'[ResponsesAt] = Append(Pending[ResponsesAt], Head(Pending[MshrAt(i)]))
  BY <1>1, PendingAt, PendingAtNext
<1>4. \A s \in Spots \ {MshrAt(i), ResponsesAt} : Pending'[s] = Pending[s]
  BY PendingAt, PendingAtNext, SpotsApart
<1> QED
  BY <1>2, <1>3, <1>4, SpotsApart DEF Moves


LEMMA ReplayResponseType ==
    ASSUME NEW m \in L2Mshrs, m.waiters # << >>
    PROVE  /\ ReplayResponse(m) \in Responses
           /\ ReplayResponse(m).cmd = Head(m.waiters)
           /\ ReplayData(m) \in Values
<1> DEFINE w == Head(m.waiters)
           d == IF IsRead(w) /\ ~ReplayError(m) THEN m.data ELSE InitValue
           e == ReplayError(m)
           t == w.op = "SC" /\ ~ReplayError(m)
<1>1. w \in Commands /\ m.data \in Values /\ w.data \in Values
  BY FirstWaiter DEF L2Mshrs, Commands
<1>2. e \in BOOLEAN /\ t \in BOOLEAN /\ d \in Values
  BY <1>1, ValuesAssumption DEF ReplayError
<1>3. ReplayResponse(m) = [cmd |-> w, data |-> d, error |-> e, sc_success |-> t]
  BY DEF ReplayResponse
<1>4. ReplayData(m) \in Values
  BY <1>1 DEF ReplayData
<1> HIDE DEF w, d, e, t
<1> QED
  BY <1>1, <1>2, <1>3, <1>4 DEF Responses, w

LEMMA ReplayKeeps ==
    ASSUME L2Inv, NEW i \in MshrIds, Replay(i)
    PROVE  L2Inv'
<1> DEFINE m == l2mshr[i]
           final == Len(m.waiters) = 1
           k == IF final THEN FreeL2Mshr
                ELSE [m EXCEPT !.waiters = Tail(@), !.data = ReplayData(m)]
           r == ReplayResponse(m)
           s == L2SetOf[m.line]
<1>1. /\ TypeOK /\ DirectoryTypeOK /\ ProbeTypeOK /\ PrivateTypeOK /\ L2TypeOK
      /\ ServiceInv /\ MshrInv /\ BusInv /\ ProbeActive
  BY DEF L2Inv, TypeOK
<1>2. /\ ReplayReady(m) /\ Enqueue(r)
      /\ l2mshr' = [l2mshr EXCEPT ![i] = k]
      /\ UNCHANGED <<cmds, lookup, hit, next_way, bus, mem, generation,
                     next_probe_id, active_probe, directoryVars, probeVars,
                     privateVars>>
  BY DEF Replay
<1>3. /\ m \in L2Mshrs /\ MshrShape(m) /\ m.state \in {"REPLAY", "ERROR"}
      /\ m.waiters # << >> /\ Len(m.waiters) <= WAITERS_PER_MSHR
      /\ Len(m.waiters) \in Nat
  BY <1>1, <1>2, FirstWaiter DEF L2TypeOK, MshrInv, ReplayReady, MshrShape
<1>4. r \in Responses /\ r.cmd = Head(m.waiters) /\ ReplayData(m) \in Values
  BY <1>3, ReplayResponseType
<1>5. /\ k \in L2Mshrs /\ MshrShape(k)
      /\ k.waiters = Tail(m.waiters)
      /\ Len(k.waiters) <= Len(m.waiters)
      /\ k.state # "IDLE" =>
            /\ k.state = m.state /\ k.cacheable = m.cacheable
            /\ k.line = m.line
  BY <1>1, <1>2, <1>3, ReplayedMshr
<1>6. Len(k.waiters) <= WAITERS_PER_MSHR
  <2> HIDE DEF k
  <2>1. k.waiters \in Seq(Commands)
    BY <1>5 DEF L2Mshrs
  <2>2. Len(k.waiters) \in Nat
    BY <2>1
  <2> QED BY <1>3, <1>5, <2>2, L2Assumption
<1> HIDE DEF k, r, final
<1>7. m.state # "IDLE" /\ m = l2mshr[i]
  BY <1>3
<1>8. /\ l2mshr' \in [MshrIds -> L2Mshrs]
      /\ \A j \in MshrIds : Len(l2mshr'[j].waiters) <= WAITERS_PER_MSHR
      /\ l2mshr'[i] = k
      /\ \A j \in MshrIds : j # i => l2mshr'[j] = l2mshr[j]
      /\ MshrInv'
  <2> HIDE DEF m
  <2> QED BY <1>1, <1>2, <1>3, <1>5, <1>6, <1>7, MshrUpdated
<1>9. array' \in [L2Sets -> [L2Ways -> L2Entries]]
  <2> DEFINE e == array[s][m.way]
             v == IF ReplayWrites(m) THEN ReplayData(m) ELSE e.data
             y == e.dirty \/ ReplayWrites(m)
             z == e.reserved /\ ~final
             b == [e EXCEPT !.data = v, !.dirty = y, !.reserved = z]
  <2>1. array' = array \/ array' = [array EXCEPT ![s][m.way] = b]
    BY DEF Replay, final
  <2>2. s \in L2Sets /\ m.way \in L2Ways
    BY <1>3, L2Assumption DEF L2Mshrs
  <2>3. e \in L2Entries
    BY <1>1, <2>2, WayType
  <2>4. v \in Values /\ y \in BOOLEAN /\ z \in BOOLEAN
    BY <1>4, <2>3 DEF L2Entries
  <2> HIDE DEF e, m, v, s, y, z
  <2>5. b \in L2Entries
    BY <2>3, <2>4 DEF L2Entries
  <2> HIDE DEF b
  <2>6. \A x \in L2Entries : [array EXCEPT ![s][m.way] = x]
                                 \in [L2Sets -> [L2Ways -> L2Entries]]
    BY <1>1, <2>2, WayType
  <2>7. array \in [L2Sets -> [L2Ways -> L2Entries]]
    BY <1>1 DEF L2TypeOK
  <2> QED BY <2>1, <2>5, <2>6, <2>7
<1>10. /\ responses' \in Seq(Responses)
       /\ Len(responses') <= RESPONSE_ENTRIES
       /\ reservation' \in [Harts -> Lines \cup {NoLine}]
       /\ responses' = Append(responses, r)
  BY <1>1, <1>2, <1>4, EnqueueType DEF Enqueue
<1>11. L2TypeOK'
  BY <1>1, <1>2, <1>8, <1>9, <1>10 DEF L2TypeOK
<1>12. DirectoryTypeOK' /\ ProbeTypeOK' /\ PrivateTypeOK'
  BY <1>1, <1>2 DEF directoryVars, DirectoryTypeOK, privateVars, PrivateTypeOK,
     probeVars, ProbeTypeOK
<1>13. ServiceInv'
  <2>1. Moves(Spots, Pending, Pending', MshrAt(i), ResponsesAt)
    BY <1>1, <1>2, <1>3, <1>4, <1>5, <1>8, <1>10, ReplayMoves
  <2> QED BY <1>1, <1>2, <2>1, SpotsApart, ServiceMoved
<1>14. BusInv'
  <2>1. l2mshr[i].state \notin {"WB_INFLIGHT", "FILL_INFLIGHT",
                                "BYPASS_INFLIGHT"}
    BY <1>3
  <2> QED BY <1>1, <1>2, <1>8, <2>1, BusStays
<1>15. ProbeActive'
  <2>1. active_probe \in MshrIds /\ UNCHANGED <<active_probe, tracker>>
    BY <1>1, <1>2 DEF L2TypeOK, probeVars
  <2> QED BY <1>1, <1>3, <1>8, <2>1 DEF ProbeActive
<1> QED
  BY <1>8, <1>11, <1>12, <1>13, <1>14, <1>15 DEF L2Inv, TypeOK
-----------------------------------------------------------------------------
(* The queues, the requesters and the private caches.                        *)

LEMMA SameL2 ==
    L2Inv /\ UNCHANGED l2Vars => L2TypeOK' /\ MshrInv' /\ BusInv'
  BY DEF L2Inv, TypeOK, L2TypeOK, l2Vars, MshrInv, BusInv, Busy

\* What a step of the pipeline leaves alone.
LEMMA SameFabric ==
    ASSUME L2Inv,
           UNCHANGED <<l2mshr, bus, active_probe, directoryVars, probeVars>>
    PROVE  DirectoryTypeOK' /\ ProbeTypeOK' /\ MshrInv' /\ BusInv'
           /\ ProbeActive'
  BY DEF L2Inv, TypeOK, DirectoryTypeOK, directoryVars, ProbeTypeOK, probeVars,
     MshrInv, BusInv, Busy, ProbeActive

LEMMA CaptureKeeps == L2Inv /\ Capture => L2Inv'
<1> SUFFICES ASSUME L2Inv, Capture PROVE L2Inv'
  OBVIOUS
<1> DEFINE C == [cmd: Commands, beat: BOOLEAN]
<1>1. L2TypeOK /\ ServiceInv /\ PrivateTypeOK
  BY DEF L2Inv, TypeOK
<1>2. /\ cmds # << >> /\ cmds' = Tail(cmds) /\ lookup' = <<Head(cmds).cmd>>
      /\ UNCHANGED <<hit, l2mshr, array, next_way, responses, bus, mem,
                     reservation, generation, next_probe_id, active_probe,
                     directoryVars, probeVars, privateVars>>
  BY DEF Capture
<1>3. cmds \in Seq(C) /\ Len(cmds) <= COMMAND_ENTRIES
  BY <1>1 DEF L2TypeOK
<1> HIDE DEF C
<1>4. /\ cmds' \in Seq(C) /\ Len(cmds') = Len(cmds) - 1 /\ Head(cmds) \in C
      /\ Len(cmds) \in Nat
  BY <1>2, <1>3, HeadTailProperties
<1>5. Len(cmds') <= COMMAND_ENTRIES
  BY <1>3, <1>4, L2Assumption
<1>6. Head(cmds).cmd \in Commands
  BY <1>4 DEF C
<1>7. lookup' \in Seq(Commands) /\ Len(lookup') <= 1
  BY <1>2, <1>6
<1>8. L2TypeOK'
  BY <1>1, <1>2, <1>4, <1>5, <1>7 DEF L2TypeOK, C
<1>9. ServiceInv'
  BY <1>1, <1>2, CaptureMoves, SpotsApart, ServiceMoved
<1>10. PrivateTypeOK'
  BY <1>1, <1>2 DEF PrivateTypeOK, privateVars
<1> QED
  BY <1>2, <1>8, <1>9, <1>10, SameFabric DEF L2Inv, TypeOK

LEMMA WriteBeatKeeps ==
    ASSUME L2Inv, NEW n, WriteBeat(n)
    PROVE  L2Inv'
<1> DEFINE C == [cmd: Commands, beat: BOOLEAN]
<1>1. L2TypeOK /\ ServiceInv /\ PrivateTypeOK
  BY DEF L2Inv, TypeOK
<1>2. /\ n \in DOMAIN cmds /\ cmds' = [cmds EXCEPT ![n].beat = TRUE]
      /\ UNCHANGED <<lookup, hit, l2mshr, array, next_way, responses, bus,
                     mem, reservation, generation, next_probe_id,
                     active_probe, directoryVars, probeVars, privateVars>>
  BY DEF WriteBeat
<1>3. cmds \in Seq(C) /\ Len(cmds) <= COMMAND_ENTRIES
  BY <1>1 DEF L2TypeOK
<1>4. cmds[n] \in C
  <2> HIDE DEF C
  <2> QED BY <1>2, <1>3, ElementOfSeq
<1>5. [cmds[n] EXCEPT !.beat = TRUE] \in C
      /\ [cmds[n] EXCEPT !.beat = TRUE].cmd = cmds[n].cmd
  BY <1>4
<1>6. cmds' = [cmds EXCEPT ![n] = [cmds[n] EXCEPT !.beat = TRUE]]
  BY <1>2
<1> HIDE DEF C
<1>7. cmds' \in Seq(C) /\ Len(cmds') = Len(cmds) /\ DOMAIN cmds' = DOMAIN cmds
  BY <1>2, <1>3, <1>5, <1>6, ExceptSeq
<1>8. CommandsOf(cmds') = CommandsOf(cmds)
  <2>1. \A k \in DOMAIN cmds : cmds'[k].cmd = cmds[k].cmd
    BY <1>2, <1>5, <1>6
  <2> QED BY <1>7, <2>1 DEF CommandsOf
<1>9. L2TypeOK'
  BY <1>1, <1>2, <1>3, <1>7 DEF L2TypeOK, C
<1>10. ServiceInv'
  <2>1. Pending' = Pending
    BY <1>2, <1>8, NothingMoves
  <2> QED BY <1>1, <1>2, <2>1, NoPrivateStep, ServiceStays DEF ServiceInv
<1>11. PrivateTypeOK'
  BY <1>1, <1>2 DEF PrivateTypeOK, privateVars
<1> QED
  BY <1>2, <1>9, <1>10, <1>11, SameFabric DEF L2Inv, TypeOK

LEMMA SendKeeps ==
    ASSUME L2Inv, NEW h \in Harts, Send(h)
    PROVE  L2Inv'
<1> DEFINE C == [cmd: Commands, beat: BOOLEAN]
<1>1. L2TypeOK /\ ServiceInv /\ PrivateTypeOK
  BY DEF L2Inv, TypeOK
<1>2. /\ \E c \in Commands : Push(c)
      /\ PrivateTypeOK' /\ ServiceInv'
  BY <1>1, SendService
<1>3. PICK c \in Commands : Push(c)
  BY <1>2
<1> DEFINE r == [cmd |-> c, beat |-> FALSE]
<1>4. /\ Len(cmds) < COMMAND_ENTRIES /\ cmds' = Append(cmds, r)
      /\ UNCHANGED <<lookup, hit, l2mshr, array, next_way, responses, bus,
                     mem, reservation, generation, next_probe_id,
                     active_probe, directoryVars, probeVars>>
  BY <1>3 DEF Push
<1>5. r \in C /\ cmds \in Seq(C)
  BY <1>1 DEF L2TypeOK
<1> HIDE DEF C, r
<1>6. cmds' \in Seq(C) /\ Len(cmds') = Len(cmds) + 1 /\ Len(cmds) \in Nat
  BY <1>4, <1>5, AppendProperties
<1>7. Len(cmds') <= COMMAND_ENTRIES
  BY <1>4, <1>6, L2Assumption
<1>8. L2TypeOK'
  BY <1>1, <1>4, <1>6, <1>7 DEF L2TypeOK, C
<1> QED
  BY <1>2, <1>4, <1>8, SameFabric DEF L2Inv, TypeOK

LEMMA RespondKeeps == L2Inv /\ Respond => L2Inv'
<1> SUFFICES ASSUME L2Inv, Respond PROVE L2Inv'
  OBVIOUS
<1>1. L2TypeOK /\ ServiceInv /\ PrivateTypeOK
  BY DEF L2Inv, TypeOK
<1>2. PrivateTypeOK' /\ ServiceInv'
  BY <1>1, RespondService
<1>3. /\ responses # << >> /\ responses' = Tail(responses)
      /\ UNCHANGED <<cmds, lookup, hit, l2mshr, array, next_way, bus, mem,
                     reservation, generation, next_probe_id, active_probe,
                     directoryVars, probeVars>>
  BY DEF Respond
<1>4. responses \in Seq(Responses) /\ Len(responses) <= RESPONSE_ENTRIES
  BY <1>1 DEF L2TypeOK
<1>5. /\ responses' \in Seq(Responses) /\ Len(responses') = Len(responses) - 1
      /\ Len(responses) \in Nat
  BY <1>3, <1>4, HeadTailProperties
<1>6. Len(responses') <= RESPONSE_ENTRIES
  BY <1>4, <1>5, L2Assumption
<1>7. L2TypeOK'
  BY <1>1, <1>3, <1>5, <1>6 DEF L2TypeOK
<1> QED
  BY <1>2, <1>3, <1>7, SameFabric DEF L2Inv, TypeOK

\* A private access or a probe handshake leaves the L2 alone.
LEMMA PrivateKeeps ==
    ASSUME L2Inv, PrivateTypeOK', ProbeTypeOK', DirectoryTypeOK',
           KeepsWaiting, AccessInv', ProbeActive', UNCHANGED l2Vars
    PROVE  L2Inv'
<1>1. L2TypeOK' /\ MshrInv' /\ BusInv'
  BY SameL2
<1>2. Pending' = Pending
  BY DEF l2Vars, Pending, Spots, MshrIds, CommandsOf
<1>3. ServiceInv'
  BY <1>2, ServiceStays DEF L2Inv
<1> QED
  BY <1>1, <1>3 DEF L2Inv, TypeOK

LEMMA HartKeeps ==
    ASSUME L2Inv, NEW h \in Harts,
           ProbeStep(h) \/ InvalidateL1D(h) \/ L1DStep(h) \/ L1IStep(h)
    PROVE  L2Inv'
<1>1. /\ TypeOK /\ DirectoryTypeOK /\ ProbeTypeOK /\ PrivateTypeOK /\ L2TypeOK
      /\ ServiceInv /\ AccessInv /\ ProbeActive
  BY DEF L2Inv, TypeOK, ServiceInv
<1>2. UNCHANGED <<directoryVars, l2Vars>>
  BY DEF ProbeStep, InvalidateL1D, L1DStep, L1IStep
<1>3. DirectoryTypeOK' /\ UNCHANGED <<active_probe, l2mshr>>
  BY <1>1, <1>2 DEF DirectoryTypeOK, directoryVars, l2Vars
<1>4. UNCHANGED tracker => ProbeActive'
  BY <1>1, <1>3 DEF ProbeActive
<1>5. CASE ProbeStep(h)
  <2>1. ProbeTypeOK'
    BY <1>1, <1>5, ProbeStepType DEF ProbeStep
  <2>2. UNCHANGED privateVars
    BY <1>5 DEF ProbeStep
  <2>3. PrivateTypeOK' /\ KeepsWaiting /\ AccessInv'
    BY <1>1, <2>2, NoPrivateStep DEF PrivateTypeOK, privateVars
  <2>4. ProbeActive'
    <3>1. tracker \in TrackerRegisters
      BY <1>1 DEF ProbeTypeOK
    <3>2. /\ tracker'.busy \/ tracker'.done => tracker.busy \/ tracker.done
          /\ tracker'.done => ~tracker'.busy
      <4>1. CASE ProbeIssue(h)
        BY <1>1, <3>1, <4>1 DEF ProbeIssue, TrackerRegisters, ProbeActive
      <4>2. CASE ProbeAck(h)
        BY <1>1, <3>1, <4>2
           DEF ProbeAck, AckAccepted, TrackerRegisters, ProbeActive
      <4> QED BY <1>5, <4>1, <4>2 DEF ProbeStep
    <3> QED BY <1>1, <1>3, <3>2 DEF ProbeActive
  <2> QED BY <1>2, <1>3, <2>1, <2>3, <2>4, PrivateKeeps
<1>6. CASE InvalidateL1D(h)
  <2>1. /\ EndpointInvalidated(h) /\ SnoopInvalidate(h, endpoint[h].line)
        /\ UNCHANGED <<tracker, probe_error>>
    BY <1>6 DEF InvalidateL1D
  <2>2. endpoint[h].line \in Lines
    BY <1>1 DEF ProbeTypeOK, EndpointSlots
  <2>3. ProbeTypeOK'
    BY <1>1, <2>1, ProbeStepType
  <2>4. PrivateTypeOK'
    BY <1>1, <2>1, <2>2, SnoopType
  <2>5. KeepsWaiting /\ AccessInv'
    BY <1>1, <2>1, <2>2, SnoopWaiting
  <2> QED BY <1>2, <1>3, <1>4, <2>1, <2>3, <2>4, <2>5, PrivateKeeps
<1>7. ASSUME L1DStep(h) \/ L1IStep(h) PROVE L2Inv'
  <2>1. UNCHANGED probeVars /\ UNCHANGED tracker
    BY <1>7 DEF L1DStep, L1IStep, probeVars
  <2>2. ProbeTypeOK'
    BY <1>1, <2>1 DEF ProbeTypeOK, probeVars
  <2>3. PrivateTypeOK' /\ KeepsWaiting /\ AccessInv'
    <3>1. CASE L1DStep(h)
      <4>1. L1DAccess(h, endpoint[h].invalidate)
        BY <3>1 DEF L1DStep
      <4> QED BY <1>1, <4>1, AccessType, L1DWaiting
    <3>2. CASE L1IStep(h)
      <4>1. L1IAccess(h)
        BY <3>2 DEF L1IStep
      <4> QED BY <1>1, <4>1, AccessType, L1IWaiting
    <3> QED BY <1>7, <3>1, <3>2
  <2> QED BY <1>2, <1>3, <1>4, <2>1, <2>2, <2>3, PrivateKeeps
<1> QED
  BY <1>5, <1>6, <1>7


-----------------------------------------------------------------------------
(* The system.                                                               *)

LEMMA InitInv == Init => L2Inv
<1> SUFFICES ASSUME Init PROVE L2Inv
  OBVIOUS
<1>1. DirectoryTypeOK /\ ProbeTypeOK /\ PrivateTypeOK
  BY InitFabricType DEF Init
<1>2. /\ cmds = << >> /\ lookup = << >> /\ hit = << >>
      /\ responses = << >> /\ bus = << >>
      /\ \A i \in MshrIds : l2mshr[i] = FreeL2Mshr
  BY DEF Init, L2Init
<1>3. FreeL2Mshr.waiters = << >> /\ FreeL2Mshr.state = "IDLE"
  BY DEF FreeL2Mshr
<1>4. L2TypeOK
  <2>1. /\ AnyLine \in Lines /\ InitValue \in Values /\ 0 \in L2Ways
        /\ 0 \in 0 .. Generations - 1 /\ 0 \in ProbeId /\ 0 \in MshrIds
    BY SomeLine, L2Assumption, ValuesAssumption, ProbeIdsAssumption
       DEF AnyLine, L2Ways, ProbeId, MshrIds
  <2>2. l2mshr \in [MshrIds -> L2Mshrs]
    BY FreeMshrShape DEF Init, L2Init
  <2>3. array \in [L2Sets -> [L2Ways -> L2Entries]]
    BY <2>1 DEF Init, L2Init, L2Entries
  <2>4. \A i \in MshrIds : Len(l2mshr[i].waiters) <= WAITERS_PER_MSHR
    BY <1>2, <1>3, L2Assumption
  <2> HIDE DEF MshrIds
  <2>5. /\ next_way \in [L2Sets -> L2Ways] /\ mem \in [Lines -> Values]
        /\ reservation \in [Harts -> Lines \cup {NoLine}]
        /\ generation = 0 /\ next_probe_id = 0 /\ active_probe = 0
    BY <2>1 DEF Init, L2Init
  <2> QED BY <1>2, <2>1, <2>2, <2>3, <2>4, <2>5, L2Assumption DEF L2TypeOK
<1>5. ServiceInv
  <2>1. \A s \in Spots : Pending[s] = << >>
    BY <1>2, <1>3, PendingAt, SpotsApart DEF CommandsOf
  <2>2. DistinctIn(Spots, Pending) /\ Contents(Spots, Pending) = {}
    BY <2>1 DEF DistinctIn, Contents
  <2>3. AccessInv
    BY DEF Init, PrivateInit, AccessInv, FreeMshr, NoMarked
  <2> QED BY <2>2, <2>3 DEF ServiceInv
<1>6. MshrInv /\ BusInv
  BY <1>2, <1>3, FreeMshrShape DEF MshrInv, BusInv, Busy
<1>7. ProbeActive
  BY DEF Init, ProbeInit, ProbeActive
<1> QED
  BY <1>1, <1>4, <1>5, <1>6, <1>7 DEF L2Inv, TypeOK

LEMMA LookupKeeps == L2Inv /\ Lookup => L2Inv'
  BY ImmediateKeeps, BypassKeeps, MergeKeeps, VictimHitKeeps, HitKeeps,
     WriteAroundKeeps, AllocKeeps, ProbeKeeps DEF Lookup

LEMMA NextKeeps == L2Inv /\ [Next]_vars => L2Inv'
<1> SUFFICES ASSUME L2Inv, [Next]_vars PROVE L2Inv'
  OBVIOUS
<1>1. CASE L2Step
  <2>1. ASSUME NEW n \in 1 .. COMMAND_ENTRIES, WriteBeat(n) PROVE L2Inv'
    BY <2>1, WriteBeatKeeps
  <2>2. ASSUME NEW i \in MshrIds, BusRequest(i) \/ Replay(i) PROVE L2Inv'
    BY <2>2, BusRequestKeeps, ReplayKeeps
  <2> QED
    BY <1>1, <2>1, <2>2, CaptureKeeps, LookupKeeps, ProbeStartKeeps,
       ProbeCompleteKeeps, BusResponseKeeps, HitEnqueueKeeps, RespondKeeps
       DEF L2Step
<1>2. ASSUME NEW h \in Harts,
             \/ Send(h) \/ ProbeStep(h) \/ InvalidateL1D(h)
             \/ L1DStep(h) \/ L1IStep(h)
      PROVE  L2Inv'
  BY <1>2, SendKeeps, HartKeeps
<1>3. CASE UNCHANGED vars
  <2>1. UNCHANGED <<directoryVars, probeVars, privateVars, l2Vars>>
    BY <1>3 DEF vars
  <2>2. DirectoryTypeOK' /\ ProbeTypeOK' /\ PrivateTypeOK'
    BY <2>1 DEF L2Inv, TypeOK, DirectoryTypeOK, directoryVars, ProbeTypeOK,
       probeVars, PrivateTypeOK, privateVars
  <2>3. KeepsWaiting /\ AccessInv'
    BY <2>1, NoPrivateStep DEF L2Inv, ServiceInv
  <2>4. ProbeActive'
    BY <2>1 DEF L2Inv, ProbeActive, probeVars, l2Vars
  <2> QED BY <2>1, <2>2, <2>3, <2>4, PrivateKeeps
<1> QED
  BY <1>1, <1>2, <1>3 DEF Next

\* The inductive invariant of the L2 home holds in every reachable state: a
\* requester has at most one command of a channel in the whole pipeline and
\* still waits for it, a cacheable line has one MSHR, every MSHR's registers
\* fit its state, the bus tracker holds each MSHR that waits for memory once,
\* and the probe tracker works for an MSHR that waits for it
\* (l2_native.v:1159-1190, 1475-1555, 1972-2053).
THEOREM L2Invariant == Spec => []L2Inv
  BY InitInv, NextKeeps, PTL DEF Spec

\* No FIFO, waiter list or bus tracker of the L2 overflows and every register
\* keeps its type, whatever the number of harts and the depth of every queue
\* (l2_native.v:235-262, 1475-1555).
THEOREM L2Typed == Spec => []TypeOK
<1>1. L2Inv => TypeOK
  BY DEF L2Inv
<1> QED
  BY <1>1, L2Invariant, PTL
=============================================================================
