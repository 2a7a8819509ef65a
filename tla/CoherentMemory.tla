--------------------------- MODULE CoherentMemory ---------------------------
(***************************************************************************)
(* What the coherence home promises its harts: a memory of lines, each with *)
(* a set of holders, in which a line is written only while no hart other    *)
(* than the writer holds it.  Holders come and go one at a time, and the    *)
(* memory changes by writes alone.                                          *)
(***************************************************************************)
CONSTANTS Harts, Lines, Values, InitValue

VARIABLES
    memory,     \* memory[l]: contents of the line at the coherence point
    holders     \* holders[l]: harts whose D-cache has data of the line

vars == <<memory, holders>>

Init ==
    /\ memory = [l \in Lines |-> InitValue]
    /\ holders = [l \in Lines |-> {}]

\* A fill gives the hart a copy.
Grant(h, l) ==
    /\ holders' = [holders EXCEPT ![l] = @ \cup {h}]
    /\ UNCHANGED memory

\* The copy is displaced, invalidated or revoked.
Drop(h, l) ==
    /\ holders' = [holders EXCEPT ![l] = @ \ {h}]
    /\ UNCHANGED memory

\* A store or an SC takes effect.
Write(h, l, v) ==
    /\ holders[l] \subseteq {h}
    /\ memory' = [memory EXCEPT ![l] = v]
    /\ UNCHANGED holders

Next ==
    \E h \in Harts, l \in Lines :
        \/ Grant(h, l)
        \/ Drop(h, l)
        \/ \E v \in Values : Write(h, l, v)

Spec == Init /\ [][Next]_vars
=============================================================================
