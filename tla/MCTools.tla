------------------------------- MODULE MCTools -------------------------------
(***************************************************************************)
(* Small instances of the components that share no state: the tools of     *)
(* tools/ and synth/, the page-table walker and the interrupt controller.  *)
(* The initial state picks one of them, and only that one takes steps.     *)
(***************************************************************************)
EXTENDS IssueWindow, UartLoad, SynthFlow, Compliance, BootLog, CycleTrace, SdImage, PageWalk, Plic,
        TLC

CONSTANTS
    h1, h2,
    MCComponents     \* the components a run explores

VARIABLE tool

\* The committed streams and the configurations of the issue-window experiment.
Instr(kind, lat, srcs, rd, rel) ==
    [kind |-> kind, lat |-> lat, srcs |-> srcs, rd |-> rd, rel |-> rel]
MCInstrs ==
    {Instr("alu", 1, {1}, 1, 0), Instr("mul", 3, {}, 1, 0), Instr("load", 2, {}, 1, 1),
     Instr("store", 1, {1}, NoReg, 0), Instr("branch", 1, {1}, NoReg, 0),
     Instr("jump", 1, {}, NoReg, 0), Instr("system", 1, {}, NoReg, 0)}
Config(policy, capacity, pausable, freeBranches, freeJumps) ==
    [policy |-> policy, capacity |-> capacity, pausable |-> pausable,
     freeBranches |-> freeBranches, freeJumps |-> freeJumps]
MCConfigs ==
    {Config("strict", 3, FALSE, FALSE, FALSE), Config("window", 3, FALSE, FALSE, FALSE),
     Config("window", 4, TRUE, TRUE, FALSE), Config("window", 2, TRUE, TRUE, TRUE)}

\* An image that begins like a header, and is longer than a block; and one that
\* is no whole number of words.
MCImages == {<<"M", "b", "c", "d", "e", "f">>, <<"b", "c", "d">>}

\* Four designs: one with a module instantiated twice and twice below another,
\* an edit of it, one whose hierarchy lost a module, one that lost a cache array.
Mem(overlay, inL1d, cache, bits, reads, writes, sync) ==
    [overlay |-> overlay, inL1d |-> inL1d, cache |-> cache, bits |-> bits,
     reads |-> reads, writes |-> writes, sync |-> sync]
MCMems ==
    <<Mem(FALSE, FALSE, "L1I data", 4, 1, 1, TRUE), Mem(TRUE, TRUE, "L1D data", 2, 1, 1, TRUE),
      Mem(FALSE, TRUE, "L1D data", 2, 1, 1, TRUE), Mem(FALSE, TRUE, "L1D data", 2, 1, 1, TRUE),
      Mem(FALSE, FALSE, "none", 1, 1, 0, FALSE)>>
MCDesigns ==
    [base |-> [mods |-> <<"tlb_1", "tlb_2", "top">>,
               kids |-> [top |-> <<"tlb_1", "tlb_2", "tlb_1">>, tlb_2 |-> <<"tlb_1">>],
               area |-> [tlb_1 |-> 3, tlb_2 |-> 5, top |-> 7],
               delay |-> [tlb_1 |-> 4, tlb_2 |-> 2, top |-> 3], mems |-> MCMems],
     edit |-> [mods |-> <<"tlb_2", "top">>,
               kids |-> [top |-> <<"tlb_2">>],
               area |-> [tlb_2 |-> 6, top |-> 8],
               delay |-> [tlb_2 |-> 2, top |-> 3], mems |-> MCMems],
     lost |-> [mods |-> <<"ptw", "top">>,
               kids |-> [top |-> <<"ptw", "macro">>],
               area |-> [ptw |-> 2, top |-> 8],
               delay |-> [ptw |-> 1, top |-> 3], mems |-> MCMems],
     ram  |-> [mods |-> <<"top">>, kids |-> <<>>, area |-> [top |-> 9],
               delay |-> [top |-> 3], mems |-> Tail(MCMems)]]
MCLabel == [tlb_1 |-> "openrv64_bus_tlb", tlb_2 |-> "openrv64_bus_tlb",
            ptw |-> "openrv64_bus_ptw", top |-> "top"]
MCCategory == [openrv64_bus_tlb |-> "I/D TLBs", openrv64_bus_ptw |-> "Page-table walker"]
MCGeometry == ("L1I data" :> [banks |-> 1, bits |-> 4]) @@ ("L1D data" :> [banks |-> 2, bits |-> 4])

\* Programs: sparse words with a zero-filled tail, segments that overlap and
\* agree, that overlap and do not, and one that leaves the aperture.
MCTests == <<"add", "mul">>
Seg(addr, data, msize) == [addr |-> addr, data |-> data, msize |-> msize]
MCElfs ==
    {[entry |-> 4, segs |-> <<Seg(4, <<1, 2>>, 3), Seg(7, <<3>>, 1), Seg(10, <<4>>, 1)>>],
     [entry |-> 6, segs |-> <<Seg(6, <<1, 2>>, 2), Seg(7, <<2, 5>>, 4)>>],
     [entry |-> 4, segs |-> <<Seg(4, <<1>>, 2), Seg(5, <<2>>, 1)>>],
     [entry |-> 4, segs |-> <<Seg(10, <<1>>, 3)>>]}
DutRow(arch, exc, pc, rd, w) == [arch |-> arch, exc |-> exc, pc |-> pc, rd |-> rd, w |-> w]
MCDutRows ==
    {DutRow(TRUE, FALSE, 1, 1, 1), DutRow(TRUE, FALSE, 2, 0, 0),
     DutRow(FALSE, TRUE, 2, 0, 0), DutRow(TRUE, TRUE, 2, 0, 0)}
MCSailLines ==
    {[kind |-> "instr", pc |-> 1], [kind |-> "instr", pc |-> 2],
     [kind |-> "gpr", rd |-> 1, w |-> 1], [kind |-> "gpr", rd |-> 1, w |-> 2]}

\* Two markers, the second a prompt that the testbench announces; two images
\* whose address ranges interleave.
MCMarkers == <<"linux", "bash">>
MCPriv == (5 :> 1) @@ (9 :> 0)
MCTables == [opensbi |-> [a \in {2, 3} |-> "sbi"],
             linux |-> [a \in {4, 6} |-> IF a = 4 THEN "head" ELSE "main"]]

\* Paths with a loop back through a branch, with an exception at the entry, the
\* handler and the retry, and with a branch that itself raises the exception.
Instruction(pc, to, event) == [pc |-> pc, to |-> to, event |-> event]
MCHandler == <<Instruction(9, 10, "mret")>>
MCFlows ==
    {<<Instruction(2, 1, "none"), Instruction(1, 2, "none"), Instruction(2, 3, "none"),
       Instruction(3, 4, "none"), Instruction(4, 5, "none")>>,
     <<Instruction(1, 2, "exception")>> \o MCHandler
         \o <<Instruction(1, 2, "none"), Instruction(2, 1, "none"), Instruction(1, 2, "none")>>,
     <<Instruction(2, 1, "exception")>> \o MCHandler
         \o <<Instruction(2, 3, "none"), Instruction(3, 4, "none")>>}

\* Builds whose payloads differ in place and in length, one of which runs over
\* the next load address, one over the end of DDR and one has an empty DTB; and
\* one that is refused.
BuildInput(dts, opensbi, linux, dtb) ==
    [dts |-> dts, opensbi |-> opensbi, linux |-> linux, dtb |-> dtb]
MCInputs ==
    {BuildInput(TRUE, <<1>>, <<9, 2>>, <<3>>), BuildInput(TRUE, <<4, 4, 4>>, <<9>>, <<3>>),
     BuildInput(TRUE, <<1>>, <<9>>, <<3, 3>>), BuildInput(TRUE, <<1>>, <<9>>, <<>>),
     BuildInput(TRUE, <<1>>, <<2>>, <<3>>)}
MCTrampoline == <<7>>
MCLoad == <<0, 1, 3, 5>>
------------------------------------------------------------------------------
MCInit ==
    /\ tool \in MCComponents
    /\ IwInit /\ UlInit /\ SynInit /\ CmpInit /\ BlInit /\ CtInit
    /\ SdInit /\ PwInit /\ PlicInit
    /\ tool # "uart" => ulImage = CHOOSE image \in MCImages : TRUE
    /\ tool # "trace" => ctWindow /\ ctFlow = CHOOSE f \in MCFlows : TRUE

Rest(c) == /\ c # "issue" => UNCHANGED iwVars
           /\ c # "uart" => UNCHANGED ulVars
           /\ c # "synth" => UNCHANGED synVars
           /\ c # "compliance" => UNCHANGED cmpVars
           /\ c # "boot" => UNCHANGED blVars
           /\ c # "trace" => UNCHANGED ctVars
           /\ c # "sd" => UNCHANGED sdVars
           /\ c # "ptw" => UNCHANGED pwVars
           /\ c # "plic" => UNCHANGED plicVars

Chosen(c) == tool = c /\ tool' = c

MCNext ==
    \/ Chosen("issue") /\ IwNext /\ Rest("issue")
    \/ Chosen("uart") /\ UlNext /\ Rest("uart")
    \/ Chosen("synth") /\ SynNext /\ Rest("synth")
    \/ Chosen("compliance") /\ CmpNext /\ Rest("compliance")
    \/ Chosen("boot") /\ BlNext /\ Rest("boot")
    \/ Chosen("trace") /\ CtNext /\ Rest("trace")
    \/ Chosen("sd") /\ SdNext /\ Rest("sd")
    \/ Chosen("ptw") /\ PwNext /\ Rest("ptw")
    \/ Chosen("plic") /\ PlicNext /\ Rest("plic")

mcVars == <<tool, iwVars, ulVars, synVars, cmpVars, blVars, ctVars, sdVars, pwVars, plicVars>>

\* The upload tool's process runs, each of its waits but tcdrain carries a
\* timeout, and tcdrain returns when the line took everything; a Yosys process
\* ends, and the pool's threads and the main thread of the flow run.
MCFairness ==
    /\ WF_mcVars(Chosen("uart") /\ UlHostStep /\ Rest("uart"))
    /\ WF_mcVars(Chosen("synth") /\ SynFlowStep /\ Rest("synth"))

MCSpec == MCInit /\ [][MCNext]_mcVars /\ MCFairness
=============================================================================
