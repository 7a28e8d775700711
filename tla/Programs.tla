-------------------------------- MODULE Programs --------------------------------
(***************************************************************************)
(* The repository is a collection of programs without shared state: the    *)
(* prefix code, the CRC, the histogram, the two repairing codes of ldpc.c, *)
(* and the RCU of atomic_queue.c by itself.  One of them runs.  The others *)
(* remain in the first state of some call.                                 *)
(***************************************************************************)
EXTENDS EngelCoding, Crc64, Histogram, Secded, AlphaCode, Rcu

VARIABLE program

all_vars == <<program, vars, crc_vars, hist_vars, secded_vars, alpha_vars, rcu_vars>>

\* The calls of the programs that do not run.
NoEngel == Start([s \in Symbols |-> 0])
NoCrc == CrcCall("clmul", 0, 0)
NoHist == HistCall([fn |-> "vhist16", src |-> << >>])
NoSecded == SecdedCall([w \in 0 .. Words - 1 |-> {}])
NoAlpha == AlphaCall({})

ProgramsInit ==
    /\ RcuInit
    /\ \/ program = "engel" /\ Init /\ NoCrc /\ NoHist /\ NoSecded /\ NoAlpha
       \/ program = "crc" /\ CrcInit /\ NoEngel /\ NoHist /\ NoSecded /\ NoAlpha
       \/ program = "histogram" /\ HistInit /\ NoEngel /\ NoCrc /\ NoSecded /\ NoAlpha
       \/ program = "secded" /\ SecdedInit /\ NoEngel /\ NoCrc /\ NoHist /\ NoAlpha
       \/ program = "alpha" /\ AlphaInit /\ NoEngel /\ NoCrc /\ NoHist /\ NoSecded
       \/ program = "rcu" /\ NoEngel /\ NoCrc /\ NoHist /\ NoSecded /\ NoAlpha

EngelStep ==
    /\ program = "engel" /\ Next
    /\ UNCHANGED <<program, crc_vars, hist_vars, secded_vars, alpha_vars, rcu_vars>>
CrcStep ==
    /\ program = "crc" /\ CrcNext
    /\ UNCHANGED <<program, vars, hist_vars, secded_vars, alpha_vars, rcu_vars>>
HistStep ==
    /\ program = "histogram" /\ HistNext
    /\ UNCHANGED <<program, vars, crc_vars, secded_vars, alpha_vars, rcu_vars>>
SecdedStep ==
    /\ program = "secded" /\ SecdedNext
    /\ UNCHANGED <<program, vars, crc_vars, hist_vars, alpha_vars, rcu_vars>>
AlphaStep ==
    /\ program = "alpha" /\ AlphaNext
    /\ UNCHANGED <<program, vars, crc_vars, hist_vars, secded_vars, rcu_vars>>
RcuStep ==
    /\ program = "rcu" /\ RcuNext
    /\ UNCHANGED <<program, vars, crc_vars, hist_vars, secded_vars, alpha_vars>>

Sequential == EngelStep \/ CrcStep \/ HistStep \/ SecdedStep \/ AlphaStep

ProgramsNext == Sequential \/ RcuStep

\* Nothing keeps a sequential program from its next step.
ProgramsSpec == ProgramsInit /\ [][ProgramsNext]_all_vars /\ WF_all_vars(Sequential)

\* The sequential programs come to an end for every input: the loops of
\* adjust_bitlen_naive() that overshoot in both directions, the thresholds of
\* the CRC, the chunks of the histogram and the searches of the repair.
Ends ==
    <>(CASE program = "engel" -> Ended
         [] program = "crc" -> CrcEnded
         [] program = "histogram" -> HistEnded
         [] program = "secded" -> SecdedEnded
         [] program = "alpha" -> AlphaEnded
         [] program = "rcu" -> TRUE)
=============================================================================
