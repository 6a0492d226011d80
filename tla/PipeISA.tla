------------------------------ MODULE PipeISA ------------------------------
(***************************************************************************)
(* PIPE implements the instruction-set machine.                            *)
(*                                                                         *)
(* An instruction commits when it enters the memory stage: from then on    *)
(* nothing squashes it.  The architectural state is then the register file *)
(* and the memory with the writes of the instructions in write-back and in *)
(* memory applied, the condition codes as they are, and the address of the *)
(* oldest instruction that has not entered memory.                         *)
(***************************************************************************)
EXTENDS Pipe

VARIABLES
    smc,        \* history: a store has hit an instruction that was already fetched
    unhandled   \* history: a hazard has occurred that the design does not handle

ivars == <<vars, smc, unhandled>>

Excepting == W.stat \in Exception \/ m_stat \in Exception

\* The instruction whose status is the machine's, or the next to commit.
arch_pc ==
    IF W.stat \in Exception THEN W.pc
    ELSE IF m_stat \in Exception THEN M.pc
    ELSE IF M.icode = "IRET" THEN m_valM
    ELSE IF E.stat # "BUB" THEN E.pc
    ELSE IF D.stat # "BUB" THEN D.pc
    ELSE f_pc

arch_reg ==
    IF W.stat \in Exception THEN reg
    ELSE IF m_stat \in Exception THEN writeBack
    ELSE set_reg_val(set_reg_val(writeBack, M.dstE, M.valE), M.dstM, m_valM)

arch_mem ==
    IF ~Excepting /\ mem_write THEN set_word_val(mem, mem_addr, M.valA) ELSE mem

arch_stat ==
    IF W.stat \in Exception THEN W.stat
    ELSE IF m_stat \in Exception THEN m_stat
    ELSE "AOK"

Arch == INSTANCE ISA WITH
    pc <- arch_pc, r <- arch_reg, m <- arch_mem, cc <- cc, stat <- arch_stat

\* A store reaches memory this cycle at the address of a younger instruction.
OverwritesFetched ==
    /\ started /\ mem_write /\ ~dmem_error
    /\ \/ D.stat # "BUB" /\ mem_addr = D.pc
       \/ E.stat # "BUB" /\ mem_addr = E.pc
       \/ mem_addr = f_pc

\* The instruction in decode reads a register that one ahead still has to write.
DataHazard ==
    {d_srcA, d_srcB} \cap {e_dstE, E.dstM, M.dstE, M.dstM, W.dstE, W.dstM} \cap RegId # {}

\* A hazard that the design neither forwards nor stalls nor squashes.
HazardUnhandled ==
    \/ ~design.bypass /\ DataHazard
    \/ ~design.loadUseStall /\ load_use
    \/ ~design.squash /\ (mispredicted \/ ret_in_flight)
    \/ design.onePort /\ RNONE \notin {M.dstE, M.dstM} /\ M.dstE # M.dstM

IInit == Init /\ smc = FALSE /\ unhandled = FALSE

INext ==
    /\ Next
    /\ smc' = (smc \/ OverwritesFetched)
    /\ unhandled' = (unhandled \/ HazardUnhandled)

\* A design without iaddq takes it for an invalid instruction.
MissingIaddq ==
    design.iaddq = {} /\ Arch!Fetched("IIADDQ") /\ Arch!Fail("INS", arch_reg)

ISpec == IInit /\ [][INext]_ivars

IFairSpec == ISpec /\ WF_ivars(INext)

-----------------------------------------------------------------------------

\* Programs in which every instruction that reads or writes a register names
\* one.  A load or store without a base register is left out because decode
\* then forwards the ALU output of an instruction that writes no register.
WellEncoded ==
    /\ NamesRegisters
    /\ \A w \in Word :
          /\ Decode[w].icode \in {"IRMMOVQ", "IMRMOVQ", "IOPQ"} => Decode[w].rB \in RegId
          /\ Decode[w].icode = "IOPQ" => Decode[w].rA \in RegId

\* Each cycle executes one instruction of the instruction-set machine, or
\* none, as long as no store has hit a fetched instruction and the program
\* has met no hazard that the design leaves to it: no instruction reads a
\* stale value, a squashed one leaves no trace, and none is lost or repeated
\* (pipe/README 15-31 names what each design handles).
ImplementsISA ==
    [][~smc' /\ ~unhandled' =>
          [Arch!Next \/ Arch!PreciseStackFault \/ MissingIaddq]_(Arch!vars)]_ivars

\* Stalls and bubbles always end: an instruction reaches write-back again
\* after every bubble that does (load/use, ret and misprediction each hold
\* the stages behind them, pipe-full.hcl 325-353).
AlwaysRetires == (W.stat = "BUB") ~> (W.stat # "BUB")

-----------------------------------------------------------------------------
(* What ImplementsISA rests on, part by part.                              *)

\* A bubble writes and reads no register and is no instruction.
BubblesAreNops ==
    /\ D.stat = "BUB" => D = bubble_if_id
    /\ E.stat = "BUB" => /\ E.icode = "INOP"
                         /\ {E.srcA, E.srcB, E.dstE, E.dstM} = {RNONE}
    /\ M.stat = "BUB" => M.icode = "INOP" /\ {M.dstE, M.dstM} = {RNONE}
    /\ W.stat = "BUB" => W.icode = "INOP" /\ {W.dstE, W.dstM} = {RNONE}

\* What an instruction that fetch found at fault goes through the stages as.
FaultIcode == {"INOP", "IHALT", "INVALID"} \cup ({"IIADDQ"} \ design.iaddq)

\* Only a memory access raises an exception after fetch; a fetch exception
\* touches neither the registers nor the memory.
FetchExceptions ==
    /\ D.stat \in Exception => D.icode \in FaultIcode
    /\ E.stat \in Exception => E.icode \in FaultIcode /\ {E.dstE, E.dstM} = {RNONE}
    /\ M.stat \in Exception => M.icode \in FaultIcode /\ {M.dstE, M.dstM} = {RNONE}
    /\ M.stat = "BUB" \/ M.stat = "AOK" \/ M.stat \in Exception
    /\ W.stat \in Exception => M.stat = "BUB"

\* Nothing that may be on the wrong path has got past what decides the path:
\* no instruction follows a ret, or is left behind a mispredicted branch, and
\* D runs empty behind E only for a ret (pipe-full.hcl 325-353).
SpeculationSquashed ==
    ~unhandled =>
        /\ M.icode = "IRET" => D.stat = "BUB" /\ E.stat = "BUB"
        /\ M.icode = "IJXX" /\ ~M.Cnd => D.stat = "BUB" /\ E.stat = "BUB"
        /\ W.icode = "IRET" => {D.stat, E.stat, M.stat} = {"BUB"}
        /\ E.stat # "BUB" => (E.icode = "IRET" <=> D.stat = "BUB")

\* D and E hold what memory still holds, unless a store has overtaken them.
InstructionsCurrent ==
    ~smc =>
        /\ D.stat # "BUB" => D = fetch(D.pc)
        /\ E.stat # "BUB" =>
            LET d == fetch(E.pc)
            IN  /\ E.icode = d.icode /\ E.ifun = d.ifun /\ E.valC = d.valC
                /\ E.stat = d.stat
                /\ E.srcA = srcA(d) /\ E.srcB = srcB(d)
                /\ E.dstE = dstE(d) /\ E.dstM = dstM(d)
                /\ E.icode \in {"ICALL", "IJXX"} => E.valA = d.valP

\* Forwarding and the load/use stall: the instruction in execute has the
\* register values that every instruction ahead of it leaves, its store or
\* push data at the latest when it leaves execute (pipe-full.hcl 218-235,
\* 268-271, 325-353).
OperandsCurrent ==
    ~Excepting /\ ~unhandled =>
        /\ E.srcA \in RegId => e_valA = arch_reg[E.srcA]
        /\ E.srcA \in RegId /\ E.icode \notin {"IRMMOVQ", "IPUSHQ"}
             => E.valA = arch_reg[E.srcA]
        /\ E.srcB \in RegId => E.valB = arch_reg[E.srcB]

\* The address that is predicted to follow the instruction in execute.
predicted(x) ==
    IF x.icode \in {"IJXX", "ICALL"} THEN x.valC ELSE Wrap(x.pc + 1)

\* The stages hold consecutive instructions of the predicted path.
ProgramOrder ==
    ~unhandled =>
        /\ E.stat # "BUB" /\ D.stat # "BUB" => D.pc = predicted(E)
        /\ D.stat # "BUB" /\ D.icode # "IRET" => f_pc = predicted(D)

\* cc_in runs ahead of cc by the instruction in execute, and only by it.
CcPending ==
    cc_in = IF set_cc THEN compute_cc(alufun, aluA, aluB) ELSE cc

\* Only a load or popq has a value that is known no sooner than in memory, and
\* the merged register port has no two different registers to write.
WritePorts ==
    /\ E.dstM # RNONE => E.icode \in {"IMRMOVQ", "IPOPQ"}
    /\ ~unhandled /\ design.onePort
         => RNONE \in {W.dstE, W.dstM} \/ W.dstE = W.dstM

\* The first step after a reset finds the bubbles of clear_pipes.
ResetIsEmpty ==
    ~started =>
        /\ D = bubble_if_id /\ E = bubble_id_ex
        /\ M = bubble_ex_mem /\ W = bubble_mem_wb

\* The instructions in the pipeline are those of the predicted path, as memory
\* holds them, and nothing beyond what may still turn out wrong; bubbles and
\* excepting instructions leave no trace.  Only a store that hits an
\* instruction already fetched leaves a stale one there (psim.c 1397), and that
\* one is never further on than execute.
StagesFollowProgram ==
    /\ BubblesAreNops
    /\ FetchExceptions
    /\ SpeculationSquashed
    /\ InstructionsCurrent
    /\ ProgramOrder
    /\ CcPending
    /\ WritePorts
    /\ ResetIsEmpty
=============================================================================
