-------------------------------- MODULE Seq --------------------------------
(***************************************************************************)
(* The SEQ and SEQ+ processors: seq/ssim.c with the control logic of       *)
(* seq-full.hcl, seq-std.hcl or seq+-std.hcl.                              *)
(*                                                                         *)
(* sim_step first performs the writes that the previous call left pending  *)
(* (update_state) and then evaluates the whole datapath for the            *)
(* instruction at the new pc, which fixes the next pending writes.  All    *)
(* the signals are a function of pc, reg, mem and cc: they are state       *)
(* functions, under their HCL names, and are meaningful once a call of     *)
(* sim_step has evaluated them, that is when icount > 0.                   *)
(*                                                                         *)
(* SEQ ends a call by computing the next pc.  SEQ+ keeps what it needs for *)
(* that in the registers prev and computes the pc at the next call.        *)
(***************************************************************************)
EXTENDS Y86

CONSTANTS
    Codes,        \* the object files: functions from addresses to words
    instr_limit,  \* the -l option
    Designs       \* the HCL files, as records of Design, that ssim is built from

ASSUME CodesAssumption == \A code \in Codes : \A a \in DOMAIN code : code[a] \in Word

ASSUME LimitAssumption == instr_limit \in Nat

\* What the HCL files do not share: the opcodes that the design adds to the
\* base set, and whether it is SEQ+.
Design == [iaddq : SUBSET {"IIADDQ"}, plusmode : BOOLEAN]

full == [iaddq |-> {"IIADDQ"}, plusmode |-> FALSE]

std == [iaddq |-> {}, plusmode |-> FALSE]

plus_std == [iaddq |-> {}, plusmode |-> TRUE]

ASSUME DesignsAssumption == Designs \subseteq Design

VARIABLES
    design,  \* the HCL file this ssim was built from
    prev,    \* SEQ+: prev_icode, prev_bcond, prev_valc, prev_valm, prev_valp
    pc,      \* address of the instruction under evaluation
    reg,     \* register file
    mem,     \* memory
    cc,      \* condition codes
    icount   \* calls of sim_step that sim_run has made

vars == <<design, prev, pc, reg, mem, cc, icount>>

PrevRegs == [icode : Icode, bcond : BOOLEAN, valC : Word, valM : Word, valP : Word]

TypeOK ==
    /\ design \in Designs
    /\ prev \in PrevRegs
    /\ pc \in Word
    /\ reg \in [RegId -> Word]
    /\ mem \in [Addr -> Word]
    /\ cc \in CC
    /\ icount \in 0 .. instr_limit

-----------------------------------------------------------------------------
(* Fetch.                                                                  *)

imem_error == ~word_ok(pc)

imem == Decode[mem[pc]]

icode == IF imem_error THEN "INOP" ELSE imem.icode

ifun == IF imem_error THEN 0 ELSE imem.ifun

need_regids == icode \in {"IRRMOVQ", "IOPQ", "IPUSHQ", "IPOPQ", "IIRMOVQ",
                          "IRMMOVQ", "IMRMOVQ"} \cup design.iaddq

need_valC == icode \in {"IIRMOVQ", "IRMMOVQ", "IMRMOVQ", "IJXX", "ICALL"}
                        \cup design.iaddq

rA == IF need_regids THEN imem.rA ELSE RNONE
rB == IF need_regids THEN imem.rB ELSE RNONE
instr_valid == icode \notin {"INVALID"} \cup ({"IIADDQ"} \ design.iaddq)
valC == IF need_valC THEN imem.valC ELSE 0
valP == Wrap(pc + 1)

-----------------------------------------------------------------------------
(* Decode and execute.                                                     *)

srcA == IF icode \in {"IRRMOVQ", "IRMMOVQ", "IOPQ", "IPUSHQ"} THEN rA
        ELSE IF icode \in {"IPOPQ", "IRET"} THEN RSP
        ELSE RNONE

srcB == IF icode \in {"IOPQ", "IRMMOVQ", "IMRMOVQ"} \cup design.iaddq THEN rB
        ELSE IF icode \in {"IPUSHQ", "IPOPQ", "ICALL", "IRET"} THEN RSP
        ELSE RNONE

valA == get_reg_val(reg, srcA)
valB == get_reg_val(reg, srcB)

Cnd == cond_holds(cc, ifun)

dstE == IF icode = "IRRMOVQ" /\ Cnd THEN rB
        ELSE IF icode \in {"IIRMOVQ", "IOPQ"} \cup design.iaddq THEN rB
        ELSE IF icode \in {"IPUSHQ", "IPOPQ", "ICALL", "IRET"} THEN RSP
        ELSE RNONE

dstM == IF icode \in {"IMRMOVQ", "IPOPQ"} THEN rA ELSE RNONE

aluA == IF icode \in {"IRRMOVQ", "IOPQ"} THEN valA
        ELSE IF icode \in {"IIRMOVQ", "IRMMOVQ", "IMRMOVQ"} \cup design.iaddq THEN valC
        ELSE IF icode \in {"ICALL", "IPUSHQ"} THEN -WordBytes
        ELSE IF icode \in {"IRET", "IPOPQ"} THEN WordBytes
        ELSE 0

aluB == IF icode \in {"IRMMOVQ", "IMRMOVQ", "IOPQ", "ICALL", "IPUSHQ", "IRET",
                      "IPOPQ"} \cup design.iaddq THEN valB
        ELSE 0

alufun == IF icode = "IOPQ" THEN ifun ELSE A_ADD

valE == compute_alu(alufun, aluA, aluB)

set_cc == icode \in {"IOPQ"} \cup design.iaddq

cc_in == IF set_cc THEN compute_cc(alufun, aluA, aluB) ELSE cc

-----------------------------------------------------------------------------
(* Memory, status and program counter update.                              *)

mem_read == icode \in {"IMRMOVQ", "IPOPQ", "IRET"}

mem_write == icode \in {"IRMMOVQ", "IPUSHQ", "ICALL"}

mem_addr == IF icode \in {"IRMMOVQ", "IPUSHQ", "ICALL", "IMRMOVQ"} THEN valE
            ELSE IF icode \in {"IPOPQ", "IRET"} THEN valA
            ELSE 0

mem_data == IF icode = "ICALL" THEN valP ELSE valA

dmem_error == (mem_read \/ mem_write) /\ ~word_ok(mem_addr)

valM == IF mem_read THEN get_word_val(mem, mem_addr) ELSE 0

Stat == IF imem_error \/ dmem_error THEN "ADR"
        ELSE IF ~instr_valid THEN "INS"
        ELSE IF icode = "IHALT" THEN "HLT"
        ELSE "AOK"

new_pc == IF icode = "ICALL" THEN valC
          ELSE IF icode = "IJXX" /\ Cnd THEN valC
          ELSE IF icode = "IRET" THEN valM
          ELSE valP

\* What SEQ+ keeps of the instruction.
prev_in == [icode |-> icode, bcond |-> Cnd /\ icode = "IJXX",
            valC |-> valC, valM |-> valM, valP |-> valP]

\* Mutant: a call goes on behind itself.
plus_pc_call(p) ==
    IF p.icode = "IJXX" /\ p.bcond THEN p.valC
    ELSE IF p.icode = "IRET" THEN p.valM
    ELSE p.valP

\* The pc that SEQ+ computes from it.
plus_pc(p) ==
    IF p.icode = "ICALL" THEN p.valC
    ELSE IF p.icode = "IJXX" /\ p.bcond THEN p.valC
    ELSE IF p.icode = "IRET" THEN p.valM
    ELSE p.valP

-----------------------------------------------------------------------------
(* One call of sim_step, and the loop of sim_run around it.                *)

\* The register ports: the M port is written last.
writeBack == set_reg_val(set_reg_val(reg, dstE, valE), dstM, valM)

writeMem == IF mem_write THEN set_word_val(mem, mem_addr, mem_data) ELSE mem

\* Before the first call nothing is pending (sim_reset).
update_state ==
    IF icount > 0
    THEN /\ prev' = (IF design.plusmode THEN prev_in ELSE prev)
         /\ pc' = (IF design.plusmode THEN plus_pc(prev') ELSE new_pc)
         /\ reg' = writeBack /\ mem' = writeMem /\ cc' = cc_in
    ELSE UNCHANGED <<prev, pc, reg, mem, cc>>

status == IF icount > 0 THEN Stat ELSE "AOK"

\* sim_run stops at the limit, or after the step that returns an error.
sim_step ==
    /\ icount < instr_limit
    /\ status = "AOK"
    /\ update_state
    /\ icount' = icount + 1
    /\ UNCHANGED design

Init ==
    /\ design \in Designs
    /\ prev = [icode |-> "INOP", bcond |-> FALSE, valC |-> 0, valM |-> 0, valP |-> 0]
    /\ pc = 0
    /\ reg = [id \in RegId |-> 0]
    /\ \E code \in Codes : mem = load_mem(code)
    /\ cc = DEFAULT_CC
    /\ icount = 0

Next == sim_step

Spec == Init /\ [][Next]_vars
-----------------------------------------------------------------------------
(* SEQ implements the instruction-set machine.  The instruction under      *)
(* evaluation has executed, architecturally, unless it raised an           *)
(* exception: its writes are pending.                                      *)

Executed == icount > 0 /\ Stat = "AOK"

arch_pc == IF Executed THEN new_pc ELSE pc
arch_reg == IF Executed THEN writeBack ELSE reg
arch_mem == IF Executed THEN writeMem ELSE mem
arch_cc == IF Executed THEN cc_in ELSE cc

Arch == INSTANCE ISA WITH
    pc <- arch_pc, r <- arch_reg, m <- arch_mem, cc <- arch_cc, stat <- status

\* A design without iaddq takes it for an invalid instruction.
MissingIaddq ==
    design.iaddq = {} /\ Arch!Fetched("IIADDQ") /\ Arch!Fail("INS", arch_reg)

\* Every call of sim_step executes exactly one instruction of the
\* instruction-set machine and none of a faulting one's effects: the datapath
\* of each HCL file, with its write ports, its pending writes and the late pc
\* of SEQ+, computes what the sequential code of step_state does (isa.c
\* 627-943).
SeqImplementsISA == [][Arch!Next \/ Arch!PreciseStackFault \/ MissingIaddq]_vars
=============================================================================
