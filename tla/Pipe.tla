-------------------------------- MODULE Pipe --------------------------------
(***************************************************************************)
(* The PIPE processor: pipe/psim.c with the control logic of one of the    *)
(* files pipe/pipe-*.hcl, which the Makefile's VERSION selects.            *)
(*                                                                         *)
(* sim_step_pipe does, in this order: perform the pending register, memory *)
(* and condition-code writes (update_state), load the five pipe registers  *)
(* (update_pipes), and evaluate every stage and the stall/bubble control   *)
(* from the new contents, which fixes what the next call will write and    *)
(* load.  What the stages compute is a function of the current pipe        *)
(* registers and of reg, mem and cc, so the stages' outputs are state      *)
(* functions below, under the names they have in the HCL, and the          *)
(* variables are the current registers.  cc_in alone keeps an old value    *)
(* when its stage does not assign it, and is a variable.                   *)
(***************************************************************************)
EXTENDS Y86

CONSTANT Loads   \* the runs: the HCL file that psim is built from, as a record of
                 \* Design, and the object file, a function from addresses to words

(***************************************************************************)
(* The HCL files agree on everything but this:                             *)
(*   iaddq         the opcodes that the design adds to the base set        *)
(*   bypass        decode takes values from the stages ahead               *)
(*   lateBypass    the instructions that need no load/use stall for valA,  *)
(*                 because e_valA picks the loaded value up in execute     *)
(*   loadUseStall  a load/use hazard stalls F and D and bubbles E          *)
(*   squash        ret and mispredicted branches bubble the stages behind  *)
(*   onePort       write-back merges its two writes onto one register port *)
(***************************************************************************)
Design ==
    [iaddq : SUBSET {"IIADDQ"}, bypass : BOOLEAN,
     lateBypass : SUBSET {"IMRMOVQ", "IPUSHQ"}, loadUseStall : BOOLEAN,
     squash : BOOLEAN, onePort : BOOLEAN]

\* The design of the textbook, which the Makefile builds unless told otherwise.
std == [iaddq |-> {}, bypass |-> TRUE, lateBypass |-> {}, loadUseStall |-> TRUE,
        squash |-> TRUE, onePort |-> FALSE]

\* iaddq and load forwarding: the solved exercise.
full == [std EXCEPT !.iaddq = {"IIADDQ"}, !.lateBypass = {"IMRMOVQ", "IPUSHQ"}]

\* The exercises on branch prediction start from the standard design.
nt == std
btfnt == std

\* The exercise on load forwarding has the stalls removed, and e_valA plain.
lf == [std EXCEPT !.loadUseStall = FALSE]

\* The exercise on stalling has forwarding and the load/use stalls removed.
nobypass == [lf EXCEPT !.bypass = FALSE]

\* No hazard is handled.
broken == [nobypass EXCEPT !.squash = FALSE]

\* The exercise on a single write port: popq is not split yet.
oneWrite == [std EXCEPT !.onePort = TRUE]

ASSUME LoadsAssumption ==
    \A load \in Loads :
        /\ load.design \in Design
        /\ \A a \in DOMAIN load.code : load.code[a] \in Word

\* The object files.
Codes == {load.code : load \in Loads}

VARIABLES
    design,    \* the HCL file this psim was built from
    F_predPC,  \* pc_curr->pc
    D,         \* if_id_curr
    E,         \* id_ex_curr
    M,         \* ex_mem_curr
    W,         \* mem_wb_curr
    reg,       \* register file
    mem,       \* memory
    cc,        \* condition codes
    cc_in,     \* value cc takes at the next update
    started    \* sim_step_pipe ran since sim_reset: the stages' outputs exist

pipeRegs == <<F_predPC, D, E, M, W>>
vars == <<design, F_predPC, D, E, M, W, reg, mem, cc, cc_in, started>>

(***************************************************************************)
(* Contents of the pipe registers, and their bubbles.                      *)
(***************************************************************************)
IfIdEle == [icode : Icode, ifun : Ifun, rA : Reg, rB : Reg, valC : Word,
            valP : Word, stat : Status, pc : Word]

IdExEle == [icode : Icode, ifun : Ifun, valC : Word, valA : Word, valB : Word,
            srcA : Reg, srcB : Reg, dstE : Reg, dstM : Reg, stat : Status,
            pc : Word]

ExMemEle == [icode : Icode, Cnd : BOOLEAN, valE : Word, valA : Word,
             dstE : Reg, dstM : Reg, stat : Status, pc : Word]

MemWbEle == [icode : Icode, valE : Word, valM : Word, dstE : Reg, dstM : Reg,
             stat : Status, pc : Word]

bubble_if_id == [icode |-> "INOP", ifun |-> 0, rA |-> RNONE, rB |-> RNONE,
                 valC |-> 0, valP |-> 0, stat |-> "BUB", pc |-> 0]

bubble_id_ex == [icode |-> "INOP", ifun |-> 0, valC |-> 0, valA |-> 0,
                 valB |-> 0, srcA |-> RNONE, srcB |-> RNONE, dstE |-> RNONE,
                 dstM |-> RNONE, stat |-> "BUB", pc |-> 0]

bubble_ex_mem == [icode |-> "INOP", Cnd |-> FALSE, valE |-> 0, valA |-> 0,
                  dstE |-> RNONE, dstM |-> RNONE, stat |-> "BUB", pc |-> 0]

bubble_mem_wb == [icode |-> "INOP", valE |-> 0, valM |-> 0, dstE |-> RNONE,
                  dstM |-> RNONE, stat |-> "BUB", pc |-> 0]

TypeOK ==
    /\ design \in Design
    /\ F_predPC \in Word
    /\ D \in IfIdEle
    /\ E \in IdExEle
    /\ M \in ExMemEle
    /\ W \in MemWbEle
    /\ reg \in [RegId -> Word]
    /\ mem \in [Addr -> Word]
    /\ cc \in CC
    /\ cc_in \in CC
    /\ started \in BOOLEAN

Exception == {"ADR", "INS", "HLT"}

-----------------------------------------------------------------------------
(* Memory stage: do_mem_stage.                                             *)

mem_addr ==
    IF M.icode \in {"IRMMOVQ", "IPUSHQ", "ICALL", "IMRMOVQ"} THEN M.valE
    ELSE IF M.icode \in {"IPOPQ", "IRET"} THEN M.valA
    ELSE 0

mem_read == M.icode \in {"IMRMOVQ", "IPOPQ", "IRET"}

mem_write == M.icode \in {"IRMMOVQ", "IPUSHQ", "ICALL"}

dmem_error == (mem_read \/ mem_write) /\ ~word_ok(mem_addr)

m_valM == IF mem_read THEN get_word_val(mem, mem_addr) ELSE 0

m_stat == IF dmem_error THEN "ADR" ELSE M.stat

(* Write-back stage: the status the simulator reports.                     *)

Stat == IF W.stat = "BUB" THEN "AOK" ELSE W.stat

-----------------------------------------------------------------------------
(* Fetch stage: do_if_stage.                                               *)

f_pc ==
    IF M.icode = "IJXX" /\ ~M.Cnd THEN M.valA      \* mispredicted branch
    ELSE IF W.icode = "IRET" THEN W.valM           \* completed ret
    ELSE F_predPC

\* What fetching at address p loads into D; a fetch error makes a nop of it.
fetch(p) ==
    LET imem_error == ~word_ok(p)
        imem == Decode[mem[p]]
        f_icode == IF imem_error THEN "INOP" ELSE imem.icode
        need_regids == f_icode \in {"IRRMOVQ", "IOPQ", "IPUSHQ", "IPOPQ", "IIRMOVQ",
                                    "IRMMOVQ", "IMRMOVQ"} \cup design.iaddq
        need_valC == f_icode \in {"IIRMOVQ", "IRMMOVQ", "IMRMOVQ", "IJXX",
                                  "ICALL"} \cup design.iaddq
        instr_valid == f_icode \notin {"INVALID"} \cup ({"IIADDQ"} \ design.iaddq)
    IN  [icode |-> f_icode,
         ifun  |-> IF imem_error THEN 0 ELSE imem.ifun,
         rA    |-> IF need_regids THEN imem.rA ELSE RNONE,
         rB    |-> IF need_regids THEN imem.rB ELSE RNONE,
         valC  |-> IF need_valC THEN imem.valC ELSE 0,
         valP  |-> Wrap(p + 1),
         stat  |-> IF imem_error THEN "ADR"
                   ELSE IF ~instr_valid THEN "INS"
                   ELSE IF f_icode = "IHALT" THEN "HLT"
                   ELSE "AOK",
         pc    |-> p]

if_id_next == fetch(f_pc)

\* Jumps are predicted taken.
f_predPC ==
    IF if_id_next.icode \in {"IJXX", "ICALL"} THEN if_id_next.valC
    ELSE if_id_next.valP

-----------------------------------------------------------------------------
(* Execute stage: do_ex_stage.                                             *)

aluA ==
    IF E.icode \in {"IRRMOVQ", "IOPQ"} THEN E.valA
    ELSE IF E.icode \in {"IIRMOVQ", "IRMMOVQ", "IMRMOVQ"} \cup design.iaddq THEN E.valC
    ELSE IF E.icode \in {"ICALL", "IPUSHQ"} THEN -WordBytes
    ELSE IF E.icode \in {"IRET", "IPOPQ"} THEN WordBytes
    ELSE 0

aluB ==
    IF E.icode \in {"IRMMOVQ", "IMRMOVQ", "IOPQ", "ICALL", "IPUSHQ", "IRET",
                    "IPOPQ"} \cup design.iaddq THEN E.valB
    ELSE 0

alufun == IF E.icode = "IOPQ" THEN E.ifun ELSE A_ADD

\* Mutant: an ALU instruction behind a faulting one sets the condition codes.
set_cc_always == E.icode \in {"IOPQ"} \cup design.iaddq

set_cc ==
    /\ E.icode \in {"IOPQ"} \cup design.iaddq
    /\ m_stat \notin Exception
    /\ W.stat \notin Exception

e_valE == compute_alu(alufun, aluA, aluB)

e_Cnd == cond_holds(cc, E.ifun)

\* A value loaded by the instruction ahead goes straight to a store or push.
e_valA ==
    IF design.lateBypass # {} /\ E.icode \in {"IRMMOVQ", "IPUSHQ"} /\ E.srcA = M.dstM THEN m_valM
    ELSE E.valA

e_dstE == IF E.icode = "IRRMOVQ" /\ ~e_Cnd THEN RNONE ELSE E.dstE

ex_mem_next ==
    [icode |-> E.icode, Cnd |-> e_Cnd, valE |-> e_valE, valA |-> e_valA,
     dstE |-> e_dstE, dstM |-> E.dstM, stat |-> E.stat, pc |-> E.pc]

mem_wb_next ==
    [icode |-> M.icode, valE |-> M.valE, valM |-> m_valM, dstE |-> M.dstE,
     dstM |-> M.dstM, stat |-> m_stat, pc |-> M.pc]

-----------------------------------------------------------------------------
(* Decode stage: do_id_wb_stages, with forwarding.                         *)

\* The registers that the instruction in a register like D names.
srcA(d) ==
    IF d.icode \in {"IRRMOVQ", "IRMMOVQ", "IOPQ", "IPUSHQ"} THEN d.rA
    ELSE IF d.icode \in {"IPOPQ", "IRET"} THEN RSP
    ELSE RNONE

srcB(d) ==
    IF d.icode \in {"IOPQ", "IRMMOVQ", "IMRMOVQ"} \cup design.iaddq THEN d.rB
    ELSE IF d.icode \in {"IPUSHQ", "IPOPQ", "ICALL", "IRET"} THEN RSP
    ELSE RNONE

dstE(d) ==
    IF d.icode \in {"IRRMOVQ", "IIRMOVQ", "IOPQ"} \cup design.iaddq THEN d.rB
    ELSE IF d.icode \in {"IPUSHQ", "IPOPQ", "ICALL", "IRET"} THEN RSP
    ELSE RNONE

dstM(d) == IF d.icode \in {"IMRMOVQ", "IPOPQ"} THEN d.rA ELSE RNONE

d_srcA == srcA(D)
d_srcB == srcB(D)

\* Mutant: of the two results of a popq in memory, %rsp+8 comes first.
forward_swapped(src) ==
    IF ~design.bypass THEN get_reg_val(reg, src)
    ELSE IF src = e_dstE THEN e_valE
    ELSE IF src = M.dstE THEN M.valE
    ELSE IF src = M.dstM THEN m_valM
    ELSE IF src = W.dstM THEN W.valM
    ELSE IF src = W.dstE THEN W.valE
    ELSE get_reg_val(reg, src)

\* The youngest instruction ahead that writes `src` provides its value.
forward(src) ==
    IF ~design.bypass THEN get_reg_val(reg, src)
    ELSE IF src = e_dstE THEN e_valE
    ELSE IF src = M.dstM THEN m_valM
    ELSE IF src = M.dstE THEN M.valE
    ELSE IF src = W.dstM THEN W.valM
    ELSE IF src = W.dstE THEN W.valE
    ELSE get_reg_val(reg, src)

d_valA == IF D.icode \in {"ICALL", "IJXX"} THEN D.valP ELSE forward(d_srcA)

d_valB == forward(d_srcB)

id_ex_next ==
    [icode |-> D.icode, ifun |-> D.ifun, valC |-> D.valC, valA |-> d_valA,
     valB |-> d_valB, srcA |-> d_srcA, srcB |-> d_srcB, dstE |-> dstE(D),
     dstM |-> dstM(D), stat |-> D.stat, pc |-> D.pc]

-----------------------------------------------------------------------------
(* Pipeline register control: do_stall_check.                              *)

\* Mutant: no test that the instruction in execute loads at all.
load_use_untested ==
    \/ E.dstM = d_srcB
    \/ E.dstM = d_srcA /\ D.icode \notin design.lateBypass

\* The instruction in decode needs what a load in execute has not read yet.
\* pipe-full.hcl excuses IMRMOVQ and IPUSHQ, not IRMMOVQ and IPUSHQ.
load_use ==
    /\ E.icode \in {"IMRMOVQ", "IPOPQ"}
    /\ \/ E.dstM = d_srcB
       \/ E.dstM = d_srcA /\ D.icode \notin design.lateBypass

\* Mutant: the ret in memory is forgotten.
ret_in_flight_short == "IRET" \in {D.icode, E.icode}

ret_in_flight == "IRET" \in {D.icode, E.icode, M.icode}

mispredicted == E.icode = "IJXX" /\ ~e_Cnd

load_use_stall == design.loadUseStall /\ load_use

ret_bubble == design.squash /\ ret_in_flight

branch_bubble == design.squash /\ mispredicted

\* Mutant: a load/use stall of D lets F go on.
F_stall_ret == ret_bubble

F_stall == load_use_stall \/ ret_bubble
F_bubble == FALSE
D_stall == load_use_stall
\* Mutant: the bubble of a ret is not withheld during a load/use stall.
D_bubble_ret == branch_bubble \/ ret_bubble

D_bubble == branch_bubble \/ (~load_use /\ ret_bubble)
E_stall == FALSE
\* Mutant: the instruction decoded behind a mispredicted branch goes on.
E_bubble_stall == load_use_stall

E_bubble == branch_bubble \/ load_use_stall
M_stall == FALSE
M_bubble == m_stat \in Exception \/ W.stat \in Exception
W_stall == W.stat \in Exception
W_bubble == FALSE

pipe_cntl(stall, bubble) ==
    IF stall THEN (IF bubble THEN "P_ERROR" ELSE "P_STALL")
    ELSE (IF bubble THEN "P_BUBBLE" ELSE "P_LOAD")

-----------------------------------------------------------------------------
(* One cycle: sim_step_pipe.                                               *)

\* update_pipes on one register, and the STAT_PIP that sim_step_pipe marks
\* it with when its control signals conflict.
update_pipe(op, current, next, bubble) ==
    IF op = "P_LOAD" THEN next
    ELSE IF op = "P_STALL" THEN current
    ELSE IF op = "P_BUBBLE" THEN bubble
    ELSE [bubble EXCEPT !.stat = "PIP"]     \* P_ERROR

\* The first step after a reset has no stage outputs to load: it leaves the
\* bubbles of clear_pipes in place.
loadFromStages ==
    /\ F_predPC' = (IF pipe_cntl(F_stall, F_bubble) = "P_LOAD" THEN f_predPC
                    ELSE F_predPC)
    /\ D' = update_pipe(pipe_cntl(D_stall, D_bubble), D, if_id_next, bubble_if_id)
    /\ E' = update_pipe(pipe_cntl(E_stall, E_bubble), E, id_ex_next, bubble_id_ex)
    /\ M' = update_pipe(pipe_cntl(M_stall, M_bubble), M, ex_mem_next, bubble_ex_mem)
    /\ W' = update_pipe(pipe_cntl(W_stall, W_bubble), W, mem_wb_next, bubble_mem_wb)

\* The two register ports, the M port written last; or the merged port.
writeBack ==
    IF design.onePort
    THEN IF W.dstM # RNONE THEN set_reg_val(reg, W.dstM, W.valM)
         ELSE set_reg_val(reg, W.dstE, W.valE)
    ELSE set_reg_val(set_reg_val(reg, W.dstE, W.valE), W.dstM, W.valM)

update_state(update_mem, update_cc) ==
    /\ reg' = (IF started THEN writeBack ELSE reg)
    /\ mem' = (IF started /\ update_mem /\ mem_write
               THEN set_word_val(mem, mem_addr, M.valA) ELSE mem)
    /\ cc' = (IF update_cc THEN cc_in ELSE cc)

\* update_mem and update_cc are the tests of sim_step_pipe on max_instr.
Cycle(update_mem, update_cc) ==
    /\ update_state(update_mem, update_cc)
    /\ IF started THEN loadFromStages ELSE UNCHANGED pipeRegs
    /\ started' = TRUE
    /\ UNCHANGED design
    /\ cc_in' = (IF set_cc' THEN compute_cc(alufun', aluA', aluB') ELSE cc_in)

sim_reset(image) ==
    /\ F_predPC = 0
    /\ D = bubble_if_id
    /\ E = bubble_id_ex
    /\ M = bubble_ex_mem
    /\ W = bubble_mem_wb
    /\ reg = [id \in RegId |-> 0]
    /\ mem = image
    /\ cc = DEFAULT_CC
    /\ cc_in = DEFAULT_CC
    /\ started = FALSE

-----------------------------------------------------------------------------
(* A run that no instruction limit cuts short: the loop of sim_run_pipe    *)
(* steps until an exception reaches write-back.                            *)

Init == \E load \in Loads : design = load.design /\ sim_reset(load_mem(load.code))

Next == Stat = "AOK" /\ Cycle(TRUE, TRUE)

Spec == Init /\ [][Next]_vars

FairSpec == Spec /\ WF_vars(Next)

\* The control signals of each pipe register are consistent ("At most one of
\* these can be true", pipe-full.hcl 323-361), so that no stage is ever
\* marked STAT_PIP.
NoPipeError ==
    /\ ~(F_stall /\ F_bubble) /\ ~(D_stall /\ D_bubble) /\ ~(E_stall /\ E_bubble)
    /\ ~(M_stall /\ M_bubble) /\ ~(W_stall /\ W_bubble)
    /\ "PIP" \notin {D.stat, E.stat, M.stat, W.stat}
=============================================================================
