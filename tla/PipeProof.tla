----------------------------- MODULE PipeProof ------------------------------
(***************************************************************************)
(* PIPE, for every word size, memory, register file, program and design:   *)
(* its types, how hazards are handled, that it implements the              *)
(* instruction-set machine, and what follows for a session of the GUI and  *)
(* for psim's own check of itself (-t).                                    *)
(***************************************************************************)
EXTENDS Gui, Psim, Y86Proof

(***************************************************************************)
(* Type correctness: what the stages compute fits the pipe registers.      *)
(***************************************************************************)

\* Memory stage.
LEMMA MemStageType ==
    ASSUME TypeOK
    PROVE  mem_addr \in Word /\ m_valM \in Word /\ m_stat \in Status
           /\ mem_wb_next \in MemWbEle
<1>1. mem_addr \in Word
  BY SmallWords DEF TypeOK, ExMemEle, mem_addr
<1>2. m_valM \in Word
  BY <1>1, AccessTypes, SmallWords DEF TypeOK, m_valM
<1>3. m_stat \in Status
  BY DEF TypeOK, ExMemEle, m_stat, Status
<1>4. /\ M.icode \in Icode /\ M.valE \in Word /\ M.dstE \in Reg
      /\ M.dstM \in Reg /\ M.pc \in Word
  BY DEF TypeOK, ExMemEle
<1> QED
  BY <1>1, <1>2, <1>3, <1>4 DEF mem_wb_next, MemWbEle

\* Fetch stage: an address that can be read holds an instruction.
LEMMA FetchType ==
    ASSUME TypeOK, NEW p \in Word
    PROVE  fetch(p) \in IfIdEle
<1>1. Wrap(p + 1) \in Word /\ 0 \in Word
  BY SmallWords, WrapType
<1>2. CASE word_ok(p)
  <2>1. p \in Addr
    BY <1>2, WordAssumption DEF word_ok, Addr, Word, WordBytes
  <2> DEFINE i == Decode[mem[p]]
  <2>2. i \in Instr
    BY <2>1, DecodeAssumption DEF TypeOK
  <2>3. /\ i.icode \in Icode /\ i.ifun \in Ifun /\ i.rA \in Reg /\ i.rB \in Reg
        /\ i.valC \in Word
    BY <2>2 DEF Instr
  <2>4. RNONE \in Reg /\ {"INS", "HLT", "AOK"} \subseteq Status
    BY DEF Reg, Status
  <2> HIDE DEF i
  <2> QED
    BY <1>1, <1>2, <2>3, <2>4 DEF fetch, IfIdEle, i
<1>3. CASE ~word_ok(p)
  <2>1. "INOP" \in Icode /\ 0 \in Ifun /\ RNONE \in Reg /\ "ADR" \in Status
    BY DEF Icode, Ifun, Reg, Status
  <2>2. "INOP" \notin design.iaddq
    BY DEF TypeOK, Design
  <2> QED
    BY <1>1, <1>3, <2>1, <2>2 DEF fetch, IfIdEle
<1> QED
  BY <1>2, <1>3

\* What the fetch stage hands to D and predicts is well typed.
LEMMA FetchStageType ==
    ASSUME TypeOK
    PROVE  f_pc \in Word /\ f_predPC \in Word /\ if_id_next \in IfIdEle
<1>1. f_pc \in Word
  BY DEF TypeOK, ExMemEle, MemWbEle, f_pc
<1>2. if_id_next \in IfIdEle
  BY <1>1, FetchType DEF if_id_next
<1> QED
  BY <1>1, <1>2 DEF f_predPC, IfIdEle

\* Execute stage.
LEMMA ExecuteType ==
    ASSUME TypeOK
    PROVE  e_valE \in Word /\ e_Cnd \in BOOLEAN /\ e_dstE \in Reg
           /\ ex_mem_next \in ExMemEle
<1>1. /\ E.icode \in Icode /\ E.ifun \in Ifun /\ E.valC \in Word
      /\ E.valA \in Word /\ E.valB \in Word /\ E.dstE \in Reg
      /\ E.dstM \in Reg /\ E.stat \in Status /\ E.pc \in Word
  BY DEF TypeOK, IdExEle
<1>2. aluA \in Word /\ aluB \in Word
  BY <1>1, SmallWords DEF aluA, aluB
<1>3. e_valE \in Word
  BY <1>2, AluType DEF e_valE
<1>4. e_Cnd \in BOOLEAN
  BY <1>1, CondType DEF TypeOK, e_Cnd
<1>5. e_valA \in Word
  BY <1>1, MemStageType DEF e_valA
<1>6. e_dstE \in Reg
  BY <1>1 DEF e_dstE, Reg
<1> QED
  BY <1>1, <1>3, <1>4, <1>5, <1>6 DEF ex_mem_next, ExMemEle

\* Decode stage: every source of forwarding is a word.
LEMMA DecodeType ==
    ASSUME TypeOK
    PROVE  d_srcA \in Reg /\ d_srcB \in Reg /\ id_ex_next \in IdExEle
<1>1. /\ D.icode \in Icode /\ D.ifun \in Ifun /\ D.rA \in Reg /\ D.rB \in Reg
      /\ D.valC \in Word /\ D.valP \in Word /\ D.stat \in Status /\ D.pc \in Word
  BY DEF TypeOK, IfIdEle
<1>2. RSP \in Reg /\ RNONE \in Reg
  BY RegAssumption DEF Reg
<1>3. d_srcA \in Reg /\ d_srcB \in Reg /\ dstE(D) \in Reg /\ dstM(D) \in Reg
  BY <1>1, <1>2 DEF d_srcA, d_srcB, srcA, srcB, dstE, dstM
<1>4. \A src : forward(src) \in Word
  <2>1. e_valE \in Word /\ m_valM \in Word
    BY ExecuteType, MemStageType
  <2>2. M.valE \in Word /\ W.valM \in Word /\ W.valE \in Word
    BY DEF TypeOK, ExMemEle, MemWbEle
  <2>3. \A src : get_reg_val(reg, src) \in Word
    BY SmallWords DEF TypeOK, get_reg_val
  <2> QED
    BY <2>1, <2>2, <2>3 DEF forward
<1>5. d_valA \in Word /\ d_valB \in Word
  BY <1>1, <1>4 DEF d_valA, d_valB
<1> QED
  BY <1>1, <1>3, <1>5 DEF id_ex_next, IdExEle

\* Bubbles fit their pipe registers.
LEMMA BubbleType ==
    /\ bubble_if_id \in IfIdEle /\ bubble_id_ex \in IdExEle
    /\ bubble_ex_mem \in ExMemEle /\ bubble_mem_wb \in MemWbEle
<1>1. 0 \in Word /\ RNONE \in Reg /\ "INOP" \in Icode /\ 0 \in Ifun /\ "BUB" \in Status
  BY SmallWords DEF Reg, Icode, Ifun, Status
<1> QED
  BY <1>1 DEF bubble_if_id, bubble_id_ex, bubble_ex_mem, bubble_mem_wb,
              IfIdEle, IdExEle, ExMemEle, MemWbEle

\* The reset state is well typed.
LEMMA InitType == Init => TypeOK
<1> SUFFICES ASSUME NEW load \in Loads, sim_reset(load_mem(load.code)),
                    design = load.design
             PROVE  TypeOK
  BY DEF Init
<1>1. load_mem(load.code) \in [Addr -> Word]
  BY LoadsAssumption, SmallWords DEF load_mem
<1>3. design \in Design
  BY LoadsAssumption
<1>2. 0 \in Word /\ DEFAULT_CC \in CC
  BY SmallWords DEF DEFAULT_CC, CC
<1> QED
  BY <1>1, <1>2, <1>3, BubbleType DEF sim_reset, TypeOK

\* One cycle of the pipe registers.
LEMMA LoadType ==
    ASSUME TypeOK, loadFromStages
    PROVE  /\ F_predPC' \in Word /\ D' \in IfIdEle /\ E' \in IdExEle
           /\ M' \in ExMemEle /\ W' \in MemWbEle
<1>1. "PIP" \in Status
  BY DEF Status
<1>2. F_predPC' \in Word
  BY FetchStageType DEF TypeOK, loadFromStages
<1>3. [bubble_if_id EXCEPT !.stat = "PIP"] \in IfIdEle
  BY <1>1, BubbleType DEF IfIdEle
<1>4. [bubble_id_ex EXCEPT !.stat = "PIP"] \in IdExEle
  BY <1>1, BubbleType DEF IdExEle
<1>5. [bubble_ex_mem EXCEPT !.stat = "PIP"] \in ExMemEle
  BY <1>1, BubbleType DEF ExMemEle
<1>6. [bubble_mem_wb EXCEPT !.stat = "PIP"] \in MemWbEle
  BY <1>1, BubbleType DEF MemWbEle
<1>7. D' \in IfIdEle
  BY <1>3, FetchStageType, BubbleType DEF TypeOK, loadFromStages, update_pipe
<1>8. E' \in IdExEle
  BY <1>4, DecodeType, BubbleType DEF TypeOK, loadFromStages, update_pipe
<1>9. M' \in ExMemEle
  BY <1>5, ExecuteType, BubbleType DEF TypeOK, loadFromStages, update_pipe
<1>10. W' \in MemWbEle
  BY <1>6, MemStageType, BubbleType DEF TypeOK, loadFromStages, update_pipe
<1> QED
  BY <1>2, <1>7, <1>8, <1>9, <1>10

\* One cycle, whatever writes the instruction limit disables.
LEMMA CycleType ==
    ASSUME TypeOK, NEW um \in BOOLEAN, NEW uc \in BOOLEAN, Cycle(um, uc)
    PROVE  TypeOK'
<1>1. /\ F_predPC' \in Word /\ D' \in IfIdEle /\ E' \in IdExEle
      /\ M' \in ExMemEle /\ W' \in MemWbEle
  BY LoadType DEF Cycle, TypeOK, pipeRegs
<1>2. reg' \in [RegId -> Word]
  <2>1. W.valE \in Word /\ W.valM \in Word
    BY DEF TypeOK, MemWbEle
  <2>2. writeBack \in [RegId -> Word]
    BY <2>1 DEF TypeOK, writeBack, set_reg_val
  <2> QED
    BY <2>2 DEF Cycle, update_state, TypeOK
<1>3. mem' \in [Addr -> Word]
  <2>1. mem_addr \in Word /\ M.valA \in Word
    BY MemStageType DEF TypeOK, ExMemEle
  <2>2. set_word_val(mem, mem_addr, M.valA) \in [Addr -> Word]
    BY <2>1 DEF TypeOK, set_word_val
  <2> QED
    BY <2>2 DEF Cycle, update_state, TypeOK
<1>4. cc' \in CC /\ cc_in' \in CC
  BY CcType DEF Cycle, update_state, TypeOK
<1> QED
  BY <1>1, <1>2, <1>3, <1>4 DEF Cycle, TypeOK

\* Every reachable state is well typed: every value fits the word, every
\* register id is one the hardware has, for every program.
THEOREM TypeCorrect == Spec => []TypeOK
<1>1. Init => TypeOK
  BY InitType
<1>2. TypeOK /\ [Next]_vars => TypeOK'
  <2> SUFFICES ASSUME TypeOK, [Next]_vars PROVE TypeOK'
    OBVIOUS
  <2>1. CASE Next
    BY <2>1, CycleType DEF Next
  <2>2. CASE UNCHANGED vars
    BY <2>2 DEF vars, TypeOK
  <2> QED
    BY <2>1, <2>2
<1> QED
  BY <1>1, <1>2, PTL DEF Spec

(***************************************************************************)
(* Control: no pipe register is told to stall and to bubble.               *)
(***************************************************************************)

\* A load in execute stalls D, a branch in execute bubbles it: it is one or
\* the other.
LEMMA ConsistentControl ==
    /\ ~(F_stall /\ F_bubble) /\ ~(D_stall /\ D_bubble) /\ ~(E_stall /\ E_bubble)
    /\ ~(M_stall /\ M_bubble) /\ ~(W_stall /\ W_bubble)
BY DEF F_bubble, D_stall, D_bubble, E_stall, M_stall, W_bubble,
       load_use_stall, branch_bubble, load_use, mispredicted

\* A stage that is not told both passes on a status that a stage produced.
LEMMA UpdateKeepsStat ==
    ASSUME NEW stall, NEW bubble, ~(stall /\ bubble),
           NEW current, NEW next, NEW nop,
           current.stat # "PIP", next.stat # "PIP", nop.stat # "PIP"
    PROVE  update_pipe(pipe_cntl(stall, bubble), current, next, nop).stat # "PIP"
BY DEF update_pipe, pipe_cntl

\* No reachable state has conflicting control signals or a stage marked
\* STAT_PIP, whatever the program.
THEOREM ControlConsistent == Spec => []NoPipeError
<1> DEFINE NoPip == "PIP" \notin {D.stat, E.stat, M.stat, W.stat}
<1>1. Init => NoPip
  BY DEF Init, sim_reset, bubble_if_id, bubble_id_ex, bubble_ex_mem, bubble_mem_wb
<1>2. NoPip /\ [Next]_vars => NoPip'
  <2> SUFFICES ASSUME NoPip, [Next]_vars PROVE NoPip'
    OBVIOUS
  <2>1. CASE UNCHANGED vars
    BY <2>1 DEF vars
  <2>2. CASE Next
    <3>1. CASE ~started
      BY <2>2, <3>1 DEF Next, Cycle, pipeRegs
    <3>2. CASE started
      <4>1. /\ if_id_next.stat # "PIP" /\ id_ex_next.stat # "PIP"
            /\ ex_mem_next.stat # "PIP" /\ mem_wb_next.stat # "PIP"
        BY DEF if_id_next, fetch, id_ex_next, ex_mem_next, mem_wb_next, m_stat
      <4>2. /\ bubble_if_id.stat # "PIP" /\ bubble_id_ex.stat # "PIP"
            /\ bubble_ex_mem.stat # "PIP" /\ bubble_mem_wb.stat # "PIP"
        BY DEF bubble_if_id, bubble_id_ex, bubble_ex_mem, bubble_mem_wb
      <4>3. loadFromStages
        BY <2>2, <3>2 DEF Next, Cycle
      <4>4. D'.stat # "PIP"
        BY <4>1, <4>2, <4>3, UpdateKeepsStat, ConsistentControl DEF loadFromStages
      <4>5. E'.stat # "PIP"
        BY <4>1, <4>2, <4>3, UpdateKeepsStat, ConsistentControl DEF loadFromStages
      <4>6. M'.stat # "PIP"
        BY <4>1, <4>2, <4>3, UpdateKeepsStat, ConsistentControl DEF loadFromStages
      <4>7. W'.stat # "PIP"
        BY <4>1, <4>2, <4>3, UpdateKeepsStat, ConsistentControl DEF loadFromStages
      <4> QED
        BY <4>4, <4>5, <4>6, <4>7
    <3> QED
      BY <3>1, <3>2
  <2> QED
    BY <2>1, <2>2
<1>3. NoPip => NoPipeError
  BY ConsistentControl DEF NoPipeError
<1> QED
  BY <1>1, <1>2, <1>3, PTL DEF Spec

-----------------------------------------------------------------------------
NoPip == "PIP" \notin {D.stat, E.stat, M.stat, W.stat}

\* The inductive invariant.
IInv == TypeOK /\ NoPip /\ StagesFollowProgram /\ OperandsCurrent

(***************************************************************************)
(* The shape of a step.                                                    *)
(***************************************************************************)

\* What update_pipes and update_state do in a cycle after the first: the run
\* goes on only while no exception has reached write-back, and the control
\* signals never conflict.
LEMMA StepShape ==
    ASSUME Next, started
    PROVE  /\ W.stat \notin Exception
           /\ F_predPC' = IF load_use_stall \/ ret_bubble THEN F_predPC ELSE f_predPC
           /\ D' = IF load_use_stall THEN D
                   ELSE IF D_bubble THEN bubble_if_id ELSE if_id_next
           /\ E' = IF E_bubble THEN bubble_id_ex ELSE id_ex_next
           /\ M' = IF m_stat \in Exception THEN bubble_ex_mem ELSE ex_mem_next
           /\ W' = mem_wb_next
           /\ reg' = writeBack
           /\ mem' = IF mem_write THEN set_word_val(mem, mem_addr, M.valA) ELSE mem
           /\ cc' = cc_in
           /\ cc_in' = IF set_cc' THEN compute_cc(alufun', aluA', aluB') ELSE cc_in
           /\ started' /\ design' = design
<1>1. Stat = "AOK" /\ Cycle(TRUE, TRUE)
  BY DEF Next
<1>2. W.stat \notin Exception
  BY <1>1 DEF Stat, Exception
<1>3. loadFromStages
  BY <1>1 DEF Cycle
<1>4. F_predPC' = IF load_use_stall \/ ret_bubble THEN F_predPC ELSE f_predPC
  BY <1>3 DEF loadFromStages, pipe_cntl, F_stall, F_bubble
<1>5. D' = IF load_use_stall THEN D ELSE IF D_bubble THEN bubble_if_id ELSE if_id_next
  BY <1>3, ConsistentControl DEF loadFromStages, pipe_cntl, update_pipe, D_stall
<1>6. E' = IF E_bubble THEN bubble_id_ex ELSE id_ex_next
  BY <1>3 DEF loadFromStages, pipe_cntl, update_pipe, E_stall
<1>7. M' = IF m_stat \in Exception THEN bubble_ex_mem ELSE ex_mem_next
  BY <1>2, <1>3 DEF loadFromStages, pipe_cntl, update_pipe, M_stall, M_bubble
<1>8. W' = mem_wb_next
  BY <1>2, <1>3 DEF loadFromStages, pipe_cntl, update_pipe, W_stall, W_bubble
<1> QED
  BY <1>1, <1>2, <1>4, <1>5, <1>6, <1>7, <1>8 DEF Cycle, update_state

\* A design adds no opcode but iaddq.
LEMMA AddedOpcodes ==
    ASSUME TypeOK
    PROVE  design.iaddq \subseteq {"IIADDQ"} /\ design.lateBypass \subseteq {"IMRMOVQ", "IPUSHQ"}
BY DEF TypeOK, Design

\* The first step after a reset only starts the machine.
LEMMA FirstStep ==
    ASSUME IInv, Next, ~started
    PROVE  /\ UNCHANGED <<design, F_predPC, D, E, M, W, reg, mem>>
           /\ cc' = cc /\ cc_in' = cc_in /\ cc_in = cc /\ started'
           /\ ~set_cc /\ ~set_cc'
<1>1. E = bubble_id_ex /\ M = bubble_ex_mem
  BY DEF IInv, StagesFollowProgram, ResetIsEmpty
<1>2. UNCHANGED <<design, F_predPC, D, E, M, W, reg, mem>> /\ started' /\ cc' = cc_in
  BY DEF Next, Cycle, update_state, pipeRegs
<1>3. ~set_cc
  BY <1>1, AddedOpcodes DEF IInv, set_cc, bubble_id_ex
<1>4. ~set_cc'
  BY <1>1, <1>2, AddedOpcodes DEF IInv, set_cc, bubble_id_ex
<1>5. cc_in = cc
  BY <1>3 DEF IInv, StagesFollowProgram, CcPending
<1>6. cc_in' = cc_in
  BY <1>4 DEF Next, Cycle
<1> QED
  BY <1>2, <1>3, <1>4, <1>5, <1>6

(***************************************************************************)
(* Bubbles and faults.                                                     *)
(***************************************************************************)

\* What fetch returns, and when it is at fault.
LEMMA FetchFacts ==
    ASSUME NEW p
    PROVE  /\ fetch(p).stat \in {"ADR", "INS", "HLT", "AOK"}
           /\ fetch(p).stat \in Exception => fetch(p).icode \in FaultIcode
           /\ fetch(p).pc = p /\ fetch(p).valP = Wrap(p + 1)
BY DEF fetch, Exception, FaultIcode

\* The decode stage turns a bubble into a bubble, and a fault into an
\* instruction that writes nothing.
LEMMA DecodeFacts ==
    ASSUME IInv
    PROVE  /\ D.stat = "BUB" =>
                /\ id_ex_next.icode = "INOP" /\ id_ex_next.stat = "BUB"
                /\ {id_ex_next.srcA, id_ex_next.srcB, id_ex_next.dstE,
                    id_ex_next.dstM} = {RNONE}
           /\ D.stat \in Exception =>
                /\ id_ex_next.icode \in FaultIcode
                /\ {id_ex_next.dstE, id_ex_next.dstM} = {RNONE}
           /\ id_ex_next.dstM # RNONE => id_ex_next.icode \in {"IMRMOVQ", "IPOPQ"}
<1>1. D.stat = "BUB" => D.icode = "INOP"
  BY DEF IInv, StagesFollowProgram, BubblesAreNops, bubble_if_id
<1>2. D.stat \in Exception => D.icode \in FaultIcode
  BY DEF IInv, StagesFollowProgram, FetchExceptions
<1>3. D.icode \in FaultIcode => dstE(D) = RNONE /\ dstM(D) = RNONE
  BY AddedOpcodes DEF IInv, FaultIcode, dstE, dstM
<1>4. D.icode = "INOP" => d_srcA = RNONE /\ d_srcB = RNONE
  BY AddedOpcodes DEF IInv, d_srcA, d_srcB, srcA, srcB
<1>5. "INOP" \in FaultIcode
  BY DEF FaultIcode
<1> QED
  BY <1>1, <1>2, <1>3, <1>4, <1>5 DEF id_ex_next, dstM

\* BubblesAreNops is kept by every cycle.
LEMMA BubblesStep ==
    ASSUME IInv, Next, started PROVE BubblesAreNops'
<1>1. D'.stat = "BUB" => D' = bubble_if_id
  BY StepShape, FetchFacts DEF IInv, StagesFollowProgram, BubblesAreNops, if_id_next
<1>2. E'.stat = "BUB" =>
        E'.icode = "INOP" /\ {E'.srcA, E'.srcB, E'.dstE, E'.dstM} = {RNONE}
  BY StepShape, DecodeFacts DEF bubble_id_ex, id_ex_next
<1>3. M'.stat = "BUB" => M'.icode = "INOP" /\ {M'.dstE, M'.dstM} = {RNONE}
  BY StepShape DEF IInv, StagesFollowProgram, BubblesAreNops, bubble_ex_mem,
     ex_mem_next, e_dstE
<1>4. W'.stat = "BUB" => W'.icode = "INOP" /\ {W'.dstE, W'.dstM} = {RNONE}
  BY StepShape DEF IInv, StagesFollowProgram, BubblesAreNops, mem_wb_next, m_stat
<1> QED
  BY <1>1, <1>2, <1>3, <1>4 DEF BubblesAreNops

\* No stage is marked STAT_PIP.
LEMMA NoPipStep ==
    ASSUME IInv, Next, started PROVE NoPip'
<1>1. "PIP" \notin {if_id_next.stat, id_ex_next.stat, ex_mem_next.stat, mem_wb_next.stat}
  BY FetchFacts DEF IInv, NoPip, if_id_next, id_ex_next, ex_mem_next, mem_wb_next, m_stat
<1> QED
  BY <1>1, StepShape DEF IInv, NoPip, bubble_if_id, bubble_id_ex, bubble_ex_mem

\* FetchExceptions is kept by every cycle.
LEMMA ExceptionsStep ==
    ASSUME IInv, Next, started PROVE FetchExceptions'
<1> USE StepShape
<1>1. FaultIcode' = FaultIcode
  BY DEF FaultIcode
<1>2. D'.stat \in Exception => D'.icode \in FaultIcode
  BY FetchFacts DEF IInv, StagesFollowProgram, FetchExceptions, if_id_next,
     bubble_if_id, Exception
<1>3. E'.stat \in Exception => E'.icode \in FaultIcode /\ {E'.dstE, E'.dstM} = {RNONE}
  BY DecodeFacts DEF id_ex_next, bubble_id_ex, Exception
<1>4. M'.stat \in Exception => M'.icode \in FaultIcode /\ {M'.dstE, M'.dstM} = {RNONE}
  BY DEF IInv, StagesFollowProgram, FetchExceptions, ex_mem_next, e_dstE,
     bubble_ex_mem, Exception
<1>5. M'.stat = "BUB" \/ M'.stat = "AOK" \/ M'.stat \in Exception
  BY DEF IInv, TypeOK, IdExEle, Status, NoPip, ex_mem_next, bubble_ex_mem, Exception
<1>6. W'.stat \in Exception => M'.stat = "BUB"
  BY DEF mem_wb_next, bubble_ex_mem
<1> QED
  BY <1>1, <1>2, <1>3, <1>4, <1>5, <1>6 DEF FetchExceptions

(***************************************************************************)
(* Control hazards.                                                        *)
(***************************************************************************)

\* Of the hazards the design does not handle there has been none, and is none.
Handled == ~unhandled /\ ~HazardUnhandled

\* A ret in flight and a mispredicted branch squash, and a load/use hazard
\* stalls: the other designs are those that leave the hazard to the program.
LEMMA HandledControl ==
    ASSUME Handled
    PROVE  /\ ret_bubble <=> ret_in_flight
           /\ branch_bubble <=> mispredicted
           /\ load_use_stall <=> load_use
BY DEF Handled, HazardUnhandled, ret_bubble, branch_bubble, load_use_stall

\* What the invariant says of where a ret or a branch may be.
LEMMA Path ==
    ASSUME IInv, ~unhandled
    PROVE  /\ M.icode = "IRET" => D.stat = "BUB" /\ E.stat = "BUB"
           /\ M.icode = "IJXX" /\ ~M.Cnd => D.stat = "BUB" /\ E.stat = "BUB"
           /\ W.icode = "IRET" => D.stat = "BUB" /\ E.stat = "BUB" /\ M.stat = "BUB"
           /\ E.stat # "BUB" => (E.icode = "IRET" <=> D.stat = "BUB")
           /\ D.stat = "BUB" => D.icode = "INOP"
           /\ E.stat = "BUB" => E.icode = "INOP"
           /\ M.stat = "BUB" => M.icode = "INOP"
BY DEF IInv, StagesFollowProgram, SpeculationSquashed, BubblesAreNops, bubble_if_id

\* SpeculationSquashed is kept: a ret holds fetch back until it has left
\* memory, and a mispredicted branch clears the two stages behind it.
LEMMA SpeculationStep ==
    ASSUME IInv, Next, started, Handled, ~unhandled' PROVE SpeculationSquashed'
<1> USE StepShape, HandledControl
<1>1. /\ bubble_if_id.stat = "BUB" /\ bubble_id_ex.stat = "BUB"
      /\ bubble_ex_mem.stat = "BUB" /\ bubble_ex_mem.icode = "INOP"
  BY DEF bubble_if_id, bubble_id_ex, bubble_ex_mem
<1>2. /\ if_id_next.stat # "BUB" /\ id_ex_next.stat = D.stat
      /\ id_ex_next.icode = D.icode
  BY FetchFacts DEF if_id_next, id_ex_next
<1>3. /\ ex_mem_next.icode = E.icode /\ ex_mem_next.stat = E.stat
      /\ ex_mem_next.Cnd = e_Cnd /\ mem_wb_next.icode = M.icode
  BY DEF ex_mem_next, mem_wb_next
<1>4. M'.icode = "IRET" => D'.stat = "BUB" /\ E'.stat = "BUB"
  BY <1>1, <1>2, <1>3, Path DEF Handled, D_bubble, load_use, ret_in_flight
<1>5. M'.icode = "IJXX" /\ ~M'.Cnd => D'.stat = "BUB" /\ E'.stat = "BUB"
  BY <1>1, <1>2, <1>3, Path DEF Handled, D_bubble, E_bubble, load_use, mispredicted
<1>6. W'.icode = "IRET" => D'.stat = "BUB" /\ E'.stat = "BUB" /\ M'.stat = "BUB"
  BY <1>1, <1>2, <1>3, Path DEF Handled, D_bubble, load_use, ret_in_flight
<1>7. E'.stat # "BUB" => (E'.icode = "IRET" <=> D'.stat = "BUB")
  BY <1>1, <1>2, <1>3, Path DEF Handled, D_bubble, E_bubble, load_use, ret_in_flight
<1> QED
  BY <1>4, <1>5, <1>6, <1>7 DEF SpeculationSquashed

\* ProgramOrder is kept: F moves on with D, and with every branch predicted.
LEMMA OrderStep ==
    ASSUME IInv, Next, started, Handled, ~unhandled' PROVE ProgramOrder'
<1> USE StepShape, HandledControl
<1>1. bubble_if_id.stat = "BUB" /\ bubble_id_ex.stat = "BUB"
  BY DEF bubble_if_id, bubble_id_ex
<1>2. /\ id_ex_next.stat = D.stat /\ id_ex_next.icode = D.icode
      /\ id_ex_next.valC = D.valC /\ id_ex_next.pc = D.pc
  BY DEF id_ex_next
<1>3. predicted(id_ex_next) = predicted(D)
  BY <1>2 DEF predicted
<1>4. f_predPC = predicted(if_id_next) /\ if_id_next.pc = f_pc
  BY FetchFacts DEF f_predPC, predicted, if_id_next
<1>5. D.stat # "BUB" /\ D.icode # "IRET" => f_pc = predicted(D)
  BY DEF IInv, StagesFollowProgram, ProgramOrder, Handled
<1>6. E'.stat # "BUB" /\ D'.stat # "BUB" => D'.pc = predicted(E)'
  <2> SUFFICES ASSUME E'.stat # "BUB", D'.stat # "BUB" PROVE D'.pc = predicted(E)'
    OBVIOUS
  <2>1. E' = id_ex_next /\ ~load_use_stall /\ D.stat # "BUB"
    BY <1>1, <1>2 DEF E_bubble
  <2>2. D' = if_id_next
    BY <1>1, <2>1
  <2>3. E'.icode # "IRET"
    BY SpeculationStep DEF SpeculationSquashed, Handled
  <2> QED
    BY <1>2, <1>3, <1>4, <1>5, <2>1, <2>2, <2>3 DEF predicted
<1>7. D'.stat # "BUB" /\ D'.icode # "IRET" => f_pc' = predicted(D)'
  <2> SUFFICES ASSUME D'.stat # "BUB", D'.icode # "IRET" PROVE f_pc' = predicted(D)'
    OBVIOUS
  <2>1. f_pc' = F_predPC'
    BY SpeculationStep DEF SpeculationSquashed, f_pc, Handled
  <2>2. CASE load_use_stall
    <3>1. D' = D /\ F_predPC' = F_predPC
      BY <2>2
    <3>2. f_pc = F_predPC
      BY <3>1, Path DEF f_pc, Handled
    <3> QED
      BY <1>5, <2>1, <3>1, <3>2 DEF predicted
  <2>3. CASE ~load_use_stall
    <3>1. D' = if_id_next /\ ~ret_bubble
      BY <1>1, <2>3 DEF D_bubble
    <3> QED
      BY <1>4, <2>1, <2>3, <3>1 DEF predicted
  <2> QED
    BY <2>2, <2>3
<1> QED
  BY <1>6, <1>7 DEF ProgramOrder

(***************************************************************************)
(* What the stages hold.                                                   *)
(***************************************************************************)

\* An address that can be read is one of the memory's.
LEMMA ReadableAddress == \A p \in Word : word_ok(p) => p \in Addr
BY WordAssumption DEF word_ok, Addr, Word, WordBytes

\* A store elsewhere does not change what fetching at p returns.
LEMMA StoreElsewhere ==
    ASSUME IInv, Next, started, NEW p \in Word,
           ~(mem_write /\ ~dmem_error /\ mem_addr = p)
    PROVE  fetch(p)' = fetch(p)
<1> USE StepShape
<1>1. CASE word_ok(p)
  <2>1. mem_write => (dmem_error <=> ~word_ok(mem_addr))
    BY DEF dmem_error
  <2>2. mem'[p] = mem[p]
    BY <1>1, <2>1, ReadableAddress DEF IInv, TypeOK, set_word_val
  <2> QED
    BY <2>2 DEF fetch
<1>2. CASE ~word_ok(p)
  BY <1>2, AddedOpcodes DEF IInv, fetch
<1> QED
  BY <1>1, <1>2

\* InstructionsCurrent is kept: what moves to D is what memory still holds at
\* the end of the cycle, and decode copies it.
LEMMA InstructionsStep ==
    ASSUME IInv, Next, started, ~smc, ~OverwritesFetched PROVE InstructionsCurrent'
<1>1. f_pc \in Word /\ D.pc \in Word
  BY FetchStageType DEF IInv, TypeOK, IfIdEle
<1>2. D.stat # "BUB" => D = fetch(D.pc)
  BY DEF IInv, StagesFollowProgram, InstructionsCurrent
<1>3. D'.stat # "BUB" => D' = fetch(D.pc)'
  <2> SUFFICES ASSUME D'.stat # "BUB" PROVE D' = fetch(D.pc)'
    OBVIOUS
  <2>1. ASSUME NEW p \in Word, D' = fetch(p),
               ~(mem_write /\ ~dmem_error /\ mem_addr = p)
        PROVE  D' = fetch(D.pc)'
    <3>1. D'.pc = p /\ fetch(p)' = fetch(p)
      BY <2>1, FetchFacts, StoreElsewhere
    <3> QED
      BY <2>1, <3>1 DEF fetch
  <2>2. D' = D \/ D' = fetch(f_pc)
    BY StepShape DEF bubble_if_id, if_id_next
  <2> QED
    BY <1>1, <1>2, <2>1, <2>2 DEF OverwritesFetched
<1>4. ASSUME E'.stat # "BUB"
      PROVE  E' = id_ex_next /\ fetch(E.pc)' = D
  <2>1. E' = id_ex_next /\ D.stat # "BUB" /\ E'.pc = D.pc
    BY <1>4, StepShape DEF bubble_id_ex, id_ex_next
  <2>2. D = fetch(D.pc) /\ ~(mem_write /\ ~dmem_error /\ mem_addr = D.pc)
    BY <1>2, <2>1 DEF OverwritesFetched
  <2>3. ASSUME NEW p \in Word, p = D.pc PROVE fetch(E.pc)' = D
    <3>1. fetch(p)' = fetch(p)
      BY <2>2, <2>3, StoreElsewhere
    <3> QED
      BY <2>1, <2>2, <2>3, <3>1 DEF fetch
  <2> QED
    BY <1>1, <2>1, <2>3
<1> QED
  BY <1>3, <1>4, StepShape DEF InstructionsCurrent, id_ex_next, d_valA, d_srcA,
     d_srcB, srcA, srcB, dstE, dstM

(***************************************************************************)
(* Data hazards.                                                           *)
(***************************************************************************)

\* Reading a register after the two writes of an instruction.
LEMMA ReadWrites ==
    ASSUME NEW f, DOMAIN f = RegId, NEW dE, NEW vE, NEW dM, NEW vM
    PROVE  LET g == set_reg_val(set_reg_val(f, dE, vE), dM, vM)
           IN  /\ DOMAIN g = RegId
               /\ \A b \in RegId : g[b] = IF b = dM THEN vM ELSE IF b = dE THEN vE ELSE f[b]
<1> DEFINE h == set_reg_val(f, dE, vE)
<1>1. DOMAIN h = RegId /\ \A b \in RegId : h[b] = IF b = dE THEN vE ELSE f[b]
  BY DEF set_reg_val
<1> HIDE DEF h
<1>2. /\ DOMAIN set_reg_val(h, dM, vM) = RegId
      /\ \A b \in RegId : set_reg_val(h, dM, vM)[b] = IF b = dM THEN vM ELSE h[b]
  BY <1>1 DEF set_reg_val
<1> QED
  BY <1>1, <1>2 DEF h

\* Nothing is lost at the merged register port.
MergeSafe(w) == design.onePort => RNONE \in {w.dstE, w.dstM} \/ w.dstE = w.dstM

\* The merged port then does what the two ports do.
LEMMA MergedPort ==
    ASSUME NEW f \in [RegId -> Word],
           NEW dE, NEW vE \in Word, NEW dM, NEW vM \in Word,
           RNONE \in {dE, dM} \/ dE = dM
    PROVE  (IF dM # RNONE THEN set_reg_val(f, dM, vM) ELSE set_reg_val(f, dE, vE))
             = set_reg_val(set_reg_val(f, dE, vE), dM, vM)
<1>1. CASE dM = RNONE
  BY <1>1, NoneInert
<1>2. CASE dE = RNONE
  BY <1>2, NoneInert
<1>3. CASE dE = dM /\ dM \in RegId
  <2>1. [[f EXCEPT ![dM] = vE] EXCEPT ![dM] = vM] = [f EXCEPT ![dM] = vM]
    BY <1>3
  <2> QED
    BY <1>3, <2>1, RegAssumption DEF set_reg_val
<1>4. CASE dM \notin RegId /\ dE = dM
  BY <1>4 DEF set_reg_val
<1> QED
  BY <1>1, <1>2, <1>3, <1>4

\* Write-back as if each result had a port, the loaded value written last.
LEMMA TwoPorts ==
    ASSUME TypeOK, MergeSafe(W)
    PROVE  writeBack = set_reg_val(set_reg_val(reg, W.dstE, W.valE), W.dstM, W.valM)
<1>1. reg \in [RegId -> Word] /\ W.valE \in Word /\ W.valM \in Word
  BY DEF TypeOK, MemWbEle
<1> QED
  BY <1>1, MergedPort DEF MergeSafe, writeBack

\* WritePorts is kept.
LEMMA PortsStep ==
    ASSUME IInv, Next, started, Handled
    PROVE  WritePorts' /\ MergeSafe(W) /\ MergeSafe(W)'
<1>1. E'.dstM # RNONE => E'.icode \in {"IMRMOVQ", "IPOPQ"}
  BY StepShape, DecodeFacts DEF bubble_id_ex
<1>2. MergeSafe(W)
  BY DEF Handled, IInv, StagesFollowProgram, WritePorts, MergeSafe
<1>3. MergeSafe(W)'
  BY StepShape DEF Handled, HazardUnhandled, mem_wb_next, MergeSafe
<1> QED
  BY <1>1, <1>2, <1>3 DEF WritePorts, MergeSafe

\* Once it is written back, the register file is what the instruction in
\* memory and the one in write-back made of it.
LEMMA WriteBackStep ==
    ASSUME IInv, Next, started, Handled, m_stat \notin Exception
    PROVE  /\ arch_reg \in [RegId -> Word]
           /\ writeBack' = arch_reg
           /\ \A b \in RegId :
                arch_reg[b] = IF b = M.dstM THEN m_valM ELSE IF b = M.dstE THEN M.valE
                              ELSE IF b = W.dstM THEN W.valM
                              ELSE IF b = W.dstE THEN W.valE ELSE reg[b]
<1> DEFINE w == set_reg_val(set_reg_val(reg, W.dstE, W.valE), W.dstM, W.valM)
           a == set_reg_val(set_reg_val(w, M.dstE, M.valE), M.dstM, m_valM)
<1>1. W.stat \notin Exception
  BY StepShape
<1>2. writeBack = w
  BY TwoPorts, PortsStep DEF IInv
<1>3. arch_reg = a
  BY <1>1, <1>2 DEF arch_reg
<1>4. /\ reg \in [RegId -> Word] /\ W.valE \in Word /\ W.valM \in Word
      /\ M.valE \in Word /\ m_valM \in Word
  BY MemStageType DEF IInv, TypeOK, ExMemEle, MemWbEle
<1>5. w \in [RegId -> Word] /\ a \in [RegId -> Word]
  BY <1>4 DEF set_reg_val
<1>6. writeBack' = a
  <2>1. /\ reg' = w /\ design' = design
        /\ W'.dstE = M.dstE /\ W'.valE = M.valE /\ W'.dstM = M.dstM /\ W'.valM = m_valM
    BY <1>2, StepShape DEF mem_wb_next
  <2>2. CASE design.onePort
    <3>1. RNONE \in {M.dstE, M.dstM} \/ M.dstE = M.dstM
      BY <2>1, <2>2, PortsStep DEF MergeSafe
    <3> HIDE DEF w
    <3> QED
      BY <1>4, <1>5, <2>1, <2>2, <3>1, MergedPort DEF writeBack
  <2>3. CASE ~design.onePort
    BY <2>1, <2>3 DEF writeBack
  <2> QED
    BY <2>2, <2>3
<1>7. \A b \in RegId :
        a[b] = IF b = M.dstM THEN m_valM ELSE IF b = M.dstE THEN M.valE
               ELSE IF b = W.dstM THEN W.valM ELSE IF b = W.dstE THEN W.valE ELSE reg[b]
  <2>1. DOMAIN w = RegId
        /\ \A b \in RegId : w[b] = IF b = W.dstM THEN W.valM
                                   ELSE IF b = W.dstE THEN W.valE ELSE reg[b]
    BY <1>4, ReadWrites
  <2> HIDE DEF w
  <2> QED
    BY <2>1, ReadWrites
<1> QED
  BY <1>3, <1>5, <1>6, <1>7

\* Forwarding finds what the instructions ahead leave, but for the value that
\* the instruction in execute has yet to load.
LEMMA Forwarded ==
    ASSUME IInv, Next, started, Handled, m_stat \notin Exception,
           NEW b \in RegId, b \in {d_srcA, d_srcB}, b # E.dstM
    PROVE  forward(b) = IF b = e_dstE THEN e_valE ELSE arch_reg[b]
<1>1. CASE design.bypass
  BY <1>1, WriteBackStep DEF forward, get_reg_val
<1>2. CASE ~design.bypass
  <2>1. b \notin {e_dstE, E.dstM, M.dstE, M.dstM, W.dstE, W.dstM}
    BY <1>2 DEF Handled, HazardUnhandled, DataHazard
  <2> QED
    BY <1>2, <2>1, WriteBackStep DEF forward, get_reg_val
<1> QED
  BY <1>1, <1>2

\* The architectural registers after a cycle that raises no exception.
LEMMA ArchRegStep ==
    ASSUME IInv, Next, started, Handled, ~Excepting', NEW b \in RegId
    PROVE  /\ m_stat \notin Exception /\ M' = ex_mem_next
           /\ arch_reg'[b] = IF b = E.dstM THEN m_valM'
                             ELSE IF b = e_dstE THEN e_valE ELSE arch_reg[b]
<1>1. m_stat \notin Exception /\ M' = ex_mem_next
  BY StepShape DEF Excepting, mem_wb_next
<1>2. arch_reg' = set_reg_val(set_reg_val(arch_reg, e_dstE, e_valE), E.dstM, m_valM')
  BY <1>1, WriteBackStep DEF Excepting, arch_reg, ex_mem_next
<1>3. DOMAIN arch_reg = RegId
  BY <1>1, WriteBackStep
<1> QED
  BY <1>1, <1>2, <1>3, ReadWrites

\* OperandsCurrent is kept: what decode took from the stages ahead, or stalled
\* for, is what they leave.
LEMMA OperandsStep ==
    ASSUME IInv, Next, started, Handled
    PROVE  OperandsCurrent'
<1> SUFFICES ASSUME ~Excepting'
             PROVE  /\ E'.srcA \in RegId => e_valA' = arch_reg'[E'.srcA]
                    /\ E'.srcA \in RegId /\ E'.icode \notin {"IRMMOVQ", "IPUSHQ"}
                         => E'.valA = arch_reg'[E'.srcA]
                    /\ E'.srcB \in RegId => E'.valB = arch_reg'[E'.srcB]
  BY DEF OperandsCurrent
<1>1. CASE E_bubble
  BY <1>1, StepShape, RegAssumption DEF bubble_id_ex
<1>2. CASE ~E_bubble
  <2>1. /\ E' = id_ex_next /\ M' = ex_mem_next /\ m_stat \notin Exception /\ ~load_use
        /\ design' = design
    BY <1>2, StepShape, HandledControl, ArchRegStep, RegAssumption DEF E_bubble
  <2>2. /\ E'.icode = D.icode /\ E'.srcA = d_srcA /\ E'.srcB = d_srcB
        /\ E'.valA = d_valA /\ E'.valB = d_valB /\ M'.dstM = E.dstM
    BY <2>1 DEF id_ex_next, ex_mem_next
  <2>3. E.dstM \in RegId => E.icode \in {"IMRMOVQ", "IPOPQ"}
    BY RegAssumption DEF IInv, StagesFollowProgram, WritePorts
  <2>4. d_srcB \in RegId => d_srcB # E.dstM
    BY <2>1, <2>3 DEF load_use
  <2>5. d_srcA \in RegId /\ d_srcA = E.dstM =>
          D.icode = "IPUSHQ" /\ design.lateBypass # {}
    BY <2>1, <2>3, AddedOpcodes, RegAssumption DEF IInv, load_use, d_srcA, srcA
  <2>6. \A b \in RegId : b \in {d_srcA, d_srcB} /\ b # E.dstM => arch_reg'[b] = forward(b)
    BY <2>1, ArchRegStep, Forwarded
  <2>7. d_srcB \in RegId => d_valB = arch_reg'[d_srcB]
    BY <2>4, <2>6 DEF d_valB
  <2>8. d_srcA \in RegId /\ d_srcA # E.dstM => d_valA = arch_reg'[d_srcA]
    BY <2>6, AddedOpcodes, RegAssumption DEF IInv, d_valA, d_srcA, srcA
  <2>9. E'.srcA \in RegId => e_valA' = arch_reg'[E'.srcA]
    <3>1. CASE d_srcA = E.dstM
      BY <2>1, <2>2, <2>5, <3>1, ArchRegStep DEF e_valA
    <3>2. CASE d_srcA # E.dstM
      BY <2>2, <2>8, <3>2 DEF e_valA
    <3> QED
      BY <3>1, <3>2
  <2> QED
    BY <2>2, <2>5, <2>7, <2>8, <2>9
<1> QED
  BY <1>1, <1>2

(***************************************************************************)
(* The invariant.                                                          *)
(***************************************************************************)

\* The reset state is empty.
\* What a reset leaves is no program yet.
LEMMA EmptyInv ==
    ASSUME TypeOK, ~started, cc = cc_in, D = bubble_if_id, E = bubble_id_ex,
           M = bubble_ex_mem, W = bubble_mem_wb
    PROVE  IInv
<1> USE DEF bubble_if_id, bubble_id_ex, bubble_ex_mem, bubble_mem_wb
<1>1. NoPip /\ BubblesAreNops
  BY DEF NoPip, BubblesAreNops
<1>2. FetchExceptions
  BY DEF FetchExceptions, Exception
<1>3. SpeculationSquashed /\ InstructionsCurrent /\ ProgramOrder
  BY DEF SpeculationSquashed, InstructionsCurrent, ProgramOrder
<1>4. CcPending
  BY AddedOpcodes DEF CcPending, set_cc
<1>5. WritePorts /\ ResetIsEmpty
  BY DEF WritePorts, ResetIsEmpty
<1>6. OperandsCurrent
  BY RegAssumption DEF OperandsCurrent
<1> QED
  BY <1>1, <1>2, <1>3, <1>4, <1>5, <1>6 DEF IInv, StagesFollowProgram

LEMMA InvInit == IInit => IInv
<1> SUFFICES ASSUME IInit PROVE IInv
  OBVIOUS
<1>1. TypeOK
  BY InitType DEF IInit
<1> QED
  BY <1>1, EmptyInv DEF IInit, Init, sim_reset

LEMMA InvFirstStep ==
    ASSUME IInv, INext, ~started PROVE IInv'
<1>1. Next /\ unhandled' = (unhandled \/ HazardUnhandled) /\ smc' = (smc \/ OverwritesFetched)
  BY DEF INext
<1>2. TypeOK' /\ started'
  BY <1>1, CycleType DEF IInv, Next, Cycle
<1>3. /\ UNCHANGED <<design, F_predPC, D, E, M, W, reg, mem, cc, cc_in>>
  BY <1>1, FirstStep
<1>4. /\ UNCHANGED <<NoPip, BubblesAreNops, FetchExceptions>>
  BY <1>3 DEF NoPip, BubblesAreNops, FetchExceptions, FaultIcode
<1>5. CcPending'
  BY <1>1, FirstStep DEF CcPending
<1>6. ~started' => FALSE
  BY <1>2
<1>7. E = bubble_id_ex /\ D = bubble_if_id /\ M = bubble_ex_mem /\ W = bubble_mem_wb
  BY DEF IInv, StagesFollowProgram, ResetIsEmpty
<1> USE DEF bubble_if_id, bubble_id_ex, bubble_ex_mem, bubble_mem_wb
<1>8. (SpeculationSquashed /\ InstructionsCurrent /\ ProgramOrder)'
  BY <1>3, <1>7 DEF SpeculationSquashed, InstructionsCurrent, ProgramOrder
<1>9. (WritePorts /\ ResetIsEmpty)'
  BY <1>2, <1>3, <1>7 DEF WritePorts, ResetIsEmpty
<1>10. OperandsCurrent'
  BY <1>3, <1>7, RegAssumption DEF OperandsCurrent
<1> QED
  BY <1>2, <1>4, <1>5, <1>8, <1>9, <1>10 DEF IInv, StagesFollowProgram

\* Every later step keeps the invariant.
LEMMA InvStep ==
    ASSUME IInv, INext, started PROVE IInv'
<1>1. Next /\ unhandled' = (unhandled \/ HazardUnhandled) /\ smc' = (smc \/ OverwritesFetched)
  BY DEF INext
<1>2. TypeOK' /\ started'
  BY <1>1, CycleType DEF IInv, Next, Cycle
<1>3. ~unhandled' => Handled
  BY <1>1 DEF Handled
<1>4. NoPip' /\ BubblesAreNops' /\ FetchExceptions'
  BY <1>1, NoPipStep, BubblesStep, ExceptionsStep
<1>5. SpeculationSquashed' /\ ProgramOrder'
  <2>1. CASE unhandled'
    BY <2>1 DEF SpeculationSquashed, ProgramOrder
  <2>2. CASE ~unhandled'
    BY <1>1, <1>3, <2>2, SpeculationStep, OrderStep
  <2> QED
    BY <2>1, <2>2
<1>6. InstructionsCurrent'
  <2>1. CASE smc'
    BY <2>1 DEF InstructionsCurrent
  <2>2. CASE ~smc'
    BY <1>1, <2>2, InstructionsStep
  <2> QED
    BY <2>1, <2>2
<1>7. CcPending'
  BY <1>1, StepShape DEF CcPending
<1>8. WritePorts'
  <2>1. CASE unhandled'
    <3>1. E'.dstM # RNONE => E'.icode \in {"IMRMOVQ", "IPOPQ"}
      BY <1>1, StepShape, DecodeFacts DEF bubble_id_ex
    <3> QED
      BY <2>1, <3>1 DEF WritePorts
  <2>2. CASE ~unhandled'
    BY <1>1, <1>3, <2>2, PortsStep
  <2> QED
    BY <2>1, <2>2
<1>9. ResetIsEmpty'
  BY <1>2 DEF ResetIsEmpty
<1>10. OperandsCurrent'
  <2>1. CASE unhandled'
    BY <2>1 DEF OperandsCurrent
  <2>2. CASE ~unhandled'
    BY <1>1, <1>3, <2>2, OperandsStep
  <2> QED
    BY <2>1, <2>2
<1> QED
  BY <1>2, <1>4, <1>5, <1>6, <1>7, <1>8, <1>9, <1>10 DEF IInv, StagesFollowProgram

\* A stuttering step keeps it.
LEMMA InvStutter ==
    ASSUME IInv, UNCHANGED ivars PROVE IInv'
<1> USE DEF ivars, vars
<1>1. (TypeOK /\ NoPip)'
  BY DEF IInv, TypeOK, NoPip
<1>2. (BubblesAreNops /\ FetchExceptions /\ WritePorts /\ ResetIsEmpty)'
  BY DEF IInv, StagesFollowProgram, BubblesAreNops, FetchExceptions, FaultIcode,
     WritePorts, ResetIsEmpty
<1>3. (SpeculationSquashed /\ ProgramOrder)'
  BY DEF IInv, StagesFollowProgram, SpeculationSquashed, ProgramOrder, predicted, f_pc
<1>4. InstructionsCurrent'
  BY DEF IInv, StagesFollowProgram, InstructionsCurrent, fetch, srcA, srcB, dstE, dstM
<1>5. CcPending'
  BY DEF IInv, StagesFollowProgram, CcPending, set_cc, m_stat, dmem_error, mem_read,
     mem_write, mem_addr, alufun, aluA, aluB
<1>6. OperandsCurrent'
  BY DEF IInv, OperandsCurrent, Excepting, m_stat, dmem_error, mem_read, mem_write,
     mem_addr, e_valA, m_valM, arch_reg, writeBack
<1> QED
  BY <1>1, <1>2, <1>3, <1>4, <1>5, <1>6 DEF IInv, StagesFollowProgram

\* The invariant holds in every reachable state of every design and program.
LEMMA Invariant == ISpec => []IInv
<1>1. IInv /\ [INext]_ivars => IInv'
  BY InvFirstStep, InvStep, InvStutter
<1> QED
  BY <1>1, InvInit, PTL DEF ISpec

\* In every design, the stages hold the instructions of the predicted path as
\* memory holds them, and bubbles and faults leave no trace, as long as the
\* program meets no hazard that the design leaves to it.
THEOREM StagesAlwaysFollow == ISpec => []StagesFollowProgram
BY Invariant, PTL DEF IInv

\* Forwarding and the load/use stall are right in every design that has them:
\* the instruction in execute has the values that those ahead of it leave.
THEOREM OperandsAlwaysCurrent == ISpec => []OperandsCurrent
BY Invariant, PTL DEF IInv

(***************************************************************************)
(* Refinement: a cycle in which nothing commits.                           *)
(***************************************************************************)

archvars == <<arch_pc, arch_reg, arch_mem, cc, arch_stat>>

\* An exception on its way from memory to write-back changes nothing.
LEMMA FaultRetires ==
    ASSUME IInv, Next, started, m_stat \in Exception PROVE UNCHANGED archvars
<1> USE StepShape
<1>1. W'.stat = m_stat /\ W'.pc = M.pc
  BY DEF mem_wb_next
<1>2. arch_pc = M.pc /\ arch_reg = writeBack /\ arch_mem = mem /\ arch_stat = m_stat
  BY DEF arch_pc, arch_reg, arch_mem, arch_stat, Excepting
<1>3. arch_pc' = M.pc /\ arch_reg' = writeBack /\ arch_mem' = mem' /\ arch_stat' = m_stat
  BY <1>1 DEF arch_pc, arch_reg, arch_mem, arch_stat, Excepting
<1>4. mem' = mem
  <2>1. CASE dmem_error
    BY <2>1 DEF dmem_error, set_word_val, mem_read, mem_write
  <2>2. CASE ~dmem_error
    <3>1. M.icode \in FaultIcode
      BY <2>2 DEF m_stat, IInv, StagesFollowProgram, FetchExceptions
    <3> QED
      BY <3>1 DEF FaultIcode, mem_write
  <2> QED
    BY <2>1, <2>2
<1>5. cc' = cc
  BY DEF set_cc, IInv, StagesFollowProgram, CcPending
<1> QED
  BY <1>2, <1>3, <1>4, <1>5 DEF archvars

\* When memory raises no exception, the instruction there takes effect.
LEMMA Retires ==
    ASSUME IInv, Next, started, Handled, m_stat \notin Exception
    PROVE  /\ ~Excepting /\ arch_stat = "AOK"
           /\ arch_mem = mem' /\ arch_reg = writeBack'
           /\ M' = ex_mem_next /\ W'.stat \notin Exception
           /\ W'.icode = M.icode /\ W'.valM = m_valM
           /\ cc' = IF E.icode \in {"IOPQ"} \cup design.iaddq
                    THEN compute_cc(alufun, aluA, aluB) ELSE cc
<1>1. ~Excepting /\ arch_stat = "AOK"
  BY StepShape DEF Excepting, arch_stat
<1>2. arch_mem = mem'
  BY <1>1, StepShape DEF arch_mem
<1>3. W'.stat = m_stat /\ W'.icode = M.icode /\ W'.valM = m_valM
  BY StepShape DEF mem_wb_next
<1>4. cc' = IF E.icode \in {"IOPQ"} \cup design.iaddq
            THEN compute_cc(alufun, aluA, aluB) ELSE cc
  BY StepShape DEF set_cc, IInv, StagesFollowProgram, CcPending
<1> QED
  BY <1>1, <1>2, <1>3, <1>4, StepShape, WriteBackStep

\* A bubble in execute commits nothing: the next address is the same, whether
\* it is still in D, still to be fetched, or just returned by a ret.
LEMMA BubbleCommits ==
    ASSUME IInv, Next, started, Handled, m_stat \notin Exception, E.stat = "BUB"
    PROVE  UNCHANGED archvars
<1> USE StepShape, HandledControl
<1>1. E.icode = "INOP" /\ {E.dstE, E.dstM} = {RNONE}
  BY DEF IInv, StagesFollowProgram, BubblesAreNops
<1>2. /\ M'.icode = "INOP" /\ M'.stat = "BUB" /\ M'.dstE = RNONE /\ M'.dstM = RNONE
  BY <1>1, Retires DEF ex_mem_next, e_dstE
<1>3. ~mem_write' /\ m_stat' = "BUB"
  BY <1>2 DEF mem_write, mem_read, m_stat, dmem_error
<1>4. ~Excepting' /\ arch_stat' = "AOK"
  BY <1>3, Retires DEF Excepting, arch_stat, Exception
<1>5. arch_mem' = arch_mem
  BY <1>3, Retires DEF arch_mem
<1>6. arch_reg' = arch_reg
  BY <1>2, <1>4, NoneInert, Retires DEF arch_reg, Excepting
<1>7. cc' = cc
  BY <1>1, AddedOpcodes, Retires DEF IInv
<1>8. arch_pc' = arch_pc
  <2>1. ~load_use_stall /\ ~branch_bubble
    BY <1>1 DEF load_use, mispredicted
  <2>2. E' = id_ex_next /\ D' = IF ret_bubble THEN bubble_if_id ELSE if_id_next
    BY <2>1 DEF E_bubble, D_bubble
  <2>3. E'.stat = D.stat /\ E'.pc = D.pc
    BY <2>2 DEF id_ex_next
  <2>4. arch_pc = IF M.icode = "IRET" THEN m_valM
                  ELSE IF D.stat # "BUB" THEN D.pc ELSE f_pc
    BY Retires DEF arch_pc, Excepting
  <2>5. arch_pc' = IF D.stat # "BUB" THEN D.pc
                   ELSE IF D'.stat # "BUB" THEN D'.pc ELSE f_pc'
    BY <1>2, <1>4, <2>3 DEF arch_pc, Excepting
  <2>6. CASE M.icode = "IRET"
    <3>1. D.stat = "BUB" /\ D'.stat = "BUB"
      BY <2>2, <2>6, Path DEF Handled, ret_in_flight, bubble_if_id
    <3>2. f_pc' = m_valM
      BY <1>2, <2>6, Retires DEF f_pc
    <3> QED
      BY <2>4, <2>5, <2>6, <3>1, <3>2
  <2>7. CASE D.stat # "BUB"
    BY <2>4, <2>5, <2>7, Path DEF Handled
  <2>8. CASE M.icode # "IRET" /\ D.stat = "BUB"
    <3>1. D' = if_id_next
      BY <1>1, <2>2, <2>8, Path DEF Handled, ret_in_flight
    <3> QED
      BY <2>4, <2>5, <2>8, <3>1, FetchFacts DEF if_id_next
  <2> QED
    BY <2>6, <2>7, <2>8
<1> QED
  BY <1>4, <1>5, <1>6, <1>7, <1>8, Retires DEF archvars

(***************************************************************************)
(* Refinement: a cycle in which the instruction in execute commits.        *)
(***************************************************************************)

\* The instruction in execute enters memory.
Committing ==
    /\ Next /\ started /\ Handled /\ ~smc /\ ~OverwritesFetched
    /\ m_stat \notin Exception /\ E.stat # "BUB"

\* What the memory stage does next with the instruction that enters it.
LEMMA Enters ==
    ASSUME IInv, Committing
    PROVE  /\ arch_pc = E.pc /\ arch_stat = "AOK"
           /\ mem_read' <=> E.icode \in {"IMRMOVQ", "IPOPQ", "IRET"}
           /\ mem_write' <=> E.icode \in {"IRMMOVQ", "IPUSHQ", "ICALL"}
           /\ mem_addr' = IF E.icode \in {"IRMMOVQ", "IPUSHQ", "ICALL", "IMRMOVQ"}
                          THEN e_valE
                          ELSE IF E.icode \in {"IPOPQ", "IRET"} THEN e_valA ELSE 0
           /\ m_stat' = IF dmem_error' THEN "ADR" ELSE E.stat
           /\ m_valM' = IF mem_read' THEN get_word_val(arch_mem, mem_addr') ELSE 0
           /\ m_stat' \in Exception =>
                /\ arch_pc' = E.pc /\ arch_stat' = m_stat'
                /\ arch_reg' = arch_reg /\ arch_mem' = arch_mem
           /\ m_stat' \notin Exception =>
                /\ arch_stat' = "AOK"
                /\ arch_reg' = set_reg_val(set_reg_val(arch_reg, e_dstE, e_valE),
                                           E.dstM, m_valM')
                /\ arch_mem' = IF mem_write' THEN set_word_val(arch_mem, mem_addr', e_valA)
                               ELSE arch_mem
<1> USE DEF Committing
<1>1. M.icode # "IRET"
  BY Path DEF Handled
<1>2. arch_pc = E.pc /\ arch_stat = "AOK"
  BY <1>1, Retires DEF arch_pc, Excepting
<1>3. /\ M'.icode = E.icode /\ M'.valE = e_valE /\ M'.valA = e_valA /\ M'.pc = E.pc
      /\ M'.stat = E.stat /\ M'.dstE = e_dstE /\ M'.dstM = E.dstM
  BY Retires DEF ex_mem_next
<1>4. /\ mem_read' <=> E.icode \in {"IMRMOVQ", "IPOPQ", "IRET"}
      /\ mem_write' <=> E.icode \in {"IRMMOVQ", "IPUSHQ", "ICALL"}
      /\ mem_addr' = IF E.icode \in {"IRMMOVQ", "IPUSHQ", "ICALL", "IMRMOVQ"}
                     THEN e_valE
                     ELSE IF E.icode \in {"IPOPQ", "IRET"} THEN e_valA ELSE 0
  BY <1>3 DEF mem_read, mem_write, mem_addr
<1>5. m_stat' = IF dmem_error' THEN "ADR" ELSE E.stat
  BY <1>3 DEF m_stat
<1>6. m_valM' = IF mem_read' THEN get_word_val(arch_mem, mem_addr') ELSE 0
  BY Retires DEF m_valM
<1>7. ASSUME m_stat' \in Exception
      PROVE  /\ arch_pc' = E.pc /\ arch_stat' = m_stat'
             /\ arch_reg' = arch_reg /\ arch_mem' = arch_mem
  BY <1>3, <1>7, Retires DEF arch_pc, arch_stat, arch_reg, arch_mem, Excepting
<1>8. ASSUME m_stat' \notin Exception
      PROVE  /\ arch_stat' = "AOK"
             /\ arch_reg' = set_reg_val(set_reg_val(arch_reg, e_dstE, e_valE),
                                        E.dstM, m_valM')
             /\ arch_mem' = IF mem_write' THEN set_word_val(arch_mem, mem_addr', e_valA)
                            ELSE arch_mem
  BY <1>3, <1>8, Retires DEF arch_stat, arch_reg, arch_mem, Excepting
<1> QED
  BY <1>2, <1>4, <1>5, <1>6, <1>7, <1>8

\* Where the program goes from there: the return address, the fall-through of
\* a branch that was predicted wrongly, or the address predicted.
LEMMA NextAddress ==
    ASSUME IInv, Committing, m_stat' \notin Exception
    PROVE  arch_pc' = IF E.icode = "IRET" THEN m_valM'
                      ELSE IF mispredicted THEN E.valA ELSE predicted(E)
<1> USE HandledControl, StepShape DEF Committing
<1>1. /\ M'.icode = E.icode /\ M'.valA = e_valA /\ M'.Cnd = e_Cnd
      /\ W'.stat \notin Exception /\ W'.icode = M.icode
  BY Retires DEF ex_mem_next
<1>2. arch_pc' = IF E.icode = "IRET" THEN m_valM' ELSE IF E'.stat # "BUB" THEN E'.pc
                 ELSE IF D'.stat # "BUB" THEN D'.pc ELSE f_pc'
  BY <1>1 DEF arch_pc
<1>3. CASE E.icode = "IRET"
  BY <1>2, <1>3
<1>4. CASE E.icode # "IRET"
  <2>1. D.stat # "BUB"
    BY <1>4, Path DEF Handled
  <2>2. D.pc = predicted(E)
    BY <2>1 DEF Handled, IInv, StagesFollowProgram, ProgramOrder
  <2>3. CASE mispredicted
    <3>1. E'.stat = "BUB" /\ D'.stat = "BUB"
      BY <2>3 DEF E_bubble, D_bubble, load_use, mispredicted, bubble_id_ex, bubble_if_id
    <3>2. f_pc' = e_valA
      BY <1>1, <2>3 DEF f_pc, mispredicted
    <3>3. e_valA = E.valA
      BY <2>3 DEF e_valA, mispredicted
    <3> QED
      BY <1>2, <1>4, <2>3, <3>1, <3>2, <3>3
  <2>4. CASE ~mispredicted /\ load_use_stall
    <3>1. E'.stat = "BUB" /\ D' = D
      BY <2>4 DEF E_bubble, bubble_id_ex
    <3> QED
      BY <1>2, <1>4, <2>1, <2>2, <2>4, <3>1
  <2>5. CASE ~mispredicted /\ ~load_use_stall
    <3>1. E'.stat = D.stat /\ E'.pc = D.pc
      BY <2>5 DEF E_bubble, id_ex_next
    <3> QED
      BY <1>2, <1>4, <2>1, <2>2, <2>5, <3>1
  <2> QED
    BY <2>3, <2>4, <2>5
<1> QED
  BY <1>3, <1>4

\* The instruction that the ISA finds at the address of the one in execute.
imem == Decode[arch_mem[arch_pc]]

\* It is the one in execute, with the values of its registers.
LEMMA Decoded ==
    ASSUME IInv, Committing
    PROVE  /\ ~word_ok(arch_pc) => E.stat = "ADR" /\ E.icode = "INOP"
           /\ word_ok(arch_pc) =>
                /\ imem \in Instr /\ arch_mem[arch_pc] \in Word
                /\ E.icode = imem.icode /\ E.ifun = imem.ifun
                /\ imem.icode \in {"IIRMOVQ", "IRMMOVQ", "IMRMOVQ", "IJXX", "ICALL"}
                                    \cup design.iaddq => E.valC = imem.valC
                /\ E.stat = IF imem.icode \in {"INVALID"} \cup ({"IIADDQ"} \ design.iaddq)
                            THEN "INS" ELSE IF imem.icode = "IHALT" THEN "HLT" ELSE "AOK"
                /\ E.srcA = srcA(imem) /\ E.srcB = srcB(imem)
                /\ E.dstE = dstE(imem) /\ E.dstM = dstM(imem)
                /\ imem.icode \in {"ICALL", "IJXX"} => E.valA = Wrap(arch_pc + 1)
           /\ E.srcA \in RegId => e_valA = arch_reg[E.srcA]
           /\ E.srcB \in RegId => E.valB = arch_reg[E.srcB]
           /\ E.valA \in Word /\ E.valB \in Word
<1> USE DEF Committing
<1>1. arch_pc = E.pc /\ E.pc \in Word /\ E.valA \in Word /\ E.valB \in Word
  BY Enters DEF IInv, TypeOK, IdExEle
<1>2. /\ E.icode = fetch(E.pc).icode /\ E.ifun = fetch(E.pc).ifun
      /\ E.valC = fetch(E.pc).valC /\ E.stat = fetch(E.pc).stat
      /\ E.srcA = srcA(fetch(E.pc)) /\ E.srcB = srcB(fetch(E.pc))
      /\ E.dstE = dstE(fetch(E.pc)) /\ E.dstM = dstM(fetch(E.pc))
      /\ E.icode \in {"ICALL", "IJXX"} => E.valA = fetch(E.pc).valP
  BY DEF IInv, StagesFollowProgram, InstructionsCurrent
<1>3. ASSUME ~word_ok(E.pc) PROVE E.stat = "ADR" /\ E.icode = "INOP"
  BY <1>2, <1>3 DEF fetch
<1>4. ASSUME word_ok(E.pc)
      PROVE  /\ imem \in Instr /\ arch_mem[arch_pc] \in Word
             /\ E.icode = imem.icode /\ E.ifun = imem.ifun
             /\ imem.icode \in {"IIRMOVQ", "IRMMOVQ", "IMRMOVQ", "IJXX", "ICALL"}
                                 \cup design.iaddq => E.valC = imem.valC
             /\ E.stat = IF imem.icode \in {"INVALID"} \cup ({"IIADDQ"} \ design.iaddq)
                         THEN "INS" ELSE IF imem.icode = "IHALT" THEN "HLT" ELSE "AOK"
             /\ E.srcA = srcA(imem) /\ E.srcB = srcB(imem)
             /\ E.dstE = dstE(imem) /\ E.dstM = dstM(imem)
             /\ imem.icode \in {"ICALL", "IJXX"} => E.valA = Wrap(arch_pc + 1)
  <2>1. E.pc \in Addr
    BY <1>1, <1>4, ReadableAddress
  <2>2. arch_mem[E.pc] = mem[E.pc] /\ mem[E.pc] \in Word
    <3>1. mem_write => (dmem_error <=> ~word_ok(mem_addr))
      BY DEF dmem_error
    <3>2. ~(mem_write /\ ~dmem_error /\ mem_addr = E.pc)
      BY DEF OverwritesFetched
    <3> QED
      BY <2>1, <3>1, <3>2 DEF IInv, TypeOK, arch_mem, set_word_val
  <2>3. imem = Decode[mem[E.pc]] /\ imem \in Instr
    BY <1>1, <2>2, DecodeAssumption DEF imem
  <2>4. /\ fetch(E.pc).icode = imem.icode /\ fetch(E.pc).ifun = imem.ifun
        /\ imem.icode \in {"IIRMOVQ", "IRMMOVQ", "IMRMOVQ", "IJXX", "ICALL"}
                            \cup design.iaddq => fetch(E.pc).valC = imem.valC
        /\ fetch(E.pc).stat =
             IF imem.icode \in {"INVALID"} \cup ({"IIADDQ"} \ design.iaddq)
             THEN "INS" ELSE IF imem.icode = "IHALT" THEN "HLT" ELSE "AOK"
        /\ imem.icode \in {"IRRMOVQ", "IOPQ", "IPUSHQ", "IPOPQ", "IIRMOVQ", "IRMMOVQ",
                           "IMRMOVQ"} \cup design.iaddq
             => fetch(E.pc).rA = imem.rA /\ fetch(E.pc).rB = imem.rB
        /\ fetch(E.pc).valP = Wrap(E.pc + 1)
    BY <1>4, <2>3 DEF fetch
  <2>5. /\ srcA(fetch(E.pc)) = srcA(imem) /\ srcB(fetch(E.pc)) = srcB(imem)
        /\ dstE(fetch(E.pc)) = dstE(imem) /\ dstM(fetch(E.pc)) = dstM(imem)
    BY <2>4 DEF srcA, srcB, dstE, dstM
  <2> QED
    BY <1>1, <1>2, <2>2, <2>3, <2>4, <2>5
<1>5. /\ E.srcA \in RegId => e_valA = arch_reg[E.srcA]
      /\ E.srcB \in RegId => E.valB = arch_reg[E.srcB]
  BY Retires DEF IInv, OperandsCurrent, Handled
<1> QED
  BY <1>1, <1>3, <1>4, <1>5

(***************************************************************************)
(* What commits is what step_state does: one lemma per case of its switch. *)
(***************************************************************************)

\* The instance has its own copies of the operators of Y86: they are the same.
LEMMA ArchOperators ==
    /\ Arch!WordBytes = WordBytes /\ Arch!A_ADD = A_ADD
    /\ \A x : Arch!Wrap(x) = Wrap(x)
    /\ \A p : Arch!word_ok(p) <=> word_ok(p)
    /\ \A c, k : Arch!cond_holds(c, k) <=> cond_holds(c, k)
    /\ \A f, id : Arch!get_reg_val(f, id) = get_reg_val(f, id)
    /\ \A f, id, v : Arch!set_reg_val(f, id, v) = set_reg_val(f, id, v)
    /\ \A f, p, v : Arch!set_word_val(f, p, v) = set_word_val(f, p, v)
    /\ \A op, a, b : Arch!compute_alu(op, a, b) = compute_alu(op, a, b)
    /\ \A op, a, b : Arch!compute_cc(op, a, b) = compute_cc(op, a, b)
<1>1. Arch!WordBytes = WordBytes /\ Arch!A_ADD = A_ADD
  BY DEF WordBytes, Arch!WordBytes, A_ADD, Arch!A_ADD
<1>2. \A x : Arch!Wrap(x) = Wrap(x)
  BY DEF Wrap, Arch!Wrap
<1>3. \A p : Arch!word_ok(p) <=> word_ok(p)
  BY <1>1 DEF word_ok, Arch!word_ok
<1>4. \A c, k : Arch!cond_holds(c, k) <=> cond_holds(c, k)
  BY DEF cond_holds, Arch!cond_holds
<1>5. /\ \A f, id : Arch!get_reg_val(f, id) = get_reg_val(f, id)
      /\ \A f, id, v : Arch!set_reg_val(f, id, v) = set_reg_val(f, id, v)
  BY DEF get_reg_val, Arch!get_reg_val, set_reg_val, Arch!set_reg_val
<1>6. \A f, p, v : Arch!set_word_val(f, p, v) = set_word_val(f, p, v)
  BY <1>3 DEF set_word_val, Arch!set_word_val
<1>7. \A op, a, b : Arch!compute_alu(op, a, b) = compute_alu(op, a, b)
  BY <1>2 DEF compute_alu, Arch!compute_alu, A_ADD, A_SUB, A_AND, A_XOR,
     Arch!A_ADD, Arch!A_SUB, Arch!A_AND, Arch!A_XOR
<1>8. \A op, a, b, v : Arch!overflow(op, a, b, v) <=> overflow(op, a, b, v)
  BY DEF overflow, Arch!overflow, A_ADD, A_SUB, Arch!A_ADD, Arch!A_SUB
<1>9. \A op, a, b : Arch!compute_cc(op, a, b) = compute_cc(op, a, b)
  BY <1>7, <1>8 DEF compute_cc, Arch!compute_cc
<1> QED
  BY <1>1, <1>2, <1>3, <1>4, <1>5, <1>6, <1>7, <1>9

\* The registers that the instruction names.
LEMMA Named ==
    ASSUME IInv, WellEncoded, Committing, word_ok(arch_pc)
    PROVE  /\ imem.icode \in {"IRRMOVQ", "IRMMOVQ", "IMRMOVQ", "IOPQ", "IPUSHQ", "IPOPQ"}
                => imem.rA \in RegId
           /\ imem.icode \in {"IRRMOVQ", "IIRMOVQ", "IIADDQ", "IRMMOVQ", "IMRMOVQ", "IOPQ"}
                => imem.rB \in RegId
           /\ imem.icode \in Icode /\ imem.valC \in Word
BY Decoded DEF WellEncoded, NamesRegisters, imem, Instr

\* The fetched instruction in the words of the ISA.
LEMMA Arrives ==
    ASSUME IInv, Committing, word_ok(arch_pc)
    PROVE  /\ arch_stat = "AOK" /\ Arch!word_ok(arch_pc) /\ Arch!I = imem
           /\ Arch!ftpc = Wrap(arch_pc + 1) /\ Arch!rsp = arch_reg[RSP]
           /\ arch_reg \in [RegId -> Word]
           /\ \A id \in RegId : Arch!get_reg_val(arch_reg, id) = arch_reg[id]
           /\ Exception = {"ADR", "INS", "HLT"}
BY Enters, ArchOperators, RegAssumption, WriteBackStep
   DEF Committing, imem, Arch!I, Arch!ftpc, Arch!rsp, get_reg_val, Exception

\* Fetch errors, invalid instructions and halt.
LEMMA CommitFault ==
    ASSUME IInv, Committing, E.stat \in Exception
    PROVE  Arch!FetchError \/ Arch!Invalid \/ Arch!Halt \/ MissingIaddq
<1>1. E.icode \in FaultIcode
  BY DEF IInv, StagesFollowProgram, FetchExceptions
<1>2. m_stat' = E.stat
  BY <1>1, Enters DEF FaultIcode, dmem_error
<1>3. cc' = cc
  BY <1>1, AddedOpcodes, Retires DEF Committing, IInv, FaultIcode
<1>4. Arch!Fail(E.stat, arch_reg)
  BY <1>2, <1>3, Enters DEF Arch!Fail
<1>5. CASE ~word_ok(arch_pc)
  BY <1>4, <1>5, Enters, Decoded, ArchOperators DEF Arch!FetchError
<1>6. CASE word_ok(arch_pc)
  <2>1. E.stat = "INS" => imem.icode \in {"INVALID"} \cup ({"IIADDQ"} \ design.iaddq)
    BY <1>6, Decoded
  <2>2. E.stat = "HLT" => imem.icode = "IHALT"
    BY <1>6, Decoded
  <2>3. E.stat \in {"INS", "HLT"}
    BY <1>6, Decoded DEF Exception
  <2>4. "IIADDQ" \notin design.iaddq => design.iaddq = {}
    BY AddedOpcodes DEF IInv
  <2> QED
    BY <1>4, <1>6, <2>1, <2>2, <2>3, <2>4, Arrives DEF Arch!Invalid, Arch!Halt,
       Arch!Fetched, MissingIaddq
<1> QED
  BY <1>5, <1>6

\* An instruction that does not touch memory succeeds.
LEMMA NoMemory ==
    ASSUME IInv, Committing, E.stat \notin Exception,
           E.icode \notin {"IMRMOVQ", "IPOPQ", "IRET", "IRMMOVQ", "IPUSHQ", "ICALL"}
    PROVE  /\ m_stat' \notin Exception /\ arch_stat' = "AOK" /\ arch_mem' = arch_mem
           /\ arch_reg' = set_reg_val(set_reg_val(arch_reg, e_dstE, e_valE), E.dstM, m_valM')
           /\ arch_pc' = IF mispredicted THEN E.valA ELSE predicted(E)
BY Enters, NextAddress DEF dmem_error

\* The instruction that commits is `ic`, and it came through fetch well.
Commits(ic) ==
    /\ Committing /\ word_ok(arch_pc) /\ imem.icode = ic
    /\ ic \notin {"IHALT", "INVALID"} \cup ({"IIADDQ"} \ design.iaddq)

\* Its fields in execute.
LEMMA InExecute ==
    ASSUME IInv, WellEncoded, NEW ic, Commits(ic)
    PROVE  /\ Committing /\ word_ok(arch_pc) /\ imem.icode = ic
           /\ E.icode = ic /\ E.ifun = imem.ifun /\ E.stat = "AOK" /\ E.stat \notin Exception
           /\ E.dstE = dstE(imem) /\ E.dstM = dstM(imem)
           /\ Arch!Fetched(ic)
           /\ ic # "IIADDQ" => ic \notin design.iaddq
           /\ E.pc = arch_pc
<1>1. E.icode = ic /\ E.ifun = imem.ifun /\ E.stat = "AOK"
      /\ E.dstE = dstE(imem) /\ E.dstM = dstM(imem)
  BY Decoded DEF Commits
<1>2. Arch!Fetched(ic)
  BY Arrives DEF Commits, Arch!Fetched
<1> QED
  BY <1>1, <1>2, AddedOpcodes, Enters DEF IInv, Commits, Exception

\* nop.
LEMMA CommitNop ==
    ASSUME IInv, WellEncoded, Commits("INOP") PROVE Arch!Nop
<1> USE InExecute, NoneInert
<1>1. e_dstE = RNONE /\ E.dstM = RNONE /\ ~mispredicted
  BY DEF e_dstE, dstE, dstM, mispredicted
<1>2. arch_reg' = arch_reg /\ arch_mem' = arch_mem /\ arch_stat' = "AOK"
      /\ arch_pc' = Wrap(arch_pc + 1)
  BY <1>1, NoMemory DEF predicted
<1>3. cc' = cc
  BY Retires DEF Committing
<1> QED
  BY <1>2, <1>3, Arrives DEF Arch!Nop, Arch!Succeed

\* Moves, conditional or not.
LEMMA CommitRrmovq ==
    ASSUME IInv, WellEncoded, Commits("IRRMOVQ") PROVE Arch!Rrmovq
<1> USE InExecute, NoneInert
<1>1. imem.rA \in RegId /\ imem.rB \in RegId
  BY Named
<1>2. E.srcA = imem.rA /\ E.dstE = imem.rB /\ E.dstM = RNONE /\ ~mispredicted
  BY Decoded DEF srcA, dstE, dstM, mispredicted
<1>3. e_valE = arch_reg[imem.rA]
  <2>1. E.valA = e_valA
    BY DEF e_valA
  <2> QED
    BY <1>1, <1>2, <2>1, Decoded, AluPass DEF e_valE, alufun, aluA, aluB
<1>4. e_dstE = IF cond_holds(cc, imem.ifun) THEN imem.rB ELSE RNONE
  BY <1>2 DEF e_dstE, e_Cnd
<1>5. /\ arch_reg' = IF cond_holds(cc, imem.ifun)
                     THEN set_reg_val(arch_reg, imem.rB, arch_reg[imem.rA]) ELSE arch_reg
      /\ arch_mem' = arch_mem /\ arch_stat' = "AOK" /\ arch_pc' = Wrap(arch_pc + 1)
  BY <1>2, <1>3, <1>4, NoMemory DEF predicted
<1>6. cc' = cc
  BY Retires DEF Committing
<1> QED
  BY <1>1, <1>5, <1>6, Arrives, ArchOperators DEF Arch!Rrmovq, Arch!Succeed

\* irmovq.
LEMMA CommitIrmovq ==
    ASSUME IInv, WellEncoded, Commits("IIRMOVQ") PROVE Arch!Irmovq
<1> USE InExecute, NoneInert
<1>1. imem.rB \in RegId /\ imem.valC \in Word
  BY Named
<1>2. E.dstE = imem.rB /\ E.dstM = RNONE /\ E.valC = imem.valC /\ ~mispredicted
  BY Decoded DEF dstE, dstM, mispredicted
<1>3. e_valE = imem.valC /\ e_dstE = imem.rB
  BY <1>1, <1>2, AluPass DEF e_valE, alufun, aluA, aluB, e_dstE
<1>4. /\ arch_reg' = set_reg_val(arch_reg, imem.rB, imem.valC)
      /\ arch_mem' = arch_mem /\ arch_stat' = "AOK" /\ arch_pc' = Wrap(arch_pc + 1)
  BY <1>2, <1>3, NoMemory DEF predicted
<1>5. cc' = cc
  BY Retires DEF Committing
<1> QED
  BY <1>1, <1>4, <1>5, Arrives, ArchOperators DEF Arch!Irmovq, Arch!Succeed

\* The ALU instructions.
LEMMA CommitAlu ==
    ASSUME IInv, WellEncoded, Commits("IOPQ") PROVE Arch!Alu
<1> USE InExecute, NoneInert
<1>1. imem.rA \in RegId /\ imem.rB \in RegId
  BY Named
<1>2. /\ E.srcA = imem.rA /\ E.srcB = imem.rB /\ E.dstE = imem.rB /\ E.dstM = RNONE
      /\ ~mispredicted
  BY Decoded DEF srcA, srcB, dstE, dstM, mispredicted
<1>3. aluA = arch_reg[imem.rA] /\ aluB = arch_reg[imem.rB] /\ alufun = imem.ifun
  <2>1. E.valA = e_valA
    BY DEF e_valA
  <2> QED
    BY <1>1, <1>2, <2>1, Decoded DEF alufun, aluA, aluB
<1>4. /\ arch_reg' = set_reg_val(arch_reg, imem.rB, compute_alu(imem.ifun,
                                     arch_reg[imem.rA], arch_reg[imem.rB]))
      /\ arch_mem' = arch_mem /\ arch_stat' = "AOK" /\ arch_pc' = Wrap(arch_pc + 1)
  BY <1>2, <1>3, NoMemory DEF predicted, e_dstE, e_valE
<1>5. cc' = compute_cc(imem.ifun, arch_reg[imem.rA], arch_reg[imem.rB])
  BY <1>3, Retires DEF Committing
<1> QED
  BY <1>1, <1>4, <1>5, Arrives, ArchOperators DEF Arch!Alu, Arch!Succeed

\* iaddq, in the designs that have it.
LEMMA CommitIaddq ==
    ASSUME IInv, WellEncoded, Commits("IIADDQ") PROVE Arch!Iaddq
<1> USE InExecute, NoneInert
<1>1. imem.rB \in RegId /\ imem.valC \in Word /\ "IIADDQ" \in design.iaddq
  BY Named DEF Commits
<1>2. /\ E.srcB = imem.rB /\ E.dstE = imem.rB /\ E.dstM = RNONE
      /\ E.valC = imem.valC /\ ~mispredicted
  BY <1>1, Decoded DEF srcB, dstE, dstM, mispredicted
<1>3. aluA = imem.valC /\ aluB = arch_reg[imem.rB] /\ alufun = A_ADD
  BY <1>1, <1>2, Decoded DEF alufun, aluA, aluB
<1>4. e_valE = Wrap(arch_reg[imem.rB] + imem.valC)
  BY <1>1, <1>3, Arrives, AluStack DEF e_valE
<1>5. /\ arch_reg' = set_reg_val(arch_reg, imem.rB, Wrap(arch_reg[imem.rB] + imem.valC))
      /\ arch_mem' = arch_mem /\ arch_stat' = "AOK" /\ arch_pc' = Wrap(arch_pc + 1)
  BY <1>2, <1>4, NoMemory DEF predicted, e_dstE
<1>6. cc' = compute_cc(A_ADD, imem.valC, arch_reg[imem.rB])
  BY <1>1, <1>3, Retires DEF Committing
<1> QED
  BY <1>1, <1>5, <1>6, Arrives, ArchOperators DEF Arch!Iaddq, Arch!Succeed

\* Jumps, predicted rightly or wrongly.
LEMMA CommitJmp ==
    ASSUME IInv, WellEncoded, Commits("IJXX") PROVE Arch!Jmp
<1> USE InExecute, NoneInert
<1>1. /\ E.valC = imem.valC /\ E.dstE = RNONE /\ E.dstM = RNONE
      /\ E.valA = Wrap(arch_pc + 1)
  BY Decoded DEF dstE, dstM
<1>2. mispredicted <=> ~cond_holds(cc, imem.ifun)
  BY DEF mispredicted, e_Cnd
<1>3. /\ arch_pc' = IF cond_holds(cc, imem.ifun) THEN imem.valC ELSE Wrap(arch_pc + 1)
      /\ arch_reg' = arch_reg /\ arch_mem' = arch_mem /\ arch_stat' = "AOK"
  BY <1>1, <1>2, NoMemory DEF predicted, e_dstE
<1>4. cc' = cc
  BY Retires DEF Committing
<1> QED
  BY <1>3, <1>4, Arrives, ArchOperators DEF Arch!Jmp, Arch!Succeed

\* An instruction that touches memory succeeds when its address is good, and
\* otherwise changes the status alone.
LEMMA TouchesMemory ==
    ASSUME IInv, Committing, E.stat = "AOK",
           E.icode \in {"IMRMOVQ", "IPOPQ", "IRET", "IRMMOVQ", "IPUSHQ", "ICALL"}
    PROVE  /\ word_ok(mem_addr') =>
                /\ arch_stat' = "AOK"
                /\ arch_reg' = set_reg_val(set_reg_val(arch_reg, e_dstE, e_valE),
                                           E.dstM, m_valM')
                /\ arch_mem' = IF E.icode \in {"IRMMOVQ", "IPUSHQ", "ICALL"}
                               THEN set_word_val(arch_mem, mem_addr', e_valA) ELSE arch_mem
                /\ m_valM' = IF E.icode \in {"IRMMOVQ", "IPUSHQ", "ICALL"} THEN 0
                             ELSE arch_mem[mem_addr']
                /\ arch_pc' = IF E.icode = "IRET" THEN m_valM' ELSE predicted(E)
           /\ ~word_ok(mem_addr') =>
                Arch!Fail("ADR", arch_reg)
           /\ e_dstE = E.dstE
           /\ cc' = cc
<1>1. dmem_error' <=> ~word_ok(mem_addr')
  BY Enters DEF dmem_error
<1>2. cc' = cc
  BY Retires, AddedOpcodes DEF Committing, IInv
<1>3. e_dstE = E.dstE /\ ~mispredicted
  BY DEF e_dstE, mispredicted
<1>4. ASSUME ~word_ok(mem_addr') PROVE Arch!Fail("ADR", arch_reg)
  BY <1>1, <1>2, <1>4, Enters DEF Arch!Fail, Exception
<1>5. ASSUME word_ok(mem_addr') PROVE m_stat' \notin Exception
  BY <1>1, <1>5, Enters DEF Exception
<1> QED
  BY <1>1, <1>2, <1>3, <1>4, <1>5, Enters, NextAddress DEF get_word_val

\* The address a load or a store computes.
LEMMA DataAddress ==
    ASSUME IInv, WellEncoded, NEW ic \in {"IRMMOVQ", "IMRMOVQ"}, Commits(ic)
    PROVE  /\ mem_addr' = Arch!dataAddr
           /\ mem_addr' = Wrap(imem.valC + arch_reg[imem.rB])
           /\ E.dstE = RNONE
<1> USE InExecute
<1>1. imem.rB \in RegId
  BY Named
<1>2. E.srcB = imem.rB /\ E.valC = imem.valC /\ E.dstE = RNONE
  BY Decoded DEF srcB, dstE
<1>3. aluA = imem.valC /\ aluB = arch_reg[imem.rB] /\ alufun = A_ADD
  BY <1>1, <1>2, Decoded DEF alufun, aluA, aluB
<1>4. mem_addr' = Wrap(imem.valC + arch_reg[imem.rB])
  BY <1>3, AluAdd, Enters DEF e_valE
<1> QED
  BY <1>1, <1>2, <1>4, Arrives, ArchOperators DEF Arch!dataAddr

\* A store.
LEMMA CommitRmmovq ==
    ASSUME IInv, WellEncoded, Commits("IRMMOVQ") PROVE Arch!Rmmovq
<1> USE InExecute, NoneInert, DataAddress
<1>1. imem.rA \in RegId
  BY Named
<1>2. e_valA = arch_reg[imem.rA] /\ E.dstM = RNONE
  BY <1>1, Decoded DEF srcA, dstM
<1>3. CASE word_ok(mem_addr')
  <2>1. /\ arch_reg' = arch_reg /\ arch_stat' = "AOK"
        /\ arch_mem' = set_word_val(arch_mem, mem_addr', arch_reg[imem.rA])
        /\ arch_pc' = Wrap(arch_pc + 1) /\ cc' = cc
    BY <1>2, <1>3, TouchesMemory DEF predicted
  <2> QED
    BY <1>1, <1>3, <2>1, Arrives, ArchOperators DEF Arch!Rmmovq, Arch!Succeed
<1>4. CASE ~word_ok(mem_addr')
  BY <1>1, <1>4, TouchesMemory, Arrives, ArchOperators DEF Arch!Rmmovq
<1> QED
  BY <1>3, <1>4

\* A load.
LEMMA CommitMrmovq ==
    ASSUME IInv, WellEncoded, Commits("IMRMOVQ") PROVE Arch!Mrmovq
<1> USE InExecute, NoneInert, DataAddress
<1>1. imem.rA \in RegId /\ E.dstM = imem.rA
  BY Named DEF dstM
<1>2. CASE word_ok(mem_addr')
  <2>1. /\ arch_reg' = set_reg_val(arch_reg, imem.rA, arch_mem[mem_addr'])
        /\ arch_mem' = arch_mem /\ arch_stat' = "AOK"
        /\ arch_pc' = Wrap(arch_pc + 1) /\ cc' = cc
    BY <1>1, <1>2, TouchesMemory DEF predicted
  <2> QED
    BY <1>1, <1>2, <2>1, Arrives, ArchOperators DEF Arch!Mrmovq, Arch!Succeed
<1>3. CASE ~word_ok(mem_addr')
  BY <1>1, <1>3, TouchesMemory, Arrives, ArchOperators DEF Arch!Mrmovq
<1> QED
  BY <1>2, <1>3

\* call and pushq compute the new top of the stack, ret and popq the new
\* bottom, and access the old one.
LEMMA StackAddress ==
    ASSUME IInv, WellEncoded, NEW ic \in {"ICALL", "IPUSHQ", "IRET", "IPOPQ"}, Commits(ic)
    PROVE  /\ E.dstE = RSP
           /\ ic \in {"ICALL", "IPUSHQ"} => e_valE = Wrap(arch_reg[RSP] - WordBytes)
                                            /\ mem_addr' = e_valE
           /\ ic \in {"IRET", "IPOPQ"} => e_valE = Wrap(arch_reg[RSP] + WordBytes)
                                          /\ mem_addr' = arch_reg[RSP]
<1> USE InExecute, RegAssumption
<1>1. E.srcB = RSP /\ E.dstE = RSP /\ (ic \in {"IRET", "IPOPQ"} => E.srcA = RSP)
  BY Decoded DEF srcA, srcB, dstE
<1>2. aluB = arch_reg[RSP] /\ arch_reg[RSP] \in Word /\ alufun = A_ADD
  BY <1>1, Decoded DEF aluB, alufun
<1>3. ic \in {"ICALL", "IPUSHQ"} => e_valE = Wrap(arch_reg[RSP] - WordBytes)
  BY <1>2, AluStack, AddedOpcodes, SmallWords DEF IInv, e_valE, aluA
<1>4. ic \in {"IRET", "IPOPQ"} => e_valE = Wrap(arch_reg[RSP] + WordBytes)
  BY <1>2, AluStack, AddedOpcodes, SmallWords DEF IInv, e_valE, aluA
<1> QED
  BY <1>1, <1>3, <1>4, Decoded, Enters

\* call.
LEMMA CommitCall ==
    ASSUME IInv, WellEncoded, Commits("ICALL") PROVE Arch!Call \/ Arch!PreciseStackFault
<1> USE InExecute, NoneInert, StackAddress
<1>1. /\ E.dstM = RNONE /\ E.valC = imem.valC /\ E.valA = Wrap(arch_pc + 1)
      /\ e_valA = E.valA
  BY Decoded DEF dstM, e_valA
<1>2. CASE word_ok(mem_addr')
  <2>1. /\ arch_reg' = set_reg_val(arch_reg, RSP, Wrap(arch_reg[RSP] - WordBytes))
        /\ arch_mem' = set_word_val(arch_mem, mem_addr', Wrap(arch_pc + 1))
        /\ arch_stat' = "AOK" /\ arch_pc' = imem.valC /\ cc' = cc
    BY <1>1, <1>2, TouchesMemory DEF predicted
  <2> QED
    BY <1>2, <2>1, Arrives, ArchOperators DEF Arch!Call, Arch!Succeed
<1>3. CASE ~word_ok(mem_addr')
  BY <1>3, TouchesMemory, Arrives, ArchOperators DEF Arch!PreciseStackFault
<1> QED
  BY <1>2, <1>3

\* ret.
LEMMA CommitRet ==
    ASSUME IInv, WellEncoded, Commits("IRET") PROVE Arch!Ret
<1> USE InExecute, NoneInert, StackAddress
<1>1. E.dstM = RNONE
  BY DEF dstM
<1>2. CASE word_ok(mem_addr')
  <2>1. /\ arch_reg' = set_reg_val(arch_reg, RSP, Wrap(arch_reg[RSP] + WordBytes))
        /\ arch_mem' = arch_mem /\ arch_stat' = "AOK"
        /\ arch_pc' = arch_mem[arch_reg[RSP]] /\ cc' = cc
    BY <1>1, <1>2, TouchesMemory
  <2> QED
    BY <1>2, <2>1, Arrives, ArchOperators DEF Arch!Ret, Arch!Succeed
<1>3. CASE ~word_ok(mem_addr')
  BY <1>3, TouchesMemory, Arrives, ArchOperators DEF Arch!Ret
<1> QED
  BY <1>2, <1>3

\* pushq, of %rsp too.
LEMMA CommitPushq ==
    ASSUME IInv, WellEncoded, Commits("IPUSHQ") PROVE Arch!Pushq \/ Arch!PreciseStackFault
<1> USE InExecute, NoneInert, StackAddress
<1>1. imem.rA \in RegId
  BY Named
<1>2. e_valA = arch_reg[imem.rA] /\ E.dstM = RNONE
  BY <1>1, Decoded DEF srcA, dstM
<1>3. CASE word_ok(mem_addr')
  <2>1. /\ arch_reg' = set_reg_val(arch_reg, RSP, Wrap(arch_reg[RSP] - WordBytes))
        /\ arch_mem' = set_word_val(arch_mem, mem_addr', arch_reg[imem.rA])
        /\ arch_stat' = "AOK" /\ arch_pc' = Wrap(arch_pc + 1) /\ cc' = cc
    BY <1>2, <1>3, TouchesMemory DEF predicted
  <2> QED
    BY <1>1, <1>3, <2>1, Arrives, ArchOperators DEF Arch!Pushq, Arch!Succeed
<1>4. CASE ~word_ok(mem_addr')
  BY <1>4, TouchesMemory, Arrives, ArchOperators DEF Arch!PreciseStackFault
<1> QED
  BY <1>3, <1>4

\* popq, into %rsp too.
LEMMA CommitPopq ==
    ASSUME IInv, WellEncoded, Commits("IPOPQ") PROVE Arch!Popq \/ Arch!PreciseStackFault
<1> USE InExecute, NoneInert, StackAddress
<1>1. imem.rA \in RegId /\ E.dstM = imem.rA
  BY Named DEF dstM
<1>2. CASE word_ok(mem_addr')
  <2>1. /\ arch_reg' = set_reg_val(set_reg_val(arch_reg, RSP, Wrap(arch_reg[RSP] + WordBytes)),
                                   imem.rA, arch_mem[arch_reg[RSP]])
        /\ arch_mem' = arch_mem /\ arch_stat' = "AOK"
        /\ arch_pc' = Wrap(arch_pc + 1) /\ cc' = cc
    BY <1>1, <1>2, TouchesMemory DEF predicted
  <2> QED
    BY <1>1, <1>2, <2>1, Arrives, ArchOperators DEF Arch!Popq, Arch!Succeed
<1>3. CASE ~word_ok(mem_addr')
  BY <1>3, TouchesMemory, Arrives, ArchOperators DEF Arch!PreciseStackFault
<1> QED
  BY <1>2, <1>3

(***************************************************************************)
(* Refinement.                                                             *)
(***************************************************************************)

\* The instruction that commits executes as one step of the ISA.
LEMMA CommitSimulates ==
    ASSUME IInv, WellEncoded, Committing
    PROVE  Arch!Next \/ Arch!PreciseStackFault \/ MissingIaddq
<1>1. CASE E.stat \in Exception
  BY <1>1, CommitFault DEF Arch!Next
<1>2. CASE E.stat \notin Exception
  <2>1. word_ok(arch_pc)
    BY <1>2, Decoded DEF Exception
  <2>2. imem.icode \notin {"IHALT", "INVALID"} \cup ({"IIADDQ"} \ design.iaddq)
    BY <1>2, <2>1, Decoded DEF Exception
  <2>3. imem.icode \in Icode /\ Commits(imem.icode)
    BY <2>1, <2>2, Named DEF Commits
  <2>4. imem.icode \in {"INOP", "IRRMOVQ", "IIRMOVQ", "IOPQ", "IIADDQ", "IJXX"}
          => Arch!Next
    BY <2>3, CommitNop, CommitRrmovq, CommitIrmovq, CommitAlu, CommitIaddq, CommitJmp
       DEF Arch!Next
  <2>5. imem.icode \in {"IRMMOVQ", "IMRMOVQ", "ICALL", "IRET", "IPUSHQ", "IPOPQ"}
          => Arch!Next \/ Arch!PreciseStackFault
    BY <2>3, CommitRmmovq, CommitMrmovq, CommitCall, CommitRet, CommitPushq, CommitPopq
       DEF Arch!Next
  <2> QED
    BY <2>2, <2>3, <2>4, <2>5 DEF Icode
<1> QED
  BY <1>1, <1>2

\* A cycle executes one instruction, or none.
LEMMA CycleSimulates ==
    ASSUME IInv, WellEncoded, INext, ~smc', ~unhandled'
    PROVE  Arch!Next \/ Arch!PreciseStackFault \/ MissingIaddq \/ UNCHANGED Arch!vars
<1>1. Next /\ Handled /\ ~smc /\ ~OverwritesFetched
  BY DEF INext, Handled
<1>2. UNCHANGED archvars => UNCHANGED Arch!vars
  BY DEF archvars, Arch!vars
<1>3. CASE ~started
  <2>1. UNCHANGED archvars
    BY <1>1, <1>3, FirstStep DEF archvars, arch_pc, arch_reg, arch_mem, arch_stat,
       Excepting, m_stat, m_valM, dmem_error, mem_read, mem_write, mem_addr, f_pc, writeBack
  <2> QED
    BY <1>2, <2>1
<1>4. CASE started /\ m_stat \in Exception
  BY <1>1, <1>2, <1>4, FaultRetires
<1>5. CASE started /\ m_stat \notin Exception /\ E.stat = "BUB"
  BY <1>1, <1>2, <1>5, BubbleCommits
<1>6. CASE started /\ m_stat \notin Exception /\ E.stat # "BUB"
  BY <1>1, <1>6, CommitSimulates DEF Committing
<1> QED
  BY <1>3, <1>4, <1>5, <1>6

\* PIPE implements the instruction-set machine: in every design, for every
\* word size, memory and register file, every cycle of a program whose
\* instructions name their registers executes one instruction of the ISA or
\* none, as long as no store has hit a fetched instruction and the program has
\* met no hazard that the design leaves to it.
THEOREM PipeRefinesISA == ASSUME WellEncoded PROVE ISpec => ImplementsISA
<1>1. IInv /\ [INext]_ivars =>
        [~smc' /\ ~unhandled' =>
           [Arch!Next \/ Arch!PreciseStackFault \/ MissingIaddq]_(Arch!vars)]_ivars
  BY CycleSimulates
<1> QED
  BY <1>1, Invariant, PTL DEF ISpec, ImplementsISA

-----------------------------------------------------------------------------
(***************************************************************************)
(* psim -g.  The machine goes on after an exception, where IInv ends: D, E *)
(* and F run on, but nothing gets past them, and the excepting instruction *)
(* stays in write-back until a restart.                                    *)
(***************************************************************************)
Frozen ==
  /\ TypeOK /\ started /\ W.stat \in Exception
  /\ M.icode = "INOP" /\ M.stat = "BUB"
  /\ cc_in = cc

\* The state after sim_reset.
Fresh == design \in Design /\ mem \in [Addr -> Word] /\ sim_reset(mem)

SessionInv ==
  /\ post_load_mem \in [Addr -> Word]
  /\ IF W.stat \in Exception THEN Frozen ELSE IInv
  /\ ~idle => Fresh
  /\ cmd = "label" => mem = post_load_mem

LEMMA InvFreezes == ASSUME IInv, W.stat \in Exception PROVE Frozen
<1>1. started
  BY DEF IInv, StagesFollowProgram, ResetIsEmpty, bubble_mem_wb, Exception
<1>2. M.stat = "BUB" /\ M.icode = "INOP"
  BY DEF IInv, StagesFollowProgram, FetchExceptions, BubblesAreNops
<1>3. cc_in = cc
  BY DEF IInv, StagesFollowProgram, CcPending, set_cc
<1> QED
  BY <1>1, <1>2, <1>3 DEF IInv, Frozen

\* A cycle after the exception writes the registers of the excepting
\* instruction and changes nothing else that counts.
LEMMA FrozenStep ==
    ASSUME Frozen, Cycle(TRUE, TRUE)
    PROVE  /\ Frozen' /\ W' = W
           /\ reg' = writeBack /\ mem' = mem /\ cc' = cc
<1>1. TypeOK'
  BY CycleType DEF Frozen
<1>2. loadFromStages /\ started' /\ reg' = writeBack
  BY DEF Cycle, update_state, Frozen
<1>3. W' = W
  BY <1>2 DEF loadFromStages, Frozen, W_stall, W_bubble, pipe_cntl, update_pipe
<1>4. M' = bubble_ex_mem
  BY <1>2 DEF loadFromStages, Frozen, M_stall, M_bubble, pipe_cntl, update_pipe
<1>5. mem' = mem /\ cc' = cc
  BY DEF Cycle, update_state, Frozen, mem_write
<1>6. ~set_cc'
  BY <1>3 DEF set_cc, Frozen
<1>7. cc_in' = cc_in
  BY <1>6 DEF Cycle
<1> QED
  BY <1>1, <1>2, <1>3, <1>4, <1>5, <1>7 DEF Frozen, bubble_ex_mem

LEMMA FreshInv == Fresh => IInv
<1> SUFFICES ASSUME Fresh PROVE IInv
  OBVIOUS
<1>1. TypeOK /\ ~started
  <2>1. 0 \in Word /\ DEFAULT_CC \in CC
    BY SmallWords DEF DEFAULT_CC, CC
  <2> QED
    BY <2>1, BubbleType DEF Fresh, sim_reset, TypeOK
<1>2. /\ D = bubble_if_id /\ E = bubble_id_ex /\ M = bubble_ex_mem /\ W = bubble_mem_wb
      /\ cc = cc_in
  BY DEF Fresh, sim_reset
<1> QED
  BY <1>1, <1>2, EmptyInv

\* It is the start of the instruction-set machine.
FreshArch ==
  /\ W.stat \notin Exception
  /\ arch_pc = 0 /\ arch_reg = [id \in RegId |-> 0] /\ arch_mem = mem
  /\ cc = DEFAULT_CC /\ arch_stat = "AOK"

LEMMA FreshIsStart == Fresh => FreshArch
<1> SUFFICES ASSUME Fresh PROVE FreshArch
  OBVIOUS
<1>1. /\ F_predPC = 0 /\ D.stat = "BUB" /\ E.stat = "BUB"
      /\ M.stat = "BUB" /\ M.icode = "INOP" /\ M.dstE = RNONE /\ M.dstM = RNONE
      /\ W.stat = "BUB" /\ W.icode = "INOP" /\ W.dstE = RNONE /\ W.dstM = RNONE
      /\ reg = [id \in RegId |-> 0] /\ cc = DEFAULT_CC
  BY DEF Fresh, sim_reset, bubble_if_id, bubble_id_ex, bubble_ex_mem, bubble_mem_wb
<1>2. \A v : set_reg_val(reg, RNONE, v) = reg
  BY RegAssumption DEF set_reg_val
<1>3. writeBack = reg
  BY <1>1, <1>2 DEF writeBack
<1>4. ~mem_read /\ ~mem_write /\ m_stat = "BUB" /\ ~Excepting
  BY <1>1 DEF mem_read, mem_write, m_stat, dmem_error, Excepting, Exception
<1>5. arch_reg = reg
  BY <1>1, <1>2, <1>3, <1>4 DEF arch_reg, Excepting
<1>6. arch_pc = 0
  BY <1>1, <1>4 DEF arch_pc, f_pc, Excepting
<1> QED
  BY <1>1, <1>4, <1>5, <1>6 DEF FreshArch, arch_mem, arch_stat, Excepting, Exception

\* A command that resets leaves the fresh machine, over any memory of words.
LEMMA ResetFresh == ASSUME SessionInv, resetMachine PROVE Fresh' /\ mem' = mem
<1>1. TypeOK
  BY DEF SessionInv, Frozen, IInv
<1> QED
  BY <1>1 DEF Fresh, sim_reset, resetMachine, TypeOK

LEMMA NewMemoryFresh ==
    ASSUME Fresh, NEW image \in [Addr -> Word], mem' = image,
           UNCHANGED <<design, pipeRegs, reg, cc, cc_in, started>>
    PROVE  Fresh'
BY DEF Fresh, sim_reset, pipeRegs

LEMMA SessionMemory == SessionInv => mem \in [Addr -> Word]
BY DEF SessionInv, Frozen, IInv, TypeOK

LEMMA LoadedMemory ==
    ASSUME SessionInv, NEW file \in Files
    PROVE  load_over(mem, file) \in [Addr -> Word]
BY FilesAssumption, SessionMemory DEF load_over

\* A cycle of the machine, whatever command or loop performs it.
LEMMA RunKeeps ==
    ASSUME SessionInv, idle, simRun
    PROVE  SessionInv'
<1>1. /\ Cycle(TRUE, TRUE) /\ post_load_mem' = post_load_mem /\ idle'
      /\ smc' = (smc \/ OverwritesFetched) /\ unhandled' = (unhandled \/ HazardUnhandled)
  BY DEF simRun, idle
<1>2. CASE W.stat \in Exception
  BY <1>1, <1>2, FrozenStep DEF SessionInv, Frozen, idle
<1>3. CASE W.stat \notin Exception
  <2>1. IInv /\ INext
    <3>1. IInv
      BY <1>3 DEF SessionInv
    <3>2. Stat = "AOK"
      BY <1>3, <3>1 DEF Stat, IInv, TypeOK, MemWbEle, Status, NoPip, Exception
    <3> QED
      BY <1>1, <3>1, <3>2 DEF INext, Next
  <2>2. IInv'
    BY <2>1, InvFirstStep, InvStep
  <2>3. (IInv /\ W.stat \in Exception => Frozen)'
    BY InvFreezes, PTL
  <2> QED
    BY <1>1, <2>2, <2>3 DEF SessionInv, idle
<1> QED
  BY <1>2, <1>3

\* A step of Load or Reset leaves the machine fresh, whatever it was.
LEMMA FreshKeeps ==
    ASSUME Fresh', (post_load_mem \in [Addr -> Word])', (cmd = "label" => mem = post_load_mem)'
    PROVE  SessionInv'
<1>1. (Fresh => IInv)' /\ (Fresh => FreshArch)'
  BY FreshInv, FreshIsStart, PTL
<1> QED
  BY <1>1 DEF SessionInv, FreshArch

LEMMA ResetKeeps ==
    ASSUME SessionInv, resetMachine, UNCHANGED post_load_mem, cmd' # "label"
    PROVE  SessionInv'
BY ResetFresh, FreshKeeps DEF SessionInv

LEMMA LoadMemKeeps == ASSUME SessionInv, LoadMem PROVE SessionInv'
<1>1. PICK file \in Files : mem' = load_over(mem, file)
  BY DEF LoadMem
<1>2. mem' \in [Addr -> Word] /\ post_load_mem' = mem' /\ cmd' # "label" /\ Fresh
  BY <1>1, LoadedMemory DEF LoadMem, SessionInv, idle
<1>3. Fresh'
  BY <1>2, NewMemoryFresh DEF LoadMem
<1> QED
  BY <1>2, <1>3, FreshKeeps

LEMMA PutBackFresh == ASSUME SessionInv, PutBack PROVE Fresh' /\ mem' = post_load_mem'
<1>1. mem' = post_load_mem /\ post_load_mem' = post_load_mem /\ Fresh
  BY DEF PutBack, SessionInv, idle
<1>2. UNCHANGED <<design, pipeRegs, reg, cc, cc_in, started>>
  BY DEF PutBack
<1> QED
  BY <1>1, <1>2, NewMemoryFresh DEF SessionInv

LEMMA PutBackKeeps == ASSUME SessionInv, PutBack PROVE SessionInv'
<1>1. post_load_mem' = post_load_mem
  BY DEF PutBack
<1> QED
  BY <1>1, PutBackFresh, FreshKeeps DEF SessionInv

LEMMA IdleKeeps ==
    ASSUME SessionInv, UNCHANGED <<ivars, post_load_mem>>, cmd' = cmd \/ idle'
    PROVE  SessionInv'
<1>1. ~idle' => Fresh'
  BY DEF SessionInv, Fresh, sim_reset, idle, ivars, vars
<1>2. CASE W.stat \in Exception
  BY <1>1, <1>2 DEF SessionInv, Frozen, TypeOK, idle, ivars, vars
<1>3. CASE W.stat \notin Exception
  <2>1. IInv'
    BY <1>3, InvStutter DEF SessionInv
  <2> QED
    BY <1>1, <1>3, <2>1 DEF SessionInv, idle, ivars, vars
<1> QED
  BY <1>2, <1>3

\* What the user or a loop of simGo can make of the machine.
LEMMA SessionSteps ==
    ASSUME [GuiNext]_gvars
    PROVE  \/ simRun /\ idle /\ idle'
           \/ resetMachine /\ UNCHANGED post_load_mem /\ cmd' \in {"load", "restore"}
           \/ LoadMem
           \/ PutBack
           \/ ClearLabels
           \/ UNCHANGED <<ivars, post_load_mem, cmd>>
<1>1. ASSUME Button PROVE \/ simRun /\ idle /\ idle'
                          \/ resetMachine /\ UNCHANGED post_load_mem /\ cmd' \in {"load", "restore"}
                          \/ UNCHANGED <<ivars, post_load_mem, cmd>>
  <2>1. CASE Load \/ Reset
    BY <2>1 DEF Load, Reset, simResetAll, idle
  <2>2. CASE Step \/ Go
    BY <2>2 DEF Step, Go, goOn, simRun, idle
  <2>3. CASE LoadFails \/ Stop
    BY <2>3 DEF LoadFails, Stop, machine
  <2> QED
    BY <1>1, <2>1, <2>2, <2>3 DEF Button
<1>2. ASSUME GoCycle PROVE simRun /\ idle /\ idle'
  BY <1>2 DEF GoCycle, goOn, simRun, idle
<1>3. ASSUME GoReturn \/ UNCHANGED gvars PROVE UNCHANGED <<ivars, post_load_mem, cmd>>
  BY <1>3 DEF GoReturn, gvars, machine
<1>4. ASSUME ResetLoaded PROVE resetMachine /\ UNCHANGED post_load_mem /\ cmd' \in {"load", "restore"}
  BY <1>4 DEF ResetLoaded, simResetAll, idle
<1> QED
  BY <1>1, <1>2, <1>3, <1>4 DEF GuiNext, Finish

LEMMA SessionInvariant == GuiSpec => []SessionInv
<1>1. GuiInit => SessionInv
  <2> SUFFICES ASSUME GuiInit PROVE SessionInv
    OBVIOUS
  <2>1. IInv
    BY InvInit DEF GuiInit
  <2>2. post_load_mem \in [Addr -> Word] /\ idle
    BY <2>1 DEF IInv, TypeOK, GuiInit, idle
  <2> QED
    BY <2>1, <2>2, InvFreezes DEF SessionInv, idle
<1>2. SessionInv /\ [GuiNext]_gvars => SessionInv'
  <2> SUFFICES ASSUME SessionInv, [GuiNext]_gvars PROVE SessionInv'
    OBVIOUS
  <2>1. ASSUME ClearLabels PROVE SessionInv'
    BY <2>1, IdleKeeps DEF ClearLabels, machine, idle
  <2>2. ASSUME UNCHANGED <<ivars, post_load_mem, cmd>> PROVE SessionInv'
    BY <2>2, IdleKeeps
  <2>3. ASSUME simRun, idle PROVE SessionInv'
    BY <2>3, RunKeeps
  <2>4. ASSUME resetMachine, UNCHANGED post_load_mem, cmd' # "label" PROVE SessionInv'
    BY <2>4, ResetKeeps
  <2>5. ASSUME LoadMem \/ PutBack PROVE SessionInv'
    BY <2>5, LoadMemKeeps, PutBackKeeps
  <2> QED
    BY <2>1, <2>2, <2>3, <2>4, <2>5, SessionSteps
<1> QED
  BY <1>1, <1>2, PTL DEF GuiSpec

\* What the refinement says of one step.
SessionStep ==
  \/ Arch!Next \/ Arch!PreciseStackFault \/ MissingIaddq
  \/ LateWriteback

LEMMA ArchStays ==
    ASSUME UNCHANGED ivars PROVE UNCHANGED <<arch_pc, arch_reg, arch_mem, cc, arch_stat>>
BY DEF ivars, vars, arch_pc, arch_reg, arch_mem, arch_stat, Excepting,
   m_stat, m_valM, dmem_error, mem_read, mem_write, mem_addr, f_pc, writeBack

LEMMA RunSimulates ==
    ASSUME SessionInv, WellEncoded, simRun, ~smc', ~unhandled'
    PROVE  SessionStep \/ UNCHANGED Arch!vars
<1>1. /\ Cycle(TRUE, TRUE)
      /\ smc' = (smc \/ OverwritesFetched) /\ unhandled' = (unhandled \/ HazardUnhandled)
  BY DEF simRun
<1>2. CASE W.stat \in Exception
  <2>1. Frozen /\ W' = W /\ reg' = writeBack /\ mem' = mem /\ cc' = cc
    BY <1>1, <1>2, FrozenStep DEF SessionInv
  <2>2. /\ arch_pc' = arch_pc /\ arch_stat' = arch_stat
        /\ arch_mem' = arch_mem /\ arch_reg' = writeBack
    BY <1>2, <2>1 DEF arch_pc, arch_stat, arch_mem, arch_reg, Excepting
  <2> QED
    BY <1>2, <2>1, <2>2 DEF SessionStep, LateWriteback
<1>3. CASE W.stat \notin Exception
  <2>1. IInv
    BY <1>3 DEF SessionInv
  <2>2. Stat = "AOK"
    BY <1>3, <2>1 DEF Stat, IInv, TypeOK, MemWbEle, Status, NoPip, Exception
  <2>3. INext
    BY <1>1, <2>2 DEF INext, Next
  <2> QED
    BY <2>1, <2>3, CycleSimulates DEF SessionStep
<1> QED
  BY <1>2, <1>3

\* A command ends on the fresh machine, over the image of the last load.
LEMMA CommandRestarts == ASSUME SessionInv, ClearLabels PROVE Restarted'
<1>1. Fresh /\ mem = post_load_mem
  BY DEF SessionInv, ClearLabels, idle
<1>2. Restarted
  BY <1>1, FreshIsStart DEF Restarted, FreshArch
<1>3. UNCHANGED <<arch_pc, arch_reg, arch_mem, cc, arch_stat>> /\ post_load_mem' = post_load_mem
  BY ArchStays DEF ClearLabels, machine
<1> QED
  BY <1>2, <1>3 DEF Restarted

\* What a step of the session does to what the user sees of the program.
SessionMoves ==
  /\ idle /\ idle' /\ ~smc' /\ ~unhandled' => SessionStep \/ UNCHANGED Arch!vars
  /\ ~idle /\ idle' => Restarted'
  /\ post_load_mem' # post_load_mem =>
       \E file \in Files : post_load_mem' = load_over(mem, file)

\* Whatever buttons are pressed, whenever, in front of any design of PIPE and
\* any files: between commands the state the user sees moves by whole
\* instructions and the late write-back of an excepting instruction, and a
\* Reset or Load ends on the machine that has not run yet.
THEOREM SessionRefinesISA == ASSUME WellEncoded PROVE GuiSpec => SessionIsISA
<1>1. SessionInv /\ [GuiNext]_gvars => SessionMoves
  <2> SUFFICES ASSUME SessionInv, [GuiNext]_gvars PROVE SessionMoves
    OBVIOUS
  <2>1. CASE simRun /\ idle /\ idle'
    <3>1. post_load_mem' = post_load_mem
      BY <2>1 DEF simRun
    <3> QED
      BY <2>1, <3>1, RunSimulates DEF SessionMoves
  <2>2. CASE resetMachine /\ UNCHANGED post_load_mem /\ cmd' \in {"load", "restore"}
    BY <2>2 DEF SessionMoves, idle
  <2>3. CASE LoadMem
    BY <2>3 DEF LoadMem, SessionMoves, idle
  <2>4. CASE PutBack
    BY <2>4 DEF PutBack, SessionMoves, idle
  <2>5. CASE ClearLabels
    <3>1. ~idle /\ post_load_mem' = post_load_mem
      BY <2>5 DEF ClearLabels, idle
    <3> QED
      BY <2>5, <3>1, CommandRestarts DEF SessionMoves
  <2>6. CASE UNCHANGED <<ivars, post_load_mem, cmd>>
    <3>1. UNCHANGED Arch!vars
      BY <2>6, ArchStays DEF Arch!vars
    <3> QED
      BY <2>6, <3>1 DEF SessionMoves, idle
  <2> QED
    BY <2>1, <2>2, <2>3, <2>4, <2>5, <2>6, SessionSteps
<1>2. SessionMoves =>
        [/\ idle /\ idle' /\ ~smc' /\ ~unhandled' =>
             [\/ Arch!Next \/ Arch!PreciseStackFault \/ MissingIaddq
              \/ LateWriteback]_(Arch!vars)
         /\ ~idle /\ idle' => Restarted'
         /\ post_load_mem' # post_load_mem =>
              \E file \in Files : post_load_mem' = load_over(mem, file)]_gvars
  BY DEF SessionMoves, SessionStep
<1> QED
  BY <1>1, <1>2, SessionInvariant, PTL DEF GuiSpec, SessionIsISA

-----------------------------------------------------------------------------
(***************************************************************************)
(* What the windows show.                                                  *)
(***************************************************************************)

LEMMA RegistersReported ==
    ASSUME SessionInv, DisplayCurrent, simRun
    PROVE  \A id \in RegId :
             (reg'[id] = textOf(shownReg', id)) \/ (id \notin Cleared /\ reg'[id] = 0)
<1>1. shownReg' = signal_register_update(shownReg) /\ reg' = IF started THEN writeBack ELSE reg
  BY DEF simRun, Cycle, update_state
<1>2. \A id \in RegId : (reg[id] = textOf(shownReg, id)) \/ (id \notin Cleared /\ reg[id] = 0)
  BY DEF DisplayCurrent
<1>3. TypeOK
  BY DEF SessionInv, Frozen, IInv
<1>4. ASSUME NEW id \in RegId, started, id \notin {W.dstE, W.dstM}
      PROVE  writeBack[id] = reg[id]
  <2>1. DOMAIN reg = RegId
    BY <1>3 DEF TypeOK
  <2>2. ASSUME NEW f, DOMAIN f = RegId, NEW d, NEW v, d # id
        PROVE  DOMAIN set_reg_val(f, d, v) = RegId /\ set_reg_val(f, d, v)[id] = f[id]
    BY <2>2 DEF set_reg_val
  <2> QED
    BY <1>4, <2>1, <2>2 DEF writeBack
<1>5. CASE ~started
  BY <1>1, <1>2, <1>5 DEF signal_register_update, textOf
<1>6. CASE started
  BY <1>1, <1>2, <1>4, <1>6 DEF signal_register_update, textOf
<1> QED
  BY <1>5, <1>6

LEMMA ReportStays == ASSUME UNCHANGED <<ivars, F_stat>> PROVE report' = report
<1> USE DEF ivars, vars
<1>1. UNCHANGED <<pipeRegs, cc, started, design>>
  BY DEF pipeRegs
<1>2. UNCHANGED <<mem_addr, mem_read, mem_write>>
  BY DEF mem_addr, mem_read, mem_write
<1>3. UNCHANGED <<m_valM, m_stat>>
  BY <1>2 DEF m_valM, m_stat, dmem_error
<1>4. UNCHANGED mem_wb_next
  BY <1>3 DEF mem_wb_next
<1>5. UNCHANGED <<e_valA, e_Cnd, e_dstE, e_valE>>
  BY <1>3 DEF e_valA, e_Cnd, e_dstE, e_valE, alufun, aluA, aluB
<1>6. UNCHANGED ex_mem_next
  BY <1>5 DEF ex_mem_next
<1>7. UNCHANGED <<d_srcA, d_srcB>>
  BY DEF d_srcA, d_srcB, srcA, srcB
<1>9. UNCHANGED <<d_valA, d_valB>>
  BY <1>3, <1>5, <1>7 DEF d_valA, d_valB, forward
<1>10. UNCHANGED id_ex_next
  BY <1>7, <1>9 DEF id_ex_next, dstE, dstM
<1>11. UNCHANGED f_pc
  BY DEF f_pc
<1>12. UNCHANGED if_id_next
  BY <1>11 DEF if_id_next, fetch
<1>13. UNCHANGED f_predPC
  BY <1>12 DEF f_predPC
<1>14. UNCHANGED next_halves
  BY <1>4, <1>6, <1>10, <1>12, <1>13 DEF next_halves, pc_next_status
<1> QED
  BY <1>1, <1>14 DEF report, show_stat, Stat

LEMMA LabelsStay ==
    ASSUME UNCHANGED <<ivars, F_stat, lines>>
    PROVE  (report_pc(lines, f_pc))' = report_pc(lines, f_pc)
<1>1. f_pc' = f_pc
  BY DEF f_pc, ivars, vars
<1> QED
  BY <1>1 DEF report_pc, in_stage, ivars, vars

LEMMA NoLinesNoLabels == ASSUME lines' = {} PROVE (report_pc(lines, f_pc))' = noLabels
<1> DEFINE l == (report_pc(lines, f_pc))'
<1>1. DOMAIN l = {} /\ l = [a \in DOMAIN l |-> l[a]]
  BY DEF report_pc
<1>2. noLabels = [a \in {} |-> l[a]]
  BY DEF noLabels
<1> HIDE DEF l
<1>3. l = noLabels
  BY <1>1, <1>2
<1> QED
  BY <1>3 DEF l

\* Nothing that the stages have computed is on display after a reset, so that
\* the memory can be replaced behind the windows.
LEMMA FreshReport ==
    ASSUME Fresh, Fresh', UNCHANGED <<pipeRegs, cc, F_stat>>
    PROVE  report' = report
<1>1. ~started /\ ~started'
  BY DEF Fresh, sim_reset
<1> QED
  BY <1>1 DEF report, next_halves, show_stat

LEMMA ResetShown == ASSUME resetMachine, ~idle' PROVE DisplayCurrent'
<1>1. /\ ~started' /\ shown' = report'
      /\ reg' = [id \in RegId |-> 0] /\ DOMAIN shownReg' \cap Cleared = {}
  BY DEF resetMachine, signal_register_clear
<1> QED
  BY <1>1 DEF DisplayCurrent, textOf

\* The windows show the machine as it is, after every button and every cycle,
\* and in the middle of a Load or Reset all but the stage letters do.
THEOREM DisplayAlwaysCurrent == GuiSpec => []DisplayCurrent
<1>1. GuiInit => DisplayCurrent
  <2> SUFFICES ASSUME GuiInit PROVE DisplayCurrent
    OBVIOUS
  <2>1. ~started /\ reg = [id \in RegId |-> 0] /\ DOMAIN shownReg = {}
    BY DEF GuiInit, IInit, Init, sim_reset
  <2> QED
    BY <2>1 DEF DisplayCurrent, textOf, GuiInit
<1>2. SessionInv /\ SessionInv' /\ DisplayCurrent /\ [GuiNext]_gvars => DisplayCurrent'
  <2> SUFFICES ASSUME SessionInv, SessionInv', DisplayCurrent, [GuiNext]_gvars
               PROVE  DisplayCurrent'
    OBVIOUS
  <2>1. ASSUME simRun PROVE DisplayCurrent'
    <3>1. started' /\ shown' = report' /\ labels' = (report_pc(lines, f_pc))'
      BY <2>1 DEF simRun, Cycle
    <3> QED
      BY <2>1, <3>1, RegistersReported DEF DisplayCurrent
  <2>2. ASSUME resetMachine, cmd' \in {"load", "restore"} PROVE DisplayCurrent'
    BY <2>2, ResetShown DEF idle
  <2>3. ASSUME LoadMem \/ PutBack PROVE DisplayCurrent'
    <3>1. /\ ~idle /\ ~idle'
          /\ UNCHANGED <<pipeRegs, cc, F_stat, reg, shownReg, shown>>
      BY <2>3 DEF LoadMem, PutBack, idle, fetch_state, window
    <3>2. report' = report
      BY <3>1, FreshReport DEF SessionInv
    <3> QED
      BY <3>1, <3>2 DEF DisplayCurrent
  <2>4. ASSUME ClearLabels PROVE DisplayCurrent'
    <3>1. /\ UNCHANGED <<ivars, F_stat, shownReg, shown>> /\ labels' = noLabels /\ ~idle
      BY <2>4 DEF ClearLabels, machine, fetch_state, idle
    <3>2. reg' = reg /\ ~started' /\ report' = report
      BY <3>1, ReportStays DEF SessionInv, Fresh, sim_reset, ivars, vars
    <3> QED
      BY <3>1, <3>2 DEF DisplayCurrent
  <2>5. ASSUME LoadFails PROVE DisplayCurrent'
    <3>1. UNCHANGED <<ivars, F_stat, shownReg, shown>> /\ labels' = noLabels /\ lines' = {}
      BY <2>5 DEF LoadFails, machine, fetch_state
    <3>2. reg' = reg /\ report' = report
      BY <3>1, ReportStays DEF ivars, vars
    <3> QED
      BY <3>1, <3>2, NoLinesNoLabels DEF DisplayCurrent
  <2>6. ASSUME UNCHANGED <<ivars, F_stat, shownReg, shown, lines, labels, cmd>>
        PROVE  DisplayCurrent'
    <3>1. reg' = reg /\ started' = started /\ report' = report
          /\ (report_pc(lines, f_pc))' = report_pc(lines, f_pc)
      BY <2>6, ReportStays, LabelsStay DEF ivars, vars
    <3> QED
      BY <2>6, <3>1 DEF DisplayCurrent, idle, noLabels
  <2>7. ASSUME Stop \/ GoReturn \/ UNCHANGED gvars
        PROVE  UNCHANGED <<ivars, F_stat, shownReg, shown, lines, labels, cmd>>
    BY <2>7 DEF Stop, GoReturn, gvars, machine, fetch_state, window
  <2>8. ASSUME Load \/ Reset \/ ResetLoaded
        PROVE  resetMachine /\ cmd' \in {"load", "restore"}
    BY <2>8 DEF Load, Reset, ResetLoaded, simResetAll
  <2>9. ASSUME Step \/ Go \/ GoCycle PROVE simRun
    BY <2>9 DEF Step, Go, GoCycle, goOn
  <2> QED
    BY <2>1, <2>2, <2>3, <2>4, <2>5, <2>6, <2>7, <2>8, <2>9 DEF GuiNext, Button, Finish
<1> QED
  BY <1>1, <1>2, SessionInvariant, PTL DEF GuiSpec

-----------------------------------------------------------------------------
(***************************************************************************)
(* psim -t.  The ISA replays the program from the start when the pipeline  *)
(* has long finished, so the invariant speaks of runs of the ISA: as many  *)
(* steps as PIPE has committed lead from the loaded state to the one that  *)
(* PIPE is mapped to.  step_state is deterministic, hence the -t loop      *)
(* takes the same steps.                                                   *)
(***************************************************************************)

\* A state of the instruction-set machine: a state_rec and the status.
State(p, regs, memory, codes, status) ==
    [pc |-> p, r |-> regs, m |-> memory, cc |-> codes, stat |-> status]

\* The machine that PIPE stands for, and the one that -t steps.
archState == State(arch_pc, arch_reg, arch_mem, cc, arch_stat)
isaState == State(isa_pc, isa_r, isa_m, isa_cc, isa_stat)

\* What step_state makes of a state that is still running: the actions of ISA
\* as a function, so that two runs from equal states can be compared.
Exec(s) ==
    LET i == Decode[s.m[s.pc]]
        ft == Wrap(s.pc + 1)
        sp == get_reg_val(s.r, RSP)
        valA == get_reg_val(s.r, i.rA)
        valB == get_reg_val(s.r, i.rB)
        data == Wrap(i.valC + valB)
        down == Wrap(sp - WordBytes)
        moved(v) == set_reg_val(s.r, RSP, v)
        popped == moved(Wrap(sp + WordBytes))
        fails(code, regs) == State(s.pc, regs, s.m, s.cc, code)
        writes(regs) == State(ft, regs, s.m, s.cc, "AOK")
        alu(op, x, y) == State(ft, set_reg_val(s.r, i.rB, compute_alu(op, x, y)), s.m,
                               compute_cc(op, x, y), "AOK")
        badA == i.rA \notin RegId
        badB == i.rB \notin RegId
    IN  IF ~word_ok(s.pc) THEN fails("ADR", s.r)
        ELSE IF i.icode = "INOP" THEN writes(s.r)
        ELSE IF i.icode = "IHALT" THEN fails("HLT", s.r)
        ELSE IF i.icode = "INVALID" THEN fails("INS", s.r)
        ELSE IF i.icode = "IRRMOVQ" THEN
            IF badA \/ badB THEN fails("INS", s.r)
            ELSE writes(IF cond_holds(s.cc, i.ifun) THEN set_reg_val(s.r, i.rB, valA)
                        ELSE s.r)
        ELSE IF i.icode = "IIRMOVQ" THEN
            IF badB THEN fails("INS", s.r) ELSE writes(set_reg_val(s.r, i.rB, i.valC))
        ELSE IF i.icode = "IRMMOVQ" THEN
            IF badA THEN fails("INS", s.r)
            ELSE IF ~word_ok(data) THEN fails("ADR", s.r)
            ELSE State(ft, s.r, set_word_val(s.m, data, valA), s.cc, "AOK")
        ELSE IF i.icode = "IMRMOVQ" THEN
            IF badA THEN fails("INS", s.r)
            ELSE IF ~word_ok(data) THEN fails("ADR", s.r)
            ELSE writes(set_reg_val(s.r, i.rA, s.m[data]))
        ELSE IF i.icode = "IOPQ" THEN alu(i.ifun, valA, valB)
        ELSE IF i.icode = "IIADDQ" THEN
            IF badB THEN fails("INS", s.r)
            ELSE State(ft, set_reg_val(s.r, i.rB, Wrap(valB + i.valC)), s.m,
                       compute_cc(A_ADD, i.valC, valB), "AOK")
        ELSE IF i.icode = "IJXX" THEN
            State(IF cond_holds(s.cc, i.ifun) THEN i.valC ELSE ft, s.r, s.m, s.cc, "AOK")
        ELSE IF i.icode = "ICALL" THEN
            IF ~word_ok(down) THEN fails("ADR", moved(down))
            ELSE State(i.valC, moved(down), set_word_val(s.m, down, ft), s.cc, "AOK")
        ELSE IF i.icode = "IRET" THEN
            IF ~word_ok(sp) THEN fails("ADR", s.r)
            ELSE State(s.m[sp], popped, s.m, s.cc, "AOK")
        ELSE IF i.icode = "IPUSHQ" THEN
            IF badA THEN fails("INS", s.r)
            ELSE IF ~word_ok(down) THEN fails("ADR", moved(down))
            ELSE State(ft, moved(down), set_word_val(s.m, down, valA), s.cc, "AOK")
        ELSE \* IPOPQ
            IF badA THEN fails("INS", s.r)
            ELSE IF ~word_ok(sp) THEN fails("ADR", popped)
            ELSE writes(set_reg_val(popped, i.rA, s.m[sp]))

\* A step of the instance that PIPE is mapped to is Exec.
LEMMA ArchExec ==
    ASSUME Arch!Next PROVE arch_stat = "AOK" /\ archState' = Exec(archState)
<1> USE ArchOperators DEF archState, State, Arch!Fetched, Arch!Fail, Arch!Succeed, Arch!I,
        Arch!ftpc, Arch!rsp, Arch!dataAddr
<1>1. CASE Arch!FetchError
  BY <1>1 DEF Arch!FetchError, Exec
<1>2. CASE Arch!Nop
  BY <1>2 DEF Arch!Nop, Exec
<1>3. CASE Arch!Halt
  BY <1>3 DEF Arch!Halt, Exec
<1>4. CASE Arch!Invalid
  BY <1>4 DEF Arch!Invalid, Exec
<1>5. CASE Arch!BadRegister
  BY <1>5 DEF Arch!BadRegister, Exec
<1>6. CASE Arch!Rrmovq
  BY <1>6 DEF Arch!Rrmovq, Exec
<1>7. CASE Arch!Irmovq
  BY <1>7 DEF Arch!Irmovq, Exec
<1>8. CASE Arch!Rmmovq
  BY <1>8 DEF Arch!Rmmovq, Exec
<1>9. CASE Arch!Mrmovq
  BY <1>9 DEF Arch!Mrmovq, Exec
<1>10. CASE Arch!Alu
  BY <1>10 DEF Arch!Alu, Exec
<1>11. CASE Arch!Iaddq
  BY <1>11 DEF Arch!Iaddq, Exec
<1>12. CASE Arch!Jmp
  BY <1>12 DEF Arch!Jmp, Exec
<1>13. CASE Arch!Call
  BY <1>13 DEF Arch!Call, Exec
<1>14. CASE Arch!Ret
  BY <1>14 DEF Arch!Ret, Exec
<1>15. CASE Arch!Pushq
  BY <1>15 DEF Arch!Pushq, Exec
<1>16. CASE Arch!Popq
  BY <1>16 DEF Arch!Popq, Exec
<1> QED
  BY <1>1, <1>2, <1>3, <1>4, <1>5, <1>6, <1>7, <1>8, <1>9, <1>10, <1>11, <1>12, <1>13,
     <1>14, <1>15, <1>16 DEF Arch!Next

\* The second instance of the ISA has its own copies of the operators, too.
LEMMA IsaOperators ==
    /\ IsaState!WordBytes = WordBytes /\ IsaState!A_ADD = A_ADD
    /\ \A x : IsaState!Wrap(x) = Wrap(x)
    /\ \A p : IsaState!word_ok(p) <=> word_ok(p)
    /\ \A c, k : IsaState!cond_holds(c, k) <=> cond_holds(c, k)
    /\ \A f, id : IsaState!get_reg_val(f, id) = get_reg_val(f, id)
    /\ \A f, id, v : IsaState!set_reg_val(f, id, v) = set_reg_val(f, id, v)
    /\ \A f, p, v : IsaState!set_word_val(f, p, v) = set_word_val(f, p, v)
    /\ \A op, a, b : IsaState!compute_alu(op, a, b) = compute_alu(op, a, b)
    /\ \A op, a, b : IsaState!compute_cc(op, a, b) = compute_cc(op, a, b)
<1>1. IsaState!WordBytes = WordBytes /\ IsaState!A_ADD = A_ADD
  BY DEF WordBytes, IsaState!WordBytes, A_ADD, IsaState!A_ADD
<1>2. \A x : IsaState!Wrap(x) = Wrap(x)
  BY DEF Wrap, IsaState!Wrap
<1>3. \A p : IsaState!word_ok(p) <=> word_ok(p)
  BY <1>1 DEF word_ok, IsaState!word_ok
<1>4. \A c, k : IsaState!cond_holds(c, k) <=> cond_holds(c, k)
  BY DEF cond_holds, IsaState!cond_holds
<1>5. /\ \A f, id : IsaState!get_reg_val(f, id) = get_reg_val(f, id)
      /\ \A f, id, v : IsaState!set_reg_val(f, id, v) = set_reg_val(f, id, v)
  BY DEF get_reg_val, IsaState!get_reg_val, set_reg_val, IsaState!set_reg_val
<1>6. \A f, p, v : IsaState!set_word_val(f, p, v) = set_word_val(f, p, v)
  BY <1>3 DEF set_word_val, IsaState!set_word_val
<1>7. \A op, a, b : IsaState!compute_alu(op, a, b) = compute_alu(op, a, b)
  BY <1>2 DEF compute_alu, IsaState!compute_alu, A_ADD, A_SUB, A_AND, A_XOR,
     IsaState!A_ADD, IsaState!A_SUB, IsaState!A_AND, IsaState!A_XOR
<1>8. \A op, a, b, v : IsaState!overflow(op, a, b, v) <=> overflow(op, a, b, v)
  BY DEF overflow, IsaState!overflow, A_ADD, A_SUB, IsaState!A_ADD, IsaState!A_SUB
<1>9. \A op, a, b : IsaState!compute_cc(op, a, b) = compute_cc(op, a, b)
  BY <1>7, <1>8 DEF compute_cc, IsaState!compute_cc
<1> QED
  BY <1>1, <1>2, <1>3, <1>4, <1>5, <1>6, <1>7, <1>9

\* A step of the machine that -t runs is Exec.
LEMMA IsaExec ==
    ASSUME IsaState!Next PROVE isa_stat = "AOK" /\ isaState' = Exec(isaState)
<1> USE IsaOperators DEF isaState, State, IsaState!Fetched, IsaState!Fail,
        IsaState!Succeed, IsaState!I, IsaState!ftpc, IsaState!rsp, IsaState!dataAddr
<1>1. CASE IsaState!FetchError
  BY <1>1 DEF IsaState!FetchError, Exec
<1>2. CASE IsaState!Nop
  BY <1>2 DEF IsaState!Nop, Exec
<1>3. CASE IsaState!Halt
  BY <1>3 DEF IsaState!Halt, Exec
<1>4. CASE IsaState!Invalid
  BY <1>4 DEF IsaState!Invalid, Exec
<1>5. CASE IsaState!BadRegister
  BY <1>5 DEF IsaState!BadRegister, Exec
<1>6. CASE IsaState!Rrmovq
  BY <1>6 DEF IsaState!Rrmovq, Exec
<1>7. CASE IsaState!Irmovq
  BY <1>7 DEF IsaState!Irmovq, Exec
<1>8. CASE IsaState!Rmmovq
  BY <1>8 DEF IsaState!Rmmovq, Exec
<1>9. CASE IsaState!Mrmovq
  BY <1>9 DEF IsaState!Mrmovq, Exec
<1>10. CASE IsaState!Alu
  BY <1>10 DEF IsaState!Alu, Exec
<1>11. CASE IsaState!Iaddq
  BY <1>11 DEF IsaState!Iaddq, Exec
<1>12. CASE IsaState!Jmp
  BY <1>12 DEF IsaState!Jmp, Exec
<1>13. CASE IsaState!Call
  BY <1>13 DEF IsaState!Call, Exec
<1>14. CASE IsaState!Ret
  BY <1>14 DEF IsaState!Ret, Exec
<1>15. CASE IsaState!Pushq
  BY <1>15 DEF IsaState!Pushq, Exec
<1>16. CASE IsaState!Popq
  BY <1>16 DEF IsaState!Popq, Exec
<1> QED
  BY <1>1, <1>2, <1>3, <1>4, <1>5, <1>6, <1>7, <1>8, <1>9, <1>10, <1>11, <1>12, <1>13,
     <1>14, <1>15, <1>16 DEF IsaState!Next

\* The ISA has stopped at a call, pushq or popq whose stack address is bad.
StackFault(s) ==
    /\ s.stat = "ADR" /\ word_ok(s.pc)
    /\ Decode[s.m[s.pc]].icode \in {"ICALL", "IPUSHQ", "IPOPQ"}

\* Where PIPE leaves %rsp alone at a bad stack address, Exec stops for the same
\* reason.
LEMMA PreciseFault ==
    ASSUME Arch!PreciseStackFault, WellEncoded, TypeOK, arch_mem \in [Addr -> Word],
           arch_pc \in Word
    PROVE  arch_stat = "AOK" /\ arch_stat' = "ADR" /\ StackFault(Exec(archState))
<1> USE ArchOperators DEF archState, State, Arch!Fetched, Arch!Fail, Arch!I, Arch!rsp
<1>1. arch_stat = "AOK" /\ arch_stat' = "ADR" /\ word_ok(arch_pc)
  BY DEF Arch!PreciseStackFault
<1>2. imem.icode = "IPUSHQ" \/ imem.icode = "IPOPQ" => imem.rA \in RegId
  <2>1. arch_mem[arch_pc] \in Word
    BY <1>1, ReadableAddress
  <2> QED
    BY <2>1 DEF imem, WellEncoded, NamesRegisters
<1>3. CASE imem.icode = "ICALL"
  BY <1>1, <1>3 DEF Arch!PreciseStackFault, imem, Exec, StackFault
<1>4. CASE imem.icode = "IPUSHQ"
  BY <1>1, <1>2, <1>4 DEF Arch!PreciseStackFault, imem, Exec, StackFault
<1>5. CASE imem.icode = "IPOPQ"
  BY <1>1, <1>2, <1>5 DEF Arch!PreciseStackFault, imem, Exec, StackFault
<1> QED
  BY <1>3, <1>4, <1>5 DEF Arch!PreciseStackFault, imem

\* From state s, n steps of the ISA lead to state t.
Runs(s, n, t) ==
    \E f : /\ f[0] = s /\ f[n] = t
           /\ \A i \in 0 .. n - 1 : f[i].stat = "AOK" /\ f[i + 1] = Exec(f[i])

LEMMA RunsStart == ASSUME NEW s PROVE Runs(s, 0, s)
<1> DEFINE f == [i \in {0} |-> s]
<1>1. f[0] = s /\ \A i \in 0 .. 0 - 1 : f[i].stat = "AOK" /\ f[i + 1] = Exec(f[i])
  OBVIOUS
<1> QED
  BY <1>1 DEF Runs

\* A run can be continued as long as it has not stopped.
LEMMA RunsOn ==
    ASSUME NEW s, NEW n \in Nat, NEW t, Runs(s, n, t), t.stat = "AOK"
    PROVE  Runs(s, n + 1, Exec(t))
<1>1. PICK f : /\ f[0] = s /\ f[n] = t
               /\ \A i \in 0 .. n - 1 : f[i].stat = "AOK" /\ f[i + 1] = Exec(f[i])
  BY DEF Runs
<1> DEFINE g == [i \in 0 .. n + 1 |-> IF i = n + 1 THEN Exec(t) ELSE f[i]]
<1>2. g[0] = s /\ g[n] = t /\ g[n + 1] = Exec(t)
  BY <1>1
<1>3. ASSUME NEW i \in 0 .. n PROVE g[i].stat = "AOK" /\ g[i + 1] = Exec(g[i])
  <2>1. CASE i = n
    BY <1>2, <2>1
  <2>2. CASE i # n
    <3>1. i \in 0 .. n - 1 /\ g[i] = f[i] /\ g[i + 1] = f[i + 1]
      BY <2>2
    <3> QED
      BY <1>1, <3>1
  <2> QED
    BY <2>1, <2>2
<1> HIDE DEF g
<1>4. (n + 1) - 1 = n
  OBVIOUS
<1> QED
  BY <1>2, <1>3, <1>4 DEF Runs

\* A run of no steps has not moved; a longer one begins with Exec.
LEMMA RunsFirst ==
    ASSUME NEW s, NEW n \in Nat, NEW t, Runs(s, n, t)
    PROVE  IF n = 0 THEN s = t ELSE s.stat = "AOK" /\ Runs(Exec(s), n - 1, t)
<1>1. PICK f : /\ f[0] = s /\ f[n] = t
               /\ \A i \in 0 .. n - 1 : f[i].stat = "AOK" /\ f[i + 1] = Exec(f[i])
  BY DEF Runs
<1>2. CASE n = 0
  BY <1>1, <1>2
<1>3. CASE n # 0
  <2> DEFINE g == [i \in 0 .. n - 1 |-> f[i + 1]]
  <2>1. g[0] = Exec(s) /\ g[n - 1] = t /\ s.stat = "AOK"
    BY <1>1, <1>3
  <2>2. ASSUME NEW i \in 0 .. (n - 1) - 1 PROVE g[i].stat = "AOK" /\ g[i + 1] = Exec(g[i])
    <3>1. i + 1 \in 0 .. n - 1 /\ g[i] = f[i + 1] /\ g[i + 1] = f[(i + 1) + 1]
      BY <1>3
    <3> QED
      BY <1>1, <3>1
  <2> HIDE DEF g
  <2>3. Runs(Exec(s), n - 1, t)
    BY <2>1, <2>2 DEF Runs
  <2> QED
    BY <1>3, <2>1, <2>3
<1> QED
  BY <1>2, <1>3

\* The instructions that have taken effect: those that have been retired, and
\* the one that has entered memory.
committed == instructions + (IF M.stat = "BUB" THEN 0 ELSE 1)

\* t is the state s, but for the %rsp of an instruction that met a bad stack
\* address.
Reaches(t, s) ==
    \/ t = s
    \/ StackFault(t) /\ s.stat \in Exception

\* n steps of the ISA, from where it is, lead to where PIPE is.
Executed(n) == \E t : Runs(isaState, n, t) /\ Reaches(t, archState)

\* What no run of psim can promise for: stores into instructions already
\* fetched, and hazards that its design leaves to the program.
Foreseen == ~smc /\ ~unhandled

\* The design is that of one of the runs.
Built == \E load \in Loads : design = load.design

\* The pipeline has executed the program, write for write.
Exact == IInv /\ (Foreseen => Executed(committed))

\* A cycle that changes nothing of the machine and commits nothing.
LEMMA SameExecuted ==
    ASSUME UNCHANGED archvars, UNCHANGED isa, committed' = committed, Executed(committed)
    PROVE  Executed(committed)'
<1>1. archState' = archState /\ arch_stat' = arch_stat /\ isaState' = isaState
  BY DEF archvars, archState, isa, isaState, State
<1>2. PICK t : Runs(isaState, committed, t) /\ Reaches(t, archState)
  BY DEF Executed
<1>3. Reaches(t, archState')
  BY <1>1, <1>2 DEF Reaches
<1>4. Runs(isaState, committed, t)'
  BY <1>1, <1>2 DEF Runs
<1> QED
  BY <1>3, <1>4 DEF Executed

\* An instruction that commits is one more step of the ISA.
LEMMA CommitExecuted ==
    ASSUME IInv, WellEncoded, IaddqBuilt, Built, Committing, UNCHANGED isa,
           instructions \in Nat, committed' = committed + 1, Executed(committed)
    PROVE  Executed(committed)'
<1>1. isaState' = isaState /\ committed \in Nat
  BY DEF isa, isaState, State, committed
<1>2. PICK t : Runs(isaState, committed, t) /\ Reaches(t, archState)
  BY DEF Executed
<1>3. arch_pc = E.pc /\ arch_pc \in Word /\ arch_stat = "AOK" /\ archState.stat = "AOK"
  BY Enters DEF IInv, TypeOK, IdExEle, archState, State
<1>4. t = archState
  BY <1>2, <1>3 DEF Reaches, Exception
<1>5. Runs(isaState, committed + 1, Exec(archState))
  BY <1>1, <1>2, <1>3, <1>4, RunsOn
<1>6. SUFFICES \E u : Runs(isaState, committed + 1, u) /\ Reaches(u, archState')
  BY <1>1 DEF Executed, Runs
<1>7. CASE Arch!Next
  <2>1. archState' = Exec(archState)
    BY <1>7, ArchExec
  <2>2. PICK u : u = Exec(archState)
    OBVIOUS
  <2>3. Reaches(u, archState')
    BY <2>1, <2>2 DEF Reaches
  <2> QED
    BY <1>5, <2>2, <2>3
<1>8. CASE Arch!PreciseStackFault
  <2>1. Cycle(TRUE, TRUE)
    BY DEF Committing, Next
  <2>2. TypeOK /\ TypeOK'
    BY <2>1, CycleType DEF IInv
  <2>3. arch_mem \in [Addr -> Word]
    BY <2>2, Retires DEF Committing, TypeOK
  <2>4. StackFault(Exec(archState)) /\ arch_stat' = "ADR"
    BY <1>3, <1>8, <2>2, <2>3, PreciseFault
  <2>5. ASSUME NEW u, StackFault(u) PROVE Reaches(u, archState')
    BY <2>4, <2>5 DEF Reaches, Exception, archState, State
  <2>6. PICK u : u = Exec(archState)
    OBVIOUS
  <2> QED
    BY <1>5, <2>4, <2>5, <2>6
<1>9. CASE MissingIaddq
  <2>1. word_ok(arch_pc) /\ imem.icode = "IIADDQ" /\ design.iaddq = {}
    BY <1>9, ArchOperators DEF MissingIaddq, Arch!Fetched, Arch!I, imem
  <2>2. arch_mem[arch_pc] \in Word
    BY <2>1, Decoded
  <2> QED
    BY <2>1, <2>2 DEF imem, IaddqBuilt, Built
<1> QED
  BY <1>7, <1>8, <1>9, CommitSimulates

\* What a cycle does to the count: an instruction enters memory, or none does.
LEMMA CountStep ==
    ASSUME IInv, Next, started, Perf, instructions \in Nat
    PROVE  committed' = committed + (IF M'.stat = "BUB" THEN 0 ELSE 1)
<1>1. W'.stat = m_stat
  BY StepShape DEF mem_wb_next
<1>2. M.stat = "BUB" => M.icode = "INOP"
  BY DEF IInv, StagesFollowProgram, BubblesAreNops
<1>3. m_stat = "BUB" <=> M.stat = "BUB"
  BY <1>2 DEF m_stat, dmem_error, mem_read, mem_write
<1> QED
  BY <1>1, <1>3 DEF Perf, committed

\* A cycle whose writes are all made keeps PIPE and the ISA together.
LEMMA ExactStep ==
    ASSUME Exact, WellEncoded, IaddqBuilt, Built, INext, Perf, UNCHANGED isa,
           instructions \in Nat
    PROVE  Exact'
<1>1. IInv /\ IInv'
  BY InvFirstStep, InvStep DEF Exact
<1>2. Next /\ unhandled' = (unhandled \/ HazardUnhandled) /\ smc' = (smc \/ OverwritesFetched)
  BY DEF INext
<1>3. SUFFICES ASSUME Foreseen' PROVE Executed(committed)'
  BY <1>1 DEF Exact
<1>4. Foreseen /\ Handled /\ ~smc /\ ~OverwritesFetched /\ Executed(committed)
  BY <1>2, <1>3 DEF Foreseen, Handled, Exact
<1>5. CASE ~started
  <2>1. UNCHANGED archvars
    BY <1>1, <1>2, <1>5, FirstStep DEF archvars, arch_pc, arch_reg, arch_mem, arch_stat,
       Excepting, m_stat, m_valM, dmem_error, mem_read, mem_write, mem_addr, f_pc, writeBack
  <2>2. W.stat = "BUB" /\ W' = W /\ M' = M
    BY <1>1, <1>2, <1>5, FirstStep DEF IInv, StagesFollowProgram, ResetIsEmpty, bubble_mem_wb
  <2>3. committed' = committed
    BY <2>2 DEF Perf, committed
  <2> QED
    BY <1>4, <2>1, <2>3, SameExecuted
<1>6. CASE started /\ m_stat \in Exception
  <2>1. UNCHANGED archvars
    BY <1>1, <1>2, <1>6, FaultRetires
  <2>2. M'.stat = "BUB"
    BY <1>2, <1>6, StepShape DEF bubble_ex_mem
  <2>3. committed' = committed
    BY <1>1, <1>2, <1>6, <2>2, CountStep DEF committed
  <2> QED
    BY <1>4, <2>1, <2>3, SameExecuted
<1>7. CASE started /\ m_stat \notin Exception /\ E.stat = "BUB"
  <2>1. UNCHANGED archvars
    BY <1>1, <1>2, <1>4, <1>7, BubbleCommits
  <2>2. M'.stat = "BUB"
    BY <1>2, <1>7, StepShape DEF ex_mem_next
  <2>3. committed' = committed
    BY <1>1, <1>2, <1>7, <2>2, CountStep DEF committed
  <2> QED
    BY <1>4, <2>1, <2>3, SameExecuted
<1>8. CASE started /\ m_stat \notin Exception /\ E.stat # "BUB"
  <2>1. Committing
    BY <1>2, <1>4, <1>8 DEF Committing
  <2>2. M'.stat # "BUB"
    BY <1>2, <1>8, StepShape DEF ex_mem_next
  <2>3. committed' = committed + 1
    BY <1>1, <1>2, <1>8, <2>2, CountStep
  <2> QED
    BY <1>1, <1>4, <2>1, <2>3, CommitExecuted
<1> QED
  BY <1>5, <1>6, <1>7, <1>8

(***************************************************************************)
(* The instruction limit.                                                  *)
(***************************************************************************)

\* A disabled write that would have changed nothing makes no difference.
LEMMA WritesIdle ==
    ASSUME IInv, W.stat \notin Exception, NEW um \in BOOLEAN, NEW uc \in BOOLEAN,
           Cycle(um, uc),
           um \/ ~started \/ ~mem_write \/ m_stat \in Exception, uc \/ ~set_cc
    PROVE  Cycle(TRUE, TRUE)
<1>1. mem' = IF started /\ mem_write THEN set_word_val(mem, mem_addr, M.valA) ELSE mem
  <2>1. CASE m_stat \in Exception /\ mem_write
    <3>1. dmem_error
      BY <2>1 DEF m_stat, IInv, StagesFollowProgram, FetchExceptions, FaultIcode, mem_write
    <3>2. set_word_val(mem, mem_addr, M.valA) = mem
      BY <3>1 DEF dmem_error, set_word_val
    <3> QED
      BY <3>2 DEF Cycle, update_state
  <2>2. CASE m_stat \notin Exception \/ ~mem_write
    BY <2>2 DEF Cycle, update_state
  <2> QED
    BY <2>1, <2>2
<1>2. cc' = cc_in
  BY DEF Cycle, update_state, IInv, StagesFollowProgram, CcPending
<1> QED
  BY <1>1, <1>2 DEF Cycle, update_state

\* Whatever is disabled, memory's instruction goes to write-back.
LEMMA RetireShape ==
    ASSUME W.stat \notin Exception, NEW um, NEW uc, Cycle(um, uc)
    PROVE  /\ started => W'.stat = m_stat
           /\ ~started => W' = W
BY DEF Cycle, loadFromStages, pipe_cntl, update_pipe, W_stall, W_bubble, mem_wb_next, pipeRegs

\* The limit has cut the run short: it ends without an exception.
Cut ==
    /\ run_status \notin Exception
    /\ \/ icount = instr_limit
       \/ icount = instr_limit - 1 /\ m_stat \notin Exception

\* The -t loop has k steps to go to where PIPE is.
Replays ==
    \E k \in Nat : step + k = instructions /\ Executed(k)

\* The invariant behind CheckSucceeds.
PsimInv ==
    /\ phase \in {"pipe", "isa", "done"}
    /\ icount \in Nat /\ instructions \in Nat /\ step \in Nat
    /\ instructions <= icount /\ icount <= instr_limit
    /\ run_status = Stat
    /\ Built
    /\ phase = "pipe" => step = 0 /\ (Exact \/ Cut)
    /\ phase = "isa" /\ run_status \in Exception /\ Foreseen => Replays
    /\ CheckSucceeds

\* A cycle of the loop of sim_run_pipe: PIPE and the ISA stay together, or the
\* limit is about to end the run.
LEMMA LimitedCycle ==
    ASSUME WellEncoded, IaddqBuilt, PsimInv, phase = "pipe", RunPipe
    PROVE  PsimInv'
<1>1. /\ icount < instr_limit /\ run_status \in {"AOK", "BUB"}
      /\ Perf /\ run_status' = Stat' /\ UNCHANGED <<phase, isa, step>>
      /\ smc' = (smc \/ OverwritesFetched) /\ unhandled' = (unhandled \/ HazardUnhandled)
      /\ icount' = (IF run_status' # "BUB" THEN icount + 1 ELSE icount)
  BY DEF RunPipe, Running, sim_step_pipe
<1> DEFINE um == ahead_mem < instr_limit - icount
           uc == ahead_ex < instr_limit - icount
<1>2. Cycle(um, uc) /\ um \in BOOLEAN /\ uc \in BOOLEAN
  BY DEF RunPipe, sim_step_pipe
<1>3. Stat = "AOK" /\ W.stat \notin Exception
  BY <1>1 DEF PsimInv, Stat, Exception
<1>4. icount' = icount + 1 /\ icount' \in Nat /\ icount' <= instr_limit
  BY <1>1, LimitAssumption DEF Stat, PsimInv
<1>5. instructions' \in Nat /\ instructions' <= icount'
  BY <1>1, <1>4 DEF Perf, PsimInv
<1>6. Built'
  BY <1>2 DEF PsimInv, Built, Cycle
<1>7. CheckSucceeds'
  BY <1>1 DEF CheckSucceeds
<1>8. Exact' \/ Cut'
  <2>1. CASE Exact /\ Cycle(TRUE, TRUE)
    <3>1. INext
      BY <1>1, <1>3, <2>1 DEF INext, Next
    <3> QED
      BY <1>1, <2>1, <3>1, ExactStep DEF PsimInv
  <2>2. CASE Exact /\ ~Cycle(TRUE, TRUE)
    <3>1. IInv
      BY <2>2 DEF Exact
    <3>2. \/ started /\ ~um /\ m_stat \notin Exception
          \/ ~uc /\ set_cc
      BY <1>2, <1>3, <2>2, <3>1, WritesIdle
    <3>3. m_stat \notin Exception
      BY <3>2 DEF set_cc
    <3>4. run_status' \notin Exception
      BY <1>1, <1>2, <1>3, <3>3, RetireShape DEF Stat, Exception
    <3>5. CASE instr_limit - icount = 1
      BY <1>4, <3>4, <3>5, LimitAssumption DEF Cut, PsimInv
    <3>6. CASE instr_limit - icount # 1
      <4>1. instr_limit - icount >= 2
        BY <1>1, <3>6, LimitAssumption DEF PsimInv
      <4>2. um /\ instr_limit - icount = 2 /\ ~uc /\ set_cc
        BY <3>2, <4>1, LimitAssumption DEF ahead_mem, ahead_ex, PsimInv
      <4>3. started
        BY <3>1, AddedOpcodes, <4>2 DEF IInv, StagesFollowProgram, ResetIsEmpty, set_cc,
           bubble_id_ex
      <4>4. M' = ex_mem_next
        BY <1>2, <1>3, <3>3, <4>3 DEF Cycle, loadFromStages, pipe_cntl, update_pipe, M_stall,
           M_bubble
      <4>5. E.icode \in {"IOPQ", "IIADDQ"} /\ E.stat \notin Exception
        BY <3>1, <4>2, AddedOpcodes DEF IInv, set_cc, StagesFollowProgram, FetchExceptions,
           FaultIcode
      <4>6. m_stat' \notin Exception
        BY <4>4, <4>5 DEF ex_mem_next, m_stat, dmem_error, mem_read, mem_write
      <4> QED
        BY <1>4, <3>4, <4>2, <4>6, LimitAssumption DEF Cut, PsimInv
    <3> QED
      BY <3>5, <3>6
  <2>3. CASE Cut
    <3>1. icount = instr_limit - 1 /\ m_stat \notin Exception
      BY <1>1, <2>3, LimitAssumption DEF Cut, PsimInv
    <3>2. run_status' \notin Exception
      BY <1>1, <1>2, <1>3, <3>1, RetireShape DEF Stat, Exception
    <3> QED
      BY <1>4, <3>1, <3>2, LimitAssumption DEF Cut
  <2> QED
    BY <2>1, <2>2, <2>3 DEF PsimInv
<1> HIDE DEF um, uc
<1> QED
  BY <1>1, <1>4, <1>5, <1>6, <1>7, <1>8 DEF PsimInv

\* What the actions of psim do not touch.
LEMMA Untouched ==
    ASSUME UNCHANGED ivars, UNCHANGED run_status, UNCHANGED icount, UNCHANGED instructions
    PROVE  /\ Stat' = Stat /\ (Built <=> Built') /\ archState' = archState
           /\ (Foreseen <=> Foreseen') /\ (Cut <=> Cut')
BY DEF ivars, vars, Stat, Built, archState, State, arch_pc, arch_reg, arch_mem, arch_stat,
   Excepting, m_stat, m_valM, dmem_error, mem_read, mem_write, mem_addr, f_pc, writeBack,
   Foreseen, Cut

\* sim_run_pipe returns.
LEMMA RunReturns ==
    ASSUME PsimInv, RunEnds PROVE PsimInv'
<1>1. /\ phase = "pipe" /\ phase' = "isa" /\ ~Running
      /\ UNCHANGED <<ivars, run_status, icount, instructions, isa, step>>
  BY DEF RunEnds, run, perf
<1>2. /\ Stat' = Stat /\ Built' /\ archState' = archState /\ (Foreseen <=> Foreseen')
  BY <1>1, Untouched DEF PsimInv
<1>3. CheckSucceeds'
  BY <1>1 DEF CheckSucceeds
<1>4. ASSUME run_status \in Exception, Foreseen PROVE Replays'
  <2>1. Exact
    BY <1>1, <1>4 DEF PsimInv, Cut
  <2>2. W.stat \in Exception
    BY <1>4 DEF PsimInv, Stat, Exception
  <2>3. committed = instructions
    BY <2>1, <2>2 DEF Exact, IInv, StagesFollowProgram, FetchExceptions, committed, PsimInv
  <2>4. Executed(instructions)
    BY <1>4, <2>1, <2>3 DEF Exact
  <2>5. isaState' = isaState
    BY <1>1 DEF isa, isaState, State
  <2>6. Executed(instructions)'
    BY <1>1, <1>2, <2>4, <2>5 DEF Executed
  <2>7. step' = 0 /\ instructions' = instructions /\ instructions \in Nat
    BY <1>1 DEF PsimInv
  <2> QED
    BY <2>6, <2>7 DEF Replays
<1> QED
  BY <1>1, <1>2, <1>3, <1>4 DEF PsimInv

\* One step of the -t loop.
LEMMA IsaSteps ==
    ASSUME PsimInv, StepIsa PROVE PsimInv'
<1>1. /\ phase = "isa" /\ phase' = "isa" /\ IsaState!Next /\ step' = step + 1
      /\ UNCHANGED <<ivars, run_status, icount, instructions>>
  BY DEF StepIsa, run, perf
<1>2. /\ Stat' = Stat /\ Built' /\ archState' = archState /\ (Foreseen <=> Foreseen')
  BY <1>1, Untouched DEF PsimInv
<1>3. CheckSucceeds'
  BY <1>1 DEF CheckSucceeds
<1>4. ASSUME run_status \in Exception, Foreseen PROVE Replays'
  <2>1. PICK k \in Nat : step + k = instructions /\ Executed(k)
    BY <1>1, <1>4 DEF PsimInv, Replays
  <2>2. PICK t : Runs(isaState, k, t) /\ Reaches(t, archState)
    BY <2>1 DEF Executed
  <2>3. isa_stat = "AOK" /\ isaState' = Exec(isaState)
    BY <1>1, IsaExec
  <2>4. k # 0
    <3>1. archState.stat \in Exception
      BY <1>4 DEF PsimInv, Stat, archState, State, arch_stat, Exception
    <3>2. t.stat # "AOK"
      BY <2>2, <3>1 DEF Reaches, StackFault, Exception
    <3> QED
      BY <2>2, <2>3, <3>2, RunsFirst DEF isaState, State
  <2>5. Runs(isaState', k - 1, t)
    BY <2>2, <2>3, <2>4, RunsFirst
  <2>6. Executed(k - 1)'
    BY <1>2, <2>2, <2>5 DEF Executed, Runs
  <2> QED
    BY <1>1, <2>1, <2>4, <2>6 DEF Replays, PsimInv
<1> QED
  BY <1>1, <1>2, <1>3, <1>4 DEF PsimInv

\* The comparison at the end.
LEMMA Compares ==
    ASSUME PsimInv, Compare PROVE PsimInv'
<1>1. /\ phase = "isa" /\ phase' = "done" /\ (step >= instr_limit \/ isa_stat # "AOK")
      /\ match' = (isa_r = reg /\ isa_m = mem /\ isa_cc = cc)
      /\ UNCHANGED <<ivars, run_status, icount, instructions, isa, step>>
  BY DEF Compare, run, perf
<1>2. /\ Stat' = Stat /\ Built' /\ (Foreseen <=> Foreseen')
  BY <1>1, Untouched DEF PsimInv
<1>3. ASSUME run_status \in Exception, Foreseen
      PROVE  instructions = step /\ (~IsaStackFault => match' /\ isa_stat = run_status)
  <2>1. PICK k \in Nat : step + k = instructions /\ Executed(k)
    BY <1>1, <1>3 DEF PsimInv, Replays
  <2>2. PICK t : Runs(isaState, k, t) /\ Reaches(t, archState)
    BY <2>1 DEF Executed
  <2>3. k = 0
    <3>1. CASE isa_stat # "AOK"
      BY <2>2, <3>1, RunsFirst DEF isaState, State
    <3>2. CASE step >= instr_limit
      BY <2>1, <3>2, LimitAssumption DEF PsimInv
    <3> QED
      BY <1>1, <3>1, <3>2
  <2>4. isaState = t
    BY <2>2, <2>3, RunsFirst
  <2>5. StackFault(isaState) <=> IsaStackFault
    BY IsaOperators DEF StackFault, IsaStackFault, isaState, State, IsaState!I
  <2>6. W.stat \in Exception /\ run_status = W.stat
    BY <1>3 DEF PsimInv, Stat, Exception
  <2>7. arch_reg = reg /\ arch_mem = mem /\ arch_stat = W.stat
    BY <2>6 DEF arch_reg, arch_mem, arch_stat, Excepting
  <2>8. isaState = archState => isa_r = reg /\ isa_m = mem /\ isa_cc = cc /\ isa_stat = W.stat
    BY <2>7 DEF isaState, archState, State
  <2>9. instructions = step
    BY <2>1, <2>3 DEF PsimInv
  <2>10. ~IsaStackFault => isaState = archState
    BY <2>2, <2>4, <2>5 DEF Reaches
  <2> QED
    BY <1>1, <2>6, <2>8, <2>9, <2>10
<1>4. CheckSucceeds'
  BY <1>1, <1>2, <1>3 DEF CheckSucceeds, Foreseen, IsaStackFault, isa, IsaState!I, ivars
<1> QED
  BY <1>1, <1>2, <1>4 DEF PsimInv

LEMMA PsimStart == ASSUME PsimInit PROVE PsimInv
<1>1. IInv /\ M.stat = "BUB" /\ W.stat = "BUB" /\ Excepting = FALSE
  BY InvInit DEF PsimInit, IInit, Init, sim_reset, bubble_ex_mem, bubble_mem_wb, Excepting,
     m_stat, dmem_error, mem_read, mem_write, Exception
<1>2. archState = isaState
  <2>1. TypeOK /\ sim_reset(mem)
    BY <1>1 DEF IInv, PsimInit, IInit, Init, sim_reset
  <2>2. FreshArch
    BY <2>1, FreshIsStart DEF Fresh, TypeOK
  <2> QED
    BY <2>1, <2>2 DEF FreshArch, sim_reset, archState, isaState, State, PsimInit
<1>3. Executed(0)
  BY <1>2, RunsStart DEF Executed, Reaches
<1>4. committed = 0
  BY <1>1 DEF committed, PsimInit
<1>5. Built
  BY DEF PsimInit, IInit, Init, Built
<1> QED
  BY <1>1, <1>3, <1>4, <1>5, LimitAssumption DEF PsimInv, Exact, PsimInit, Stat, CheckSucceeds

LEMMA PsimStutters == ASSUME PsimInv, UNCHANGED pvars PROVE PsimInv'
<1>1. /\ UNCHANGED <<ivars, phase, run_status, icount, instructions, isa, step, match>>
  BY DEF pvars, run, perf
<1>2. /\ Stat' = Stat /\ Built' /\ archState' = archState
      /\ (Foreseen <=> Foreseen') /\ (Cut <=> Cut')
  BY <1>1, Untouched DEF PsimInv
<1>3. isaState' = isaState /\ M' = M /\ instructions' = instructions
  BY <1>1 DEF isa, isaState, State, ivars, vars
<1>4. \A n : Executed(n) <=> Executed(n)'
  BY <1>2, <1>3 DEF Executed
<1>5. Exact => Exact'
  BY <1>1, <1>2, <1>3, <1>4, InvStutter DEF Exact, committed
<1>6. Replays => Replays'
  BY <1>1, <1>4 DEF Replays
<1>7. CheckSucceeds'
  BY <1>1, <1>2 DEF PsimInv, CheckSucceeds, IsaStackFault, isa, IsaState!I, ivars, vars
<1> QED
  BY <1>1, <1>2, <1>5, <1>6, <1>7 DEF PsimInv

\* Every run of psim -t that ends with an exception before the instruction
\* limit passes its own check, and its CPI line counts the instructions of the
\* program: for every limit, word size, memory, register file and program, in
\* every design that has the opcodes of its programs, as long as no store hits
\* a fetched instruction and the program meets no hazard left to it.
THEOREM CheckAlwaysSucceeds ==
    ASSUME WellEncoded, IaddqBuilt PROVE PsimSpec => []CheckSucceeds
<1>1. PsimInit => PsimInv
  BY PsimStart
<1>2. PsimInv /\ [PsimNext]_pvars => PsimInv'
  <2> SUFFICES ASSUME PsimInv, [PsimNext]_pvars PROVE PsimInv'
    OBVIOUS
  <2>1. CASE RunPipe
    BY <2>1, LimitedCycle DEF RunPipe
  <2>2. CASE RunEnds
    BY <2>2, RunReturns
  <2>3. CASE StepIsa
    BY <2>3, IsaSteps
  <2>4. CASE Compare
    BY <2>4, Compares
  <2>5. CASE UNCHANGED pvars
    BY <2>5, PsimStutters
  <2> QED
    BY <2>1, <2>2, <2>3, <2>4, <2>5 DEF PsimNext
<1>3. PsimInv => CheckSucceeds
  BY DEF PsimInv
<1> QED
  BY <1>1, <1>2, <1>3, PTL DEF PsimSpec
=============================================================================
