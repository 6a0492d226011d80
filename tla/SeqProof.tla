------------------------------ MODULE SeqProof ------------------------------
(***************************************************************************)
(* SEQ implements the instruction-set machine, for every word size,        *)
(* memory, register file and program.                                      *)
(***************************************************************************)
EXTENDS Seq, Y86Proof

(***************************************************************************)
(* Type correctness.                                                       *)
(***************************************************************************)

\* An instruction that can be fetched is one of Instr.
LEMMA ImemType ==
    ASSUME TypeOK, ~imem_error
    PROVE  pc \in Addr /\ imem \in Instr
<1>1. pc \in Addr
  BY WordAssumption DEF TypeOK, imem_error, word_ok, Addr, Word, WordBytes
<1> QED
  BY <1>1, DecodeAssumption DEF TypeOK, imem

\* Every signal of the datapath carries a word.
LEMMA DatapathType ==
    ASSUME TypeOK
    PROVE  /\ valA \in Word /\ valB \in Word /\ valC \in Word /\ valP \in Word
           /\ valE \in Word /\ valM \in Word /\ mem_addr \in Word
           /\ mem_data \in Word /\ new_pc \in Word /\ cc_in \in CC
<1>1. valA \in Word /\ valB \in Word
  BY AccessTypes, SmallWords DEF TypeOK, valA, valB
<1>2. valC \in Word
  <2>1. "INOP" \notin design.iaddq
    BY DesignsAssumption DEF TypeOK, Design
  <2> QED
    BY <2>1, ImemType, SmallWords DEF valC, need_valC, icode, Instr
<1>3. valP \in Word
  BY WrapType, SmallWords DEF TypeOK, valP
<1>4. aluA \in Word /\ aluB \in Word
  BY <1>1, <1>2, SmallWords DEF aluA, aluB
<1>5. valE \in Word
  BY <1>4, AluType DEF valE
<1>6. mem_addr \in Word /\ mem_data \in Word
  BY <1>1, <1>3, <1>5, SmallWords DEF mem_addr, mem_data
<1>7. valM \in Word
  BY <1>6, AccessTypes, SmallWords DEF TypeOK, valM
<1>8. cc_in \in CC
  BY CcType DEF TypeOK, cc_in
<1> QED
  BY <1>1, <1>2, <1>3, <1>5, <1>6, <1>7, <1>8 DEF new_pc

\* What SEQ+ keeps fits its registers and determines the pc that SEQ computes.
LEMMA PlusPc ==
    ASSUME TypeOK
    PROVE  prev_in \in PrevRegs /\ plus_pc(prev_in) = new_pc
<1>1. icode \in Icode
  BY ImemType DEF icode, Instr, Icode
<1>2. prev_in \in PrevRegs
  BY <1>1, DatapathType DEF prev_in, PrevRegs
<1>3. plus_pc(prev_in) = new_pc
  BY DEF plus_pc, prev_in, new_pc
<1> QED
  BY <1>2, <1>3

\* Every reachable state is well typed.
THEOREM SeqTypeCorrect == Spec => []TypeOK
<1>1. Init => TypeOK
  <2> SUFFICES ASSUME Init PROVE TypeOK
    OBVIOUS
  <2>1. mem \in [Addr -> Word]
    BY CodesAssumption, SmallWords DEF Init, load_mem
  <2>2. 0 \in Word /\ DEFAULT_CC \in CC /\ 0 \in 0 .. instr_limit
    BY SmallWords, LimitAssumption DEF DEFAULT_CC, CC
  <2>3. "INOP" \in Icode
    BY DEF Icode
  <2> QED
    BY <2>1, <2>2, <2>3 DEF Init, TypeOK, PrevRegs
<1>2. TypeOK /\ [Next]_vars => TypeOK'
  <2> SUFFICES ASSUME TypeOK, sim_step PROVE TypeOK'
    BY DEF Next, vars, TypeOK
  <2>1. icount' \in 0 .. instr_limit
    BY LimitAssumption DEF TypeOK, sim_step
  <2>2. writeBack \in [RegId -> Word] /\ writeMem \in [Addr -> Word]
    BY DatapathType DEF TypeOK, writeBack, writeMem, set_reg_val, set_word_val
  <2> QED
    BY <2>1, <2>2, DatapathType, PlusPc DEF TypeOK, sim_step, update_state
<1> QED
  BY <1>1, <1>2, PTL DEF Spec

(***************************************************************************)
(* What the datapath computes for each instruction is what step_state      *)
(* does: one lemma per case of its switch.                                 *)
(***************************************************************************)

\* What is read from the register file is a word.
LEMMA RegisterWords == ASSUME TypeOK PROVE \A id : get_reg_val(reg, id) \in Word
BY AccessTypes, SmallWords DEF TypeOK

\* The fields that the fetch stage extracts, when it can read the instruction,
\* and the only opcode that a design adds.
LEMMA FetchSignals ==
    ASSUME TypeOK, ~imem_error
    PROVE  /\ icode = imem.icode /\ ifun = imem.ifun
           /\ \A ic : ic # "IIADDQ" => ic \notin design.iaddq
BY DesignsAssumption DEF TypeOK, Design, icode, ifun

FaultStep ==
    /\ imem_error => Stat = "ADR"
    /\ ~imem_error /\ imem.icode = "INVALID" => Stat = "INS"
    /\ ~imem_error /\ imem.icode = "IIADDQ" /\ design.iaddq = {} => Stat = "INS"
    /\ ~imem_error /\ imem.icode = "IHALT" => Stat = "HLT"

\* A fault, an invalid instruction and halt have the status of step_state.
LEMMA ExecFault == FaultStep
BY DEF FaultStep, Stat, instr_valid, dmem_error, mem_read, mem_write, icode

NopStep ==
    ~imem_error /\ imem.icode = "INOP" =>
        /\ Stat = "AOK" /\ new_pc = Wrap(pc + 1)
        /\ writeBack = reg /\ writeMem = mem /\ cc_in = cc

\* nop changes the pc only.
LEMMA ExecNop == ASSUME TypeOK, NamesRegisters PROVE NopStep
<1> SUFFICES ASSUME ~imem_error, imem.icode = "INOP" PROVE NopStep
  BY DEF NopStep
<1>1. dstE = RNONE /\ dstM = RNONE
  BY FetchSignals DEF dstE, dstM
<1>2. cc_in = cc
  BY <1>1, FetchSignals DEF set_cc, cc_in
<1>3. dmem_error = FALSE /\ Stat = "AOK" /\ ~mem_write
  BY FetchSignals DEF mem_read, mem_write, dmem_error, instr_valid,
     Stat
<1> QED
  BY <1>1, <1>2, <1>3, FetchSignals, NoneInert DEF new_pc, valP, writeBack,
     writeMem, NopStep

RrmovqStep ==
    ~imem_error /\ imem.icode = "IRRMOVQ" =>
        /\ imem.rA \in RegId /\ imem.rB \in RegId
        /\ Stat = "AOK" /\ new_pc = Wrap(pc + 1)
        /\ writeBack = IF cond_holds(cc, imem.ifun)
                       THEN set_reg_val(reg, imem.rB, get_reg_val(reg, imem.rA))
                       ELSE reg
        /\ writeMem = mem /\ cc_in = cc

\* Moves, conditional or not.
LEMMA ExecRrmovq == ASSUME TypeOK, NamesRegisters PROVE RrmovqStep
<1> SUFFICES ASSUME ~imem_error, imem.icode = "IRRMOVQ" PROVE RrmovqStep
  BY DEF RrmovqStep
<1>1. /\ imem.rA \in RegId /\ imem.rB \in RegId
      /\ srcA = imem.rA /\ dstM = RNONE
      /\ dstE = IF cond_holds(cc, imem.ifun) THEN imem.rB ELSE RNONE
  BY FetchSignals, ImemType DEF NamesRegisters, TypeOK, imem, Instr,
     need_regids, rA, rB, Cnd, srcA, dstE, dstM
<1>2. valE = get_reg_val(reg, imem.rA) /\ cc_in = cc
  BY <1>1, FetchSignals, DatapathType, AluPass DEF aluA, aluB, alufun, valE,
     valA, valB, set_cc, cc_in
<1>3. dmem_error = FALSE /\ Stat = "AOK" /\ ~mem_write
  BY FetchSignals DEF mem_read, mem_write, dmem_error, instr_valid,
     Stat
<1> QED
  BY <1>1, <1>2, <1>3, FetchSignals, NoneInert DEF new_pc, valP, writeBack,
     writeMem, RrmovqStep

IrmovqStep ==
    ~imem_error /\ imem.icode = "IIRMOVQ" =>
        /\ imem.rB \in RegId
        /\ Stat = "AOK" /\ new_pc = Wrap(pc + 1)
        /\ writeBack = set_reg_val(reg, imem.rB, imem.valC)
        /\ writeMem = mem /\ cc_in = cc

\* irmovq.
LEMMA ExecIrmovq == ASSUME TypeOK, NamesRegisters PROVE IrmovqStep
<1> SUFFICES ASSUME ~imem_error, imem.icode = "IIRMOVQ" PROVE IrmovqStep
  BY DEF IrmovqStep
<1>1. /\ imem.rB \in RegId
      /\ valC = imem.valC /\ dstE = imem.rB /\ dstM = RNONE
  BY FetchSignals, ImemType DEF NamesRegisters, TypeOK, imem, Instr,
     need_regids, rA, rB, need_valC, valC, dstE, dstM
<1>2. valE = imem.valC /\ cc_in = cc
  BY <1>1, FetchSignals, DatapathType, AluPass DEF aluA, aluB, alufun, valE,
     valA, valB, set_cc, cc_in
<1>3. dmem_error = FALSE /\ Stat = "AOK" /\ ~mem_write
  BY FetchSignals DEF mem_read, mem_write, dmem_error, instr_valid,
     Stat
<1> QED
  BY <1>1, <1>2, <1>3, FetchSignals, NoneInert DEF new_pc, valP, writeBack,
     writeMem, IrmovqStep

RmmovqStep ==
    ~imem_error /\ imem.icode = "IRMMOVQ" =>
        /\ imem.rA \in RegId
        /\ Stat = IF word_ok(Wrap(imem.valC + get_reg_val(reg, imem.rB))) THEN "AOK" ELSE "ADR"
        /\ new_pc = Wrap(pc + 1) /\ writeBack = reg /\ cc_in = cc
        /\ writeMem = set_word_val(mem, Wrap(imem.valC + get_reg_val(reg, imem.rB)),
                                get_reg_val(reg, imem.rA))

\* A store, with or without a base register.
LEMMA ExecRmmovq == ASSUME TypeOK, NamesRegisters PROVE RmmovqStep
<1> SUFFICES ASSUME ~imem_error, imem.icode = "IRMMOVQ" PROVE RmmovqStep
  BY DEF RmmovqStep
<1>1. /\ imem.rA \in RegId
      /\ srcA = imem.rA /\ srcB = imem.rB /\ valC = imem.valC
      /\ dstE = RNONE /\ dstM = RNONE
  BY FetchSignals, ImemType DEF NamesRegisters, TypeOK, imem, Instr,
     need_regids, rA, rB, need_valC, valC, srcA, srcB, dstE, dstM
<1>2. /\ valE = Wrap(imem.valC + get_reg_val(reg, imem.rB))
      /\ valA = get_reg_val(reg, imem.rA) /\ cc_in = cc
  BY <1>1, FetchSignals, AluAdd DEF aluA, aluB, alufun, valE, valA, valB,
     set_cc, cc_in
<1>3. /\ mem_write /\ mem_addr = valE /\ mem_data = valA
      /\ Stat = IF word_ok(valE) THEN "AOK" ELSE "ADR"
  BY FetchSignals DEF mem_read, mem_write, mem_addr, mem_data, dmem_error,
     instr_valid, Stat
<1> QED
  BY <1>1, <1>2, <1>3, FetchSignals, NoneInert DEF new_pc, valP, writeBack,
     writeMem, RmmovqStep

MrmovqStep ==
    ~imem_error /\ imem.icode = "IMRMOVQ" =>
        /\ imem.rA \in RegId
        /\ Stat = IF word_ok(Wrap(imem.valC + get_reg_val(reg, imem.rB))) THEN "AOK" ELSE "ADR"
        /\ new_pc = Wrap(pc + 1) /\ writeMem = mem /\ cc_in = cc
        /\ writeBack = set_reg_val(reg, imem.rA, get_word_val(mem, Wrap(imem.valC + get_reg_val(reg, imem.rB))))

\* A load, with or without a base register.
LEMMA ExecMrmovq == ASSUME TypeOK, NamesRegisters PROVE MrmovqStep
<1> SUFFICES ASSUME ~imem_error, imem.icode = "IMRMOVQ" PROVE MrmovqStep
  BY DEF MrmovqStep
<1>1. /\ imem.rA \in RegId
      /\ srcB = imem.rB /\ valC = imem.valC
      /\ dstE = RNONE /\ dstM = imem.rA
  BY FetchSignals, ImemType DEF NamesRegisters, TypeOK, imem, Instr,
     need_regids, rA, rB, need_valC, valC, srcB, dstE, dstM
<1>2. /\ valE = Wrap(imem.valC + get_reg_val(reg, imem.rB))
      /\ cc_in = cc
  BY <1>1, FetchSignals, AluAdd DEF aluA, aluB, alufun, valE, valA, valB,
     set_cc, cc_in
<1>3. /\ ~mem_write /\ valM = get_word_val(mem, valE)
      /\ Stat = IF word_ok(valE) THEN "AOK" ELSE "ADR"
  BY FetchSignals DEF mem_read, mem_write, mem_addr, dmem_error, valM,
     instr_valid, Stat
<1> QED
  BY <1>1, <1>2, <1>3, FetchSignals, NoneInert DEF new_pc, valP, writeBack,
     writeMem, MrmovqStep

AluStep ==
    ~imem_error /\ imem.icode = "IOPQ" =>
        /\ Stat = "AOK" /\ new_pc = Wrap(pc + 1) /\ writeMem = mem
        /\ writeBack = set_reg_val(reg, imem.rB,
                           compute_alu(imem.ifun, get_reg_val(reg, imem.rA),
                                       get_reg_val(reg, imem.rB)))
        /\ cc_in = compute_cc(imem.ifun, get_reg_val(reg, imem.rA),
                              get_reg_val(reg, imem.rB))

\* The ALU instructions set the condition codes.
LEMMA ExecAlu == ASSUME TypeOK, NamesRegisters PROVE AluStep
<1> SUFFICES ASSUME ~imem_error, imem.icode = "IOPQ" PROVE AluStep
  BY DEF AluStep
<1>1. /\ srcA = imem.rA /\ srcB = imem.rB
      /\ dstE = imem.rB /\ dstM = RNONE
  BY FetchSignals DEF need_regids, rA, rB, srcA, srcB, dstE, dstM
<1>2. /\ valE = compute_alu(imem.ifun, get_reg_val(reg, imem.rA),
                            get_reg_val(reg, imem.rB))
      /\ cc_in = compute_cc(imem.ifun, get_reg_val(reg, imem.rA),
                             get_reg_val(reg, imem.rB))
  BY <1>1, FetchSignals DEF aluA, aluB, alufun, valE, valA, valB, set_cc,
     cc_in
<1>3. dmem_error = FALSE /\ Stat = "AOK" /\ ~mem_write
  BY FetchSignals DEF mem_read, mem_write, dmem_error, instr_valid,
     Stat
<1> QED
  BY <1>1, <1>2, <1>3, FetchSignals, NoneInert DEF new_pc, valP, writeBack,
     writeMem, AluStep

IaddqStep ==
    ~imem_error /\ imem.icode = "IIADDQ" /\ "IIADDQ" \in design.iaddq =>
        /\ imem.rB \in RegId
        /\ Stat = "AOK" /\ new_pc = Wrap(pc + 1) /\ writeMem = mem
        /\ writeBack = set_reg_val(reg, imem.rB, Wrap(get_reg_val(reg, imem.rB) + imem.valC))
        /\ cc_in = compute_cc(A_ADD, imem.valC, get_reg_val(reg, imem.rB))

\* iaddq, the added instruction, too.
LEMMA ExecIaddq == ASSUME TypeOK, NamesRegisters PROVE IaddqStep
<1> SUFFICES ASSUME ~imem_error, imem.icode = "IIADDQ", "IIADDQ" \in design.iaddq
             PROVE  IaddqStep
  BY DEF IaddqStep
<1>1. /\ imem.rB \in RegId /\ imem.valC \in Word
      /\ valC = imem.valC /\ srcB = imem.rB /\ dstE = imem.rB /\ dstM = RNONE
  BY FetchSignals, ImemType DEF NamesRegisters, TypeOK, imem, Instr,
     need_regids, rA, rB, need_valC, valC, srcB, dstE, dstM
<1>2. /\ valE = Wrap(get_reg_val(reg, imem.rB) + imem.valC)
      /\ cc_in = compute_cc(A_ADD, imem.valC, get_reg_val(reg, imem.rB))
  BY <1>1, FetchSignals, AluStack, RegisterWords, SmallWords DEF aluA, aluB,
     alufun, valE, valA, valB, set_cc, cc_in
<1>3. dmem_error = FALSE /\ Stat = "AOK" /\ ~mem_write
  BY FetchSignals DEF mem_read, mem_write, dmem_error, instr_valid,
     Stat
<1> QED
  BY <1>1, <1>2, <1>3, FetchSignals, NoneInert DEF new_pc, valP, writeBack,
     writeMem, IaddqStep

JmpStep ==
    ~imem_error /\ imem.icode = "IJXX" =>
        /\ Stat = "AOK"
        /\ new_pc = IF cond_holds(cc, imem.ifun) THEN imem.valC ELSE Wrap(pc + 1)
        /\ writeBack = reg /\ writeMem = mem /\ cc_in = cc

\* Jumps.
LEMMA ExecJmp == ASSUME TypeOK, NamesRegisters PROVE JmpStep
<1> SUFFICES ASSUME ~imem_error, imem.icode = "IJXX" PROVE JmpStep
  BY DEF JmpStep
<1>1. valC = imem.valC /\ dstE = RNONE /\ dstM = RNONE
  BY FetchSignals DEF need_valC, valC, dstE, dstM
<1>2. cc_in = cc
  BY <1>1, FetchSignals DEF set_cc, cc_in
<1>3. dmem_error = FALSE /\ Stat = "AOK" /\ ~mem_write
  BY FetchSignals DEF mem_read, mem_write, dmem_error, instr_valid,
     Stat
<1> QED
  BY <1>1, <1>2, <1>3, FetchSignals, NoneInert DEF new_pc, valP, Cnd,
     writeBack, writeMem, JmpStep

CallStep ==
    ~imem_error /\ imem.icode = "ICALL" =>
        /\ Stat = IF word_ok(Wrap(get_reg_val(reg, RSP) - WordBytes)) THEN "AOK" ELSE "ADR"
        /\ new_pc = imem.valC /\ cc_in = cc
        /\ writeBack = set_reg_val(reg, RSP, Wrap(get_reg_val(reg, RSP) - WordBytes))
        /\ writeMem = set_word_val(mem, Wrap(get_reg_val(reg, RSP) - WordBytes), Wrap(pc + 1))

\* call pushes the return address.
LEMMA ExecCall == ASSUME TypeOK, NamesRegisters PROVE CallStep
<1> SUFFICES ASSUME ~imem_error, imem.icode = "ICALL" PROVE CallStep
  BY DEF CallStep
<1>1. valC = imem.valC /\ srcB = RSP /\ dstE = RSP /\ dstM = RNONE
  BY FetchSignals DEF need_valC, valC, srcB, dstE, dstM
<1>2. /\ valE = Wrap(get_reg_val(reg, RSP) - WordBytes)
      /\ cc_in = cc
  BY <1>1, FetchSignals, AluStack, RegisterWords, SmallWords DEF aluA, aluB,
     alufun, valE, valA, valB, set_cc, cc_in
<1>3. /\ mem_write /\ mem_addr = valE /\ mem_data = valP
      /\ Stat = IF word_ok(valE) THEN "AOK" ELSE "ADR"
  BY FetchSignals DEF mem_read, mem_write, mem_addr, mem_data, dmem_error,
     instr_valid, Stat
<1> QED
  BY <1>1, <1>2, <1>3, FetchSignals, NoneInert DEF new_pc, valP, writeBack,
     writeMem, CallStep

RetStep ==
    ~imem_error /\ imem.icode = "IRET" =>
        /\ Stat = IF word_ok(get_reg_val(reg, RSP)) THEN "AOK" ELSE "ADR"
        /\ new_pc = get_word_val(mem, get_reg_val(reg, RSP))
        /\ writeBack = set_reg_val(reg, RSP, Wrap(get_reg_val(reg, RSP) + WordBytes))
        /\ writeMem = mem /\ cc_in = cc

\* ret pops it.
LEMMA ExecRet == ASSUME TypeOK, NamesRegisters PROVE RetStep
<1> SUFFICES ASSUME ~imem_error, imem.icode = "IRET" PROVE RetStep
  BY DEF RetStep
<1>1. srcA = RSP /\ srcB = RSP /\ dstE = RSP /\ dstM = RNONE
  BY FetchSignals DEF srcA, srcB, dstE, dstM
<1>2. /\ valE = Wrap(get_reg_val(reg, RSP) + WordBytes)
      /\ valA = get_reg_val(reg, RSP) /\ cc_in = cc
  BY <1>1, FetchSignals, AluStack, RegisterWords, SmallWords DEF aluA, aluB,
     alufun, valE, valA, valB, set_cc, cc_in
<1>3. /\ ~mem_write /\ valM = get_word_val(mem, valA)
      /\ Stat = IF word_ok(valA) THEN "AOK" ELSE "ADR"
  BY FetchSignals DEF mem_read, mem_write, mem_addr, dmem_error, valM,
     instr_valid, Stat
<1> QED
  BY <1>1, <1>2, <1>3, FetchSignals, NoneInert DEF new_pc, writeBack,
     writeMem, RetStep

PushqStep ==
    ~imem_error /\ imem.icode = "IPUSHQ" =>
        /\ imem.rA \in RegId
        /\ Stat = IF word_ok(Wrap(get_reg_val(reg, RSP) - WordBytes)) THEN "AOK" ELSE "ADR"
        /\ new_pc = Wrap(pc + 1) /\ cc_in = cc
        /\ writeBack = set_reg_val(reg, RSP, Wrap(get_reg_val(reg, RSP) - WordBytes))
        /\ writeMem = set_word_val(mem, Wrap(get_reg_val(reg, RSP) - WordBytes),
                                get_reg_val(reg, imem.rA))

\* pushq stores the register as it was.
LEMMA ExecPushq == ASSUME TypeOK, NamesRegisters PROVE PushqStep
<1> SUFFICES ASSUME ~imem_error, imem.icode = "IPUSHQ" PROVE PushqStep
  BY DEF PushqStep
<1>1. /\ imem.rA \in RegId
      /\ srcA = imem.rA /\ srcB = RSP /\ dstE = RSP /\ dstM = RNONE
  BY FetchSignals, ImemType DEF NamesRegisters, TypeOK, imem, Instr,
     need_regids, rA, rB, srcA, srcB, dstE, dstM
<1>2. /\ valE = Wrap(get_reg_val(reg, RSP) - WordBytes)
      /\ valA = get_reg_val(reg, imem.rA) /\ cc_in = cc
  BY <1>1, FetchSignals, AluStack, RegisterWords, SmallWords DEF aluA, aluB,
     alufun, valE, valA, valB, set_cc, cc_in
<1>3. /\ mem_write /\ mem_addr = valE /\ mem_data = valA
      /\ Stat = IF word_ok(valE) THEN "AOK" ELSE "ADR"
  BY FetchSignals DEF mem_read, mem_write, mem_addr, mem_data, dmem_error,
     instr_valid, Stat
<1> QED
  BY <1>1, <1>2, <1>3, FetchSignals, NoneInert DEF new_pc, valP, writeBack,
     writeMem, PushqStep

PopqStep ==
    ~imem_error /\ imem.icode = "IPOPQ" =>
        /\ imem.rA \in RegId
        /\ Stat = IF word_ok(get_reg_val(reg, RSP)) THEN "AOK" ELSE "ADR"
        /\ new_pc = Wrap(pc + 1) /\ writeMem = mem /\ cc_in = cc
        /\ writeBack = set_reg_val(set_reg_val(reg, RSP, Wrap(get_reg_val(reg, RSP) + WordBytes)),
                                imem.rA, get_word_val(mem, get_reg_val(reg, RSP)))

\* popq writes %rsp first and the loaded register last.
LEMMA ExecPopq == ASSUME TypeOK, NamesRegisters PROVE PopqStep
<1> SUFFICES ASSUME ~imem_error, imem.icode = "IPOPQ" PROVE PopqStep
  BY DEF PopqStep
<1>1. /\ imem.rA \in RegId
      /\ srcA = RSP /\ srcB = RSP /\ dstE = RSP /\ dstM = imem.rA
  BY FetchSignals, ImemType DEF NamesRegisters, TypeOK, imem, Instr,
     need_regids, rA, rB, srcA, srcB, dstE, dstM
<1>2. /\ valE = Wrap(get_reg_val(reg, RSP) + WordBytes)
      /\ valA = get_reg_val(reg, RSP) /\ cc_in = cc
  BY <1>1, FetchSignals, AluStack, RegisterWords, SmallWords DEF aluA, aluB,
     alufun, valE, valA, valB, set_cc, cc_in
<1>3. /\ ~mem_write /\ valM = get_word_val(mem, valA)
      /\ Stat = IF word_ok(valA) THEN "AOK" ELSE "ADR"
  BY FetchSignals DEF mem_read, mem_write, mem_addr, dmem_error, valM,
     instr_valid, Stat
<1> QED
  BY <1>1, <1>2, <1>3, FetchSignals DEF new_pc, valP, writeBack, writeMem,
     PopqStep

(***************************************************************************)
(* Refinement.                                                             *)
(***************************************************************************)

StepState ==
    /\ FaultStep /\ NopStep /\ RrmovqStep /\ IrmovqStep /\ RmmovqStep
    /\ MrmovqStep /\ AluStep /\ IaddqStep /\ JmpStep /\ CallStep /\ RetStep
    /\ PushqStep /\ PopqStep
    /\ ~imem_error => imem.icode \in Icode

\* One evaluation of the datapath does what one call of step_state does.
LEMMA Datapath == ASSUME TypeOK, NamesRegisters PROVE StepState
<1>1. ~imem_error => imem.icode \in Icode
  BY ImemType DEF Instr
<1> QED
  BY <1>1, ExecFault, ExecNop, ExecRrmovq, ExecIrmovq, ExecRmmovq, ExecMrmovq,
     ExecAlu, ExecIaddq, ExecJmp, ExecCall, ExecRet, ExecPushq, ExecPopq
     DEF StepState

\* update_state brings the state to what the previous instruction left, and
\* the instruction that sim_step then evaluates starts from there.
LEMMA CaughtUp ==
    ASSUME TypeOK, sim_step
    PROVE  /\ status = "AOK" /\ status' = Stat'
           /\ arch_pc = pc' /\ arch_reg = reg' /\ arch_mem = mem' /\ arch_cc = cc'
<1>1. icount \in Nat /\ icount' = icount + 1
  BY LimitAssumption DEF TypeOK, sim_step
<1>2. icount' > 0
  BY <1>1
<1>3. status = "AOK" /\ (Executed <=> icount > 0)
  BY DEF sim_step, status, Executed
<1> QED
  BY <1>2, <1>3, PlusPc DEF sim_step, update_state, status, arch_pc, arch_reg,
     arch_mem, arch_cc

\* A successful evaluation shows at once in the architectural state, a failing
\* one only in the status.
LEMMA NextArch ==
    ASSUME TypeOK, sim_step
    PROVE  /\ Stat' = "AOK" => /\ arch_pc' = new_pc' /\ arch_reg' = writeBack'
                               /\ arch_mem' = writeMem' /\ arch_cc' = cc_in'
           /\ Stat' # "AOK" => /\ arch_pc' = pc' /\ arch_reg' = reg'
                               /\ arch_mem' = mem' /\ arch_cc' = cc'
<1>1. icount' > 0
  BY LimitAssumption DEF TypeOK, sim_step
<1> QED
  BY <1>1 DEF Executed, arch_pc, arch_reg, arch_mem, arch_cc

\* The instance has its own copies of the operators of Y86: they are the same.
LEMMA ArchOperators ==
    /\ Arch!WordBytes = WordBytes /\ Arch!A_ADD = A_ADD
    /\ \A x : Arch!Wrap(x) = Wrap(x)
    /\ \A p : Arch!word_ok(p) <=> word_ok(p)
    /\ \A c, k : Arch!cond_holds(c, k) <=> cond_holds(c, k)
    /\ \A f, id : Arch!get_reg_val(f, id) = get_reg_val(f, id)
    /\ \A f, id, v : Arch!set_reg_val(f, id, v) = set_reg_val(f, id, v)
    /\ \A f, p, v : Arch!set_word_val(f, p, v) = set_word_val(f, p, v)
    /\ \A op, a, b : Arch!compute_alu(op, a, b) = compute_alu(op, a, b)
    /\ \A op, a, b : Arch!compute_cc(op, a, b) = compute_cc(op, a, b)
<1>1. Arch!WordBytes = WordBytes /\ Arch!A_ADD = A_ADD
  BY DEF WordBytes, Arch!WordBytes, A_ADD, Arch!A_ADD
<1>2. \A x : Arch!Wrap(x) = Wrap(x)
  BY DEF Wrap, Arch!Wrap
<1>3. \A p : Arch!word_ok(p) <=> word_ok(p)
  BY <1>1 DEF word_ok, Arch!word_ok
<1>4. \A c, k : Arch!cond_holds(c, k) <=> cond_holds(c, k)
  BY DEF cond_holds, Arch!cond_holds
<1>5. /\ \A f, id : Arch!get_reg_val(f, id) = get_reg_val(f, id)
      /\ \A f, id, v : Arch!set_reg_val(f, id, v) = set_reg_val(f, id, v)
  BY DEF get_reg_val, Arch!get_reg_val, set_reg_val, Arch!set_reg_val
<1>6. \A f, p, v : Arch!set_word_val(f, p, v) = set_word_val(f, p, v)
  BY <1>3 DEF set_word_val, Arch!set_word_val
<1>7. \A op, a, b : Arch!compute_alu(op, a, b) = compute_alu(op, a, b)
  BY <1>2 DEF compute_alu, Arch!compute_alu, A_ADD, A_SUB, A_AND, A_XOR,
     Arch!A_ADD, Arch!A_SUB, Arch!A_AND, Arch!A_XOR
<1>8. \A op, a, b, v : Arch!overflow(op, a, b, v) <=> overflow(op, a, b, v)
  BY DEF overflow, Arch!overflow, A_ADD, A_SUB, Arch!A_ADD, Arch!A_SUB
<1>9. \A op, a, b : Arch!compute_cc(op, a, b) = compute_cc(op, a, b)
  BY <1>7, <1>8 DEF compute_cc, Arch!compute_cc
<1> QED
  BY <1>1, <1>2, <1>3, <1>4, <1>5, <1>6, <1>7, <1>9

\* Every call of sim_step is a step of the instruction-set machine.
LEMMA StepSimulates ==
    ASSUME TypeOK, sim_step, StepState'
    PROVE  Arch!Next \/ Arch!PreciseStackFault \/ MissingIaddq
<1> USE CaughtUp, NextArch, ArchOperators
<1>1. CASE imem_error'
  BY <1>1 DEF StepState, FaultStep, imem_error, Arch!Next, Arch!FetchError,
     Arch!Fail
<1> SUFFICES ASSUME ~imem_error'
             PROVE  Arch!Next \/ Arch!PreciseStackFault \/ MissingIaddq
  BY <1>1
<1>2. word_ok(arch_pc) /\ Arch!I = imem' /\ Arch!ftpc = Wrap(pc' + 1)
  BY DEF imem_error, imem, Arch!I, Arch!ftpc
<1>3. CASE imem'.icode = "INVALID"
  BY <1>2, <1>3 DEF StepState, FaultStep, Arch!Next, Arch!Invalid, Arch!Fetched,
     Arch!Fail
<1>4. CASE imem'.icode = "IHALT"
  BY <1>2, <1>4 DEF StepState, FaultStep, Arch!Next, Arch!Halt, Arch!Fetched,
     Arch!Fail
<1>5. CASE imem'.icode = "INOP"
  BY <1>2, <1>5 DEF StepState, NopStep, Arch!Next, Arch!Nop, Arch!Fetched,
     Arch!Succeed
<1>6. CASE imem'.icode = "IRRMOVQ"
  BY <1>2, <1>6 DEF StepState, RrmovqStep, Arch!Next, Arch!Rrmovq,
     Arch!Fetched, Arch!Succeed
<1>7. CASE imem'.icode = "IIRMOVQ"
  BY <1>2, <1>7 DEF StepState, IrmovqStep, Arch!Next, Arch!Irmovq,
     Arch!Fetched, Arch!Succeed
<1>8. CASE imem'.icode = "IRMMOVQ"
  BY <1>2, <1>8 DEF StepState, RmmovqStep, Arch!Next, Arch!Rmmovq,
     Arch!Fetched, Arch!Succeed, Arch!Fail, Arch!dataAddr
<1>9. CASE imem'.icode = "IMRMOVQ"
  BY <1>2, <1>9 DEF StepState, MrmovqStep, Arch!Next, Arch!Mrmovq,
     Arch!Fetched, Arch!Succeed, Arch!Fail, Arch!dataAddr, get_word_val
<1>10. CASE imem'.icode = "IOPQ"
  BY <1>2, <1>10 DEF StepState, AluStep, Arch!Next, Arch!Alu, Arch!Fetched,
     Arch!Succeed
<1>11. CASE imem'.icode = "IIADDQ"
  <2>1. CASE design'.iaddq = {}
    BY <1>2, <1>11, <2>1 DEF sim_step, StepState, FaultStep, MissingIaddq,
       Arch!Fetched, Arch!Fail
  <2>2. CASE "IIADDQ" \in design'.iaddq
    BY <1>2, <1>11, <2>2 DEF StepState, IaddqStep, Arch!Next, Arch!Iaddq,
       Arch!Fetched, Arch!Succeed
  <2>3. design'.iaddq = {} \/ "IIADDQ" \in design'.iaddq
    BY DesignsAssumption DEF sim_step, TypeOK, Design
  <2> QED
    BY <2>1, <2>2, <2>3
<1>12. CASE imem'.icode = "IJXX"
  BY <1>2, <1>12 DEF StepState, JmpStep, Arch!Next, Arch!Jmp, Arch!Fetched,
     Arch!Succeed
<1>13. CASE imem'.icode = "ICALL"
  BY <1>2, <1>13 DEF StepState, CallStep, Arch!Next, Arch!Call,
     Arch!Fetched, Arch!Succeed, Arch!Fail, Arch!PreciseStackFault, Arch!rsp
<1>14. CASE imem'.icode = "IRET"
  BY <1>2, <1>14 DEF StepState, RetStep, Arch!Next, Arch!Ret, Arch!Fetched,
     Arch!Succeed, Arch!Fail, Arch!rsp, get_word_val
<1>15. CASE imem'.icode = "IPUSHQ"
  BY <1>2, <1>15 DEF StepState, PushqStep, Arch!Next, Arch!Pushq,
     Arch!Fetched, Arch!Succeed, Arch!Fail, Arch!PreciseStackFault, Arch!rsp
<1>16. CASE imem'.icode = "IPOPQ"
  BY <1>2, <1>16 DEF StepState, PopqStep, Arch!Next, Arch!Popq,
     Arch!Fetched, Arch!Succeed, Arch!Fail, Arch!PreciseStackFault,
     Arch!rsp, get_word_val
<1>17. imem'.icode \in Icode
  BY DEF StepState
<1> QED
  BY <1>3, <1>4, <1>5, <1>6, <1>7, <1>8, <1>9, <1>10, <1>11, <1>12, <1>13, <1>14, <1>15, <1>16, <1>17 DEF Icode

\* SEQ implements the instruction-set machine whatever the program, as long as
\* its instructions name the registers that step_state tests for.
THEOREM SeqRefinesISA == ASSUME NamesRegisters PROVE Spec => SeqImplementsISA
<1>1. TypeOK => StepState
  BY Datapath
<1>2. TypeOK /\ StepState' /\ [Next]_vars => [Arch!Next \/ Arch!PreciseStackFault \/ MissingIaddq]_vars
  BY StepSimulates DEF Next
<1> QED
  BY <1>1, <1>2, SeqTypeCorrect, PTL DEF Spec, SeqImplementsISA
=============================================================================
