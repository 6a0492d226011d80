-------------------------------- MODULE ISA --------------------------------
(***************************************************************************)
(* The instruction-set machine: state_rec and step_state of misc/isa.c,    *)
(* run in a loop by yis.c and by the simulators' -t check until the status *)
(* is no longer AOK.  Each action is one case of step_state's switch.      *)
(*                                                                         *)
(* step_state decides between success and failure in the order of its      *)
(* tests: what it has assigned before a failing test stays assigned (call, *)
(* pushq and popq move %rsp before they touch the stack).                  *)
(***************************************************************************)
EXTENDS Y86

CONSTANT Codes   \* the object files: functions from addresses to words

VARIABLES
    pc,    \* s->pc
    r,     \* s->r
    m,     \* s->m
    cc,    \* s->cc
    stat   \* e, what the last step_state returned

vars == <<pc, r, m, cc, stat>>

TypeOK ==
    /\ pc \in Word
    /\ r \in [RegId -> Word]
    /\ m \in [Addr -> Word]
    /\ cc \in CC
    /\ stat \in Status

\* new_state followed by load_mem.
Init ==
    /\ pc = 0
    /\ r = [id \in RegId |-> 0]
    /\ \E code \in Codes : m = load_mem(code)
    /\ cc = DEFAULT_CC
    /\ stat = "AOK"

-----------------------------------------------------------------------------

\* The instruction at pc, the fall-through pc, and the stack pointer.
I == Decode[m[pc]]
ftpc == Wrap(pc + 1)
rsp == get_reg_val(r, RSP)

\* The step begins: the loop goes on and the opcode byte can be read.
Fetched(icode) ==
    /\ stat = "AOK"
    /\ word_ok(pc)
    /\ I.icode = icode

\* step_state returns a failure having changed nothing but what `r2` says.
Fail(code, r2) ==
    /\ stat' = code
    /\ r' = r2
    /\ UNCHANGED <<pc, m, cc>>

Succeed(pc2, r2, m2, cc2) ==
    /\ pc' = pc2
    /\ r' = r2
    /\ m' = m2
    /\ cc' = cc2
    /\ stat' = "AOK"

FetchError == stat = "AOK" /\ ~word_ok(pc) /\ Fail("ADR", r)

Nop == Fetched("INOP") /\ Succeed(ftpc, r, m, cc)

Halt == Fetched("IHALT") /\ Fail("HLT", r)

Invalid == Fetched("INVALID") /\ Fail("INS", r)

\* A register operand of these instructions is REG_NONE: STAT_INS.
BadRegister ==
    /\ \/ Fetched("IRRMOVQ") /\ (I.rA \notin RegId \/ I.rB \notin RegId)
       \/ Fetched("IIRMOVQ") /\ I.rB \notin RegId
       \/ Fetched("IRMMOVQ") /\ I.rA \notin RegId
       \/ Fetched("IMRMOVQ") /\ I.rA \notin RegId
       \/ Fetched("IPUSHQ") /\ I.rA \notin RegId
       \/ Fetched("IPOPQ") /\ I.rA \notin RegId
       \/ Fetched("IIADDQ") /\ I.rB \notin RegId
    /\ Fail("INS", r)

\* Both the unconditional and the conditional moves.
Rrmovq ==
    /\ Fetched("IRRMOVQ")
    /\ I.rA \in RegId /\ I.rB \in RegId
    /\ Succeed(ftpc,
               IF cond_holds(cc, I.ifun)
               THEN set_reg_val(r, I.rB, get_reg_val(r, I.rA)) ELSE r,
               m, cc)

Irmovq ==
    /\ Fetched("IIRMOVQ")
    /\ I.rB \in RegId
    /\ Succeed(ftpc, set_reg_val(r, I.rB, I.valC), m, cc)

\* The data address: the base register counts only when it is a valid one.
dataAddr == Wrap(I.valC + get_reg_val(r, I.rB))

Rmmovq ==
    /\ Fetched("IRMMOVQ")
    /\ I.rA \in RegId
    /\ IF word_ok(dataAddr)
       THEN Succeed(ftpc, r, set_word_val(m, dataAddr, get_reg_val(r, I.rA)), cc)
       ELSE Fail("ADR", r)

Mrmovq ==
    /\ Fetched("IMRMOVQ")
    /\ I.rA \in RegId
    /\ IF word_ok(dataAddr)
       THEN Succeed(ftpc, set_reg_val(r, I.rA, m[dataAddr]), m, cc)
       ELSE Fail("ADR", r)

\* No test of the register ids here.
Alu ==
    /\ Fetched("IOPQ")
    /\ LET argA == get_reg_val(r, I.rA)
           argB == get_reg_val(r, I.rB)
       IN  Succeed(ftpc, set_reg_val(r, I.rB, compute_alu(I.ifun, argA, argB)),
                   m, compute_cc(I.ifun, argA, argB))

Iaddq ==
    /\ Fetched("IIADDQ")
    /\ I.rB \in RegId
    /\ LET argB == get_reg_val(r, I.rB)
       IN  Succeed(ftpc, set_reg_val(r, I.rB, Wrap(argB + I.valC)),
                   m, compute_cc(A_ADD, I.valC, argB))

Jmp ==
    /\ Fetched("IJXX")
    /\ Succeed(IF cond_holds(cc, I.ifun) THEN I.valC ELSE ftpc, r, m, cc)

\* %rsp is assigned before the stack is written.
Call ==
    /\ Fetched("ICALL")
    /\ LET val == Wrap(rsp - WordBytes)
           r2 == set_reg_val(r, RSP, val)
       IN  IF word_ok(val)
           THEN Succeed(I.valC, r2, set_word_val(m, val, ftpc), cc)
           ELSE Fail("ADR", r2)

Ret ==
    /\ Fetched("IRET")
    /\ IF word_ok(rsp)
       THEN Succeed(m[rsp], set_reg_val(r, RSP, Wrap(rsp + WordBytes)), m, cc)
       ELSE Fail("ADR", r)

\* pushq %rsp pushes the old %rsp.
Pushq ==
    /\ Fetched("IPUSHQ")
    /\ I.rA \in RegId
    /\ LET val == get_reg_val(r, I.rA)
           dval == Wrap(rsp - WordBytes)
           r2 == set_reg_val(r, RSP, dval)
       IN  IF word_ok(dval)
           THEN Succeed(ftpc, r2, set_word_val(m, dval, val), cc)
           ELSE Fail("ADR", r2)

\* popq %rsp leaves the popped value in %rsp.
Popq ==
    /\ Fetched("IPOPQ")
    /\ I.rA \in RegId
    /\ LET r2 == set_reg_val(r, RSP, Wrap(rsp + WordBytes))
       IN  IF word_ok(rsp)
           THEN Succeed(ftpc, set_reg_val(r2, I.rA, m[rsp]), m, cc)
           ELSE Fail("ADR", r2)

\* What the hardware models do at a call, pushq or popq with a bad stack
\* address: step_state has moved %rsp when it fails, they leave every register
\* unchanged.  Not a step of this machine.
PreciseStackFault ==
    /\ \/ Fetched("ICALL") /\ ~word_ok(Wrap(rsp - WordBytes))
       \/ Fetched("IPUSHQ") /\ ~word_ok(Wrap(rsp - WordBytes))
       \/ Fetched("IPOPQ") /\ ~word_ok(rsp)
    /\ Fail("ADR", r)

Next ==
    \/ FetchError \/ Nop \/ Halt \/ Invalid \/ BadRegister
    \/ Rrmovq \/ Irmovq \/ Rmmovq \/ Mrmovq \/ Alu \/ Iaddq
    \/ Jmp \/ Call \/ Ret \/ Pushq \/ Popq

Spec == Init /\ [][Next]_vars

\* The loop of yis.c goes on stepping as long as the status is AOK.
FairSpec == Spec /\ WF_vars(Next)
=============================================================================
