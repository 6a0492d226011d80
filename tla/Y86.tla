-------------------------------- MODULE Y86 --------------------------------
(***************************************************************************)
(* The Y86-64 vocabulary of misc/isa.h and misc/isa.c: words, registers,   *)
(* instructions, the ALU, the condition codes, and the accessors of memory *)
(* and of the register file.  Every processor model of the project (the    *)
(* instruction-set machine, the pipeline) is built from these operators.   *)
(*                                                                         *)
(* Abstractions.  A word is a two's complement integer of 2*HalfRange      *)
(* values instead of 2^64.  Memory is an array of words addressed by word, *)
(* so that the 8 of the code (the size of a word) is WordBytes = 1 here,   *)
(* and one word holds one whole instruction: Decode says which.  Code and  *)
(* data share the memory, as in the code.                                  *)
(***************************************************************************)
EXTENDS Integers

CONSTANTS
    HalfRange,   \* words are -HalfRange .. HalfRange-1
    MemLen,      \* m->len, in words
    RegId,       \* the ids for which reg_valid holds
    RSP,         \* REG_RSP
    RNONE,       \* REG_NONE
    Decode,      \* the instruction that a word of memory encodes
    AndW(_, _),  \* C's & on words
    XorW(_, _)   \* C's ^ on words

WordBytes == 1

Word == -HalfRange .. HalfRange - 1

\* The arithmetic of word_t: an Integer reduced to the word's width.
Wrap(x) == ((x + HalfRange) % (2 * HalfRange)) - HalfRange

Addr == 0 .. MemLen - 1

Icode == {"IHALT", "INOP", "IRRMOVQ", "IIRMOVQ", "IRMMOVQ", "IMRMOVQ", "IOPQ",
          "IJXX", "ICALL", "IRET", "IPUSHQ", "IPOPQ", "IIADDQ", "INVALID"}

Ifun == 0 .. 15

Reg == RegId \cup {RNONE}

Instr == [icode : Icode, ifun : Ifun, rA : Reg, rB : Reg, valC : Word]

Status == {"BUB", "AOK", "HLT", "ADR", "INS", "PIP"}

CC == [z : BOOLEAN, s : BOOLEAN, o : BOOLEAN]

DEFAULT_CC == [z |-> TRUE, s |-> FALSE, o |-> FALSE]

ASSUME WordAssumption ==
    /\ HalfRange \in Nat /\ WordBytes < HalfRange
    /\ MemLen \in Nat \ {0}
    /\ MemLen <= HalfRange

ASSUME RegAssumption == RSP \in RegId /\ RNONE \notin RegId

ASSUME DecodeAssumption == Decode \in [Word -> Instr]

ASSUME BitwiseAssumption ==
    \A a, b \in Word : AndW(a, b) \in Word /\ XorW(a, b) \in Word

(***************************************************************************)
(* The ALU: compute_alu, compute_cc and cond_holds of isa.c.  The operand  *)
(* order is the code's: A_SUB computes argB - argA.                        *)
(***************************************************************************)
A_ADD == 0
A_SUB == 1
A_AND == 2
A_XOR == 3

compute_alu(op, argA, argB) ==
    CASE op = A_ADD -> Wrap(argA + argB)
      [] op = A_SUB -> Wrap(argB - argA)
      [] op = A_AND -> AndW(argA, argB)
      [] op = A_XOR -> XorW(argA, argB)
      [] OTHER      -> 0

\* The overflow test of A_SUB compares argA > 0, not argA >= 0, as the code does.
overflow(op, argA, argB, val) ==
    \/ op = A_ADD /\ (argA < 0 <=> argB < 0) /\ ~(val < 0 <=> argA < 0)
    \/ op = A_SUB /\ (argA > 0 <=> argB < 0) /\ ~(val < 0 <=> argB < 0)

compute_cc(op, argA, argB) ==
    LET val == compute_alu(op, argA, argB)
    IN  [z |-> val = 0, s |-> val < 0, o |-> overflow(op, argA, argB, val)]

cond_holds(c, bcond) ==
    LET less == ~(c.s <=> c.o)
    IN  \/ bcond = 0                        \* C_YES
        \/ bcond = 1 /\ (less \/ c.z)       \* C_LE
        \/ bcond = 2 /\ less                \* C_L
        \/ bcond = 3 /\ c.z                 \* C_E
        \/ bcond = 4 /\ ~c.z                \* C_NE
        \/ bcond = 5 /\ ~less               \* C_GE
        \/ bcond = 6 /\ ~less /\ ~c.z       \* C_G

(***************************************************************************)
(* Memory and register file accessors.  get_word_val and set_word_val fail *)
(* outside the memory; REG_NONE reads as 0 and ignores a write.            *)
(***************************************************************************)
word_ok(pos) == 0 <= pos /\ pos + WordBytes <= MemLen

get_word_val(m, pos) == IF word_ok(pos) THEN m[pos] ELSE 0

set_word_val(m, pos, val) == IF word_ok(pos) THEN [m EXCEPT ![pos] = val] ELSE m

get_reg_val(r, id) == IF id \in RegId THEN r[id] ELSE 0

set_reg_val(r, id, val) == IF id \in RegId THEN [r EXCEPT ![id] = val] ELSE r

\* The memory that load_mem leaves: the object code over zeroed memory.
load_mem(code) == [a \in Addr |-> IF a \in DOMAIN code THEN code[a] ELSE 0]

\* Instructions that name a register wherever step_state tests for one (it
\* stops with STAT_INS at a REG_NONE); the hardware models have no such test.
NamesRegisters ==
    \A w \in Word :
        LET i == Decode[w]
        IN  /\ i.icode \in {"IRRMOVQ", "IRMMOVQ", "IMRMOVQ", "IPUSHQ", "IPOPQ"}
               => i.rA \in RegId
            /\ i.icode \in {"IRRMOVQ", "IIRMOVQ", "IIADDQ"} => i.rB \in RegId
=============================================================================
