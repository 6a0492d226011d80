------------------------------- MODULE Parser -------------------------------
(***************************************************************************)
(* The front end of the code scheduler of Project 3                        *)
(* (Project3/src/Parser.cpp, Instruction.cpp): an assembly line becomes    *)
(* the registers it writes and reads and its latency.                      *)
(*                                                                         *)
(* A line is [opcode, ops]; an operand is [text, base]: what stands before *)
(* a parenthesis and what stands in it, NoReg if nothing does, which is    *)
(* all that trim, split and cleanRegister leave of it.  Comments, labels   *)
(* and white space never reach this module.                                *)
(***************************************************************************)
EXTENDS Integers, Sequences, FiniteSets

CONSTANTS Text,  \* what can stand in an operand
          Names  \* the texts isRegister accepts: a function from the name to
                 \* the architectural register it stands for

NoReg == "none"  \* the empty string, where there is no register

ASSUME NamesAssumption ==
  /\ DOMAIN Names \subseteq Text \ {NoReg}
  /\ IsFiniteSet(DOMAIN Names)
  /\ NoReg \in Text

isRegister(s) == s \in DOMAIN Names

isRType(opcode) ==
  opcode \in {"add", "sub", "sll", "slt", "sltu", "xor", "srl", "sra", "or", "and",
              "addw", "subw", "sllw", "srlw", "sraw", "mul", "mulh", "mulhsu",
              "mulhu", "div", "divu", "rem", "remu", "mulw", "divw", "divuw",
              "remw", "remuw"}

isIType(opcode) ==
  opcode \in {"addi", "slti", "sltiu", "xori", "ori", "andi", "slli", "srli",
              "srai", "addiw", "slliw", "srliw", "sraiw"}

isLoad(opcode) == opcode \in {"lb", "lh", "lw", "ld", "lbu", "lhu", "lwu"}

isStore(opcode) == opcode \in {"sb", "sh", "sw", "sd"}

isBranch(opcode) == opcode \in {"beq", "bne", "blt", "bge", "bltu", "bgeu"}

getInstructionLatency(opcode) ==
  CASE opcode \in {"mul", "mulh", "mulhsu", "mulhu", "mulw"} -> 3
    [] opcode \in {"div", "divu", "divw", "divuw", "rem", "remu", "remw", "remuw"} -> 10
    [] isLoad(opcode) -> 5
    [] OTHER -> 1

\* The first operand, NoReg if there is none.
firstOf(line) == IF Len(line.ops) >= 1 THEN line.ops[1].text ELSE NoReg

\* An instruction whose form needs arity operands: with fewer it is left
\* without registers, and what is no register is no source.
form(line, arity, dest, srcs) ==
  [dest |-> IF Len(line.ops) >= arity THEN dest ELSE NoReg,
   srcs |-> {r \in srcs : Len(line.ops) >= arity /\ isRegister(r)},
   latency |-> getInstructionLatency(line.opcode)]

(* Which operands an opcode writes and reads.  The first operand of most
   forms becomes the destination unexamined, that of jal and of an unknown
   opcode only if it is a register. *)
parseLine(line) ==
  LET op == line.opcode
      ops == line.ops
      first == firstOf(line)
      firstRegister == IF isRegister(first) THEN first ELSE NoReg
  IN CASE isRType(op) -> form(line, 3, first, {ops[2].text, ops[3].text})
       [] isLoad(op) -> form(line, 2, first, {ops[2].base})
       [] isStore(op) -> form(line, 2, NoReg, {first, ops[2].base})
       [] isIType(op) \/ op \in {"mv", "jalr"} -> form(line, 2, first, {ops[2].text})
       [] isBranch(op) -> form(line, 2, NoReg, {first, ops[2].text})
       [] op \in {"li", "lui", "auipc"} -> form(line, 1, first, {})
       [] op = "jal" -> form(line, 1, firstRegister, {})
       [] OTHER -> form(line, 0, firstRegister, {ops[i].text : i \in 2 .. Len(ops)})

parse(lines) == [i \in DOMAIN lines |-> parseLine(lines[i])]

(***************************************************************************)
(* What the lines mean, from the comments on the forms (Parser.cpp         *)
(* 62-168): an instruction writes its first operand unless it is a store   *)
(* or a branch, and reads every other register it names.                   *)
(***************************************************************************)
Architectural(names) == {Names[r] : r \in {n \in names : isRegister(n)}}

WritesNothing(line) == isStore(line.opcode) \/ isBranch(line.opcode)

Defines(line) ==
  IF WritesNothing(line) \/ Len(line.ops) = 0 THEN {}
  ELSE Architectural({line.ops[1].text})

Uses(line) ==
  Architectural(  {line.ops[i].text : i \in (IF WritesNothing(line) THEN 1 ELSE 2) .. Len(line.ops)}
             \cup {line.ops[i].base : i \in DOMAIN line.ops})

(* A line as the forms have it: it has the operands its form needs, and a
   register stands only where the form looks for one. *)
WellFormed(line) ==
  LET op == line.opcode
      texts == {i \in DOMAIN line.ops : isRegister(line.ops[i].text)}
      bases == {i \in DOMAIN line.ops : isRegister(line.ops[i].base)}
  IN
  /\ bases \subseteq (IF isLoad(op) \/ isStore(op) THEN {2} ELSE {})
  /\ isRType(op) => Len(line.ops) >= 3 /\ texts \subseteq 1 .. 3
  /\ isIType(op) \/ isBranch(op) \/ op \in {"mv", "jalr"} =>
       Len(line.ops) >= 2 /\ texts \subseteq 1 .. 2
  /\ isLoad(op) \/ isStore(op) => Len(line.ops) >= 2 /\ texts \subseteq {1}
  /\ op \in {"li", "lui", "auipc", "jal"} => texts \subseteq {1}
-----------------------------------------------------------------------------
Operand == [text : Text, base : Text]
Line == [opcode : STRING, ops : Seq(Operand)]
Instruction == [dest : Text, srcs : SUBSET DOMAIN Names, latency : Nat \ {0}]
=============================================================================
