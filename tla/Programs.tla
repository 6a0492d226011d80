------------------------------ MODULE Programs ------------------------------
(***************************************************************************)
(* The words, registers and instruction encodings that the Y86 models are  *)
(* checked with.                                                           *)
(***************************************************************************)
EXTENDS Y86, Sequences, Bitwise

MCHalfRange == 16
MCMemLen == 9
MCRegId == {"rax", "rcx", "rsp"}
MCAnd(a, b) == LET u == (a + 32) % 32  v == (b + 32) % 32 IN Wrap(u & v)
MCXor(a, b) == LET u == (a + 32) % 32  v == (b + 32) % 32 IN Wrap(u ^^ v)

ins(ic, fn, ra, rb, c) ==
    [icode |-> ic, ifun |-> fn, rA |-> ra, rB |-> rb, valC |-> c]

N == "none"

\* The encodings: word i encodes Table[i + 1]; the memory is zero-filled and a
\* zero word is halt, as in Y86-64.
Table == <<
    ins("IHALT", 0, N, N, 0),              \* 0
    ins("IIRMOVQ", 0, N, "rsp", 8),        \* 1   top of the stack
    ins("IIRMOVQ", 0, N, "rcx", 7),        \* 2   a data address
    ins("IIADDQ", 0, N, "rax", 7),         \* 3
    ins("IOPQ", A_SUB, "rax", "rcx", 0),   \* 4
    ins("IRRMOVQ", 1, "rax", "rcx", 0),    \* 5   cmovle
    ins("IRMMOVQ", 0, "rax", "rcx", 0),    \* 6
    ins("IMRMOVQ", 0, "rax", "rcx", 0),    \* 7
    ins("IMRMOVQ", 0, "rcx", "rsp", -1),   \* 8
    ins("IPUSHQ", 0, "rax", N, 0),         \* 9
    ins("IPOPQ", 0, "rax", N, 0),          \* 10
    ins("IPOPQ", 0, "rsp", N, 0),          \* 11
    ins("IPUSHQ", 0, "rsp", N, 0),         \* 12
    ins("IJXX", 0, N, N, 2),               \* 13
    ins("IJXX", 4, N, N, 4),               \* 14  jne
    ins("ICALL", 0, N, N, 3) >>            \* 15

\* Word -i encodes NegTable[i]; the other words encode nothing valid.
NegTable == <<
    ins("IRET", 0, N, N, 0),               \* -1
    ins("INOP", 0, N, N, 0),               \* -2
    ins("IOPQ", A_ADD, "rcx", "rsp", 0),   \* -3
    ins("IJXX", 1, N, N, 0),               \* -4  jle
    ins("IOPQ", A_XOR, "rcx", "rcx", 0) >> \* -5

BadIns == ins("INVALID", 0, N, N, 0)

MCDecode == [w \in Word |->
    IF w >= 0 THEN Table[w + 1]
    ELSE IF -w <= Len(NegTable) THEN NegTable[-w]
    ELSE BadIns]

\* The programs of n words of `pool` after a first word that sets %rsp.
ProgramsOf(pool, n) == { code \in [0 .. n -> pool \cup {1}] : code[0] = 1 }
=============================================================================
