----------------------------- MODULE YasEncode ------------------------------
(***************************************************************************)
(* How yas turns the tokens of a line into bytes: the instruction table of *)
(* misc/isa.c and get_reg, get_num and get_mem of misc/yas.c.  A token is  *)
(* a record [type, val]; past the end of a line every token is TOK_ERR     *)
(* (start_line).  Positions in a line count from 1, those in the code from *)
(* 0 as in the source.                                                     *)
(***************************************************************************)
EXTENDS Integers, Sequences

Tok(type, val) == [type |-> type, val |-> val]

TOK_ERR == Tok("ERR", "")

TokAt(tk, i) == IF i \in DOMAIN tk THEN tk[i] ELSE TOK_ERR

Punct(tk, i, c) == TokAt(tk, i).type = "PUNCT" /\ TokAt(tk, i).val = c

REG_NONE == 15

reg_table == <<"rax", "rcx", "rdx", "rbx", "rsp", "rbp", "rsi", "rdi",
               "r8", "r9", "r10", "r11", "r12", "r13", "r14">>

IndexOf(names, n) == (CHOOSE i \in DOMAIN names : names[i] = n) - 1

find_register(name) == IndexOf(reg_table, name)

-----------------------------------------------------------------------------
(* The instruction table.  An argument is its kind, its position in the    *)
(* code and, for a register, whether it goes into the high four bits; for  *)
(* a number, how many bytes it takes.                                      *)

RArg(p, hi) == [kind |-> "R_ARG", pos |-> p, hi |-> hi]
MArg(p) == [kind |-> "M_ARG", pos |-> p, hi |-> 0]
IArg(p, bytes) == [kind |-> "I_ARG", pos |-> p, hi |-> bytes]
NoArg == [kind |-> "NO_ARG", pos |-> 0, hi |-> 0]

HPACK(hi, lo) == 16 * hi + lo

Row(code, bytes, arg1, arg2) ==
    [code |-> code, bytes |-> bytes, arg1 |-> arg1, arg2 |-> arg2]

Moves == <<"rrmovq", "cmovle", "cmovl", "cmove", "cmovne", "cmovge", "cmovg">>
Jumps == <<"jmp", "jle", "jl", "je", "jne", "jge", "jg">>
Alus == <<"addq", "subq", "andq", "xorq">>

Allocs == <<".byte", ".word", ".long", ".quad">>

In(n, names) == \E i \in DOMAIN names : names[i] = n

\* What the lexer makes of the characters of a line: it takes for an
\* instruction or a register only the words of its rules.
Named(names) == {names[i] : i \in DOMAIN names}

Instr == Named(Moves) \cup Named(Jumps) \cup Named(Alus) \cup Named(Allocs) \cup
         {"rmmovq", "mrmovq", "irmovq", "iaddq", "call", "ret", "pushq", "popq", "halt", "nop",
          ".pos", ".align"}

Token == [type : {"NUM"}, val : Int] \cup
         [type : {"IDENT"}, val : STRING] \cup
         [type : {"REG"}, val : Named(reg_table)] \cup
         [type : {"INSTR"}, val : Instr] \cup
         [type : {"PUNCT"}, val : {"(", ")", ":", ","}]

find_instr(n) ==
    CASE n = "nop"      -> Row(HPACK(1, 0), 1, NoArg, NoArg)
      [] n = "halt"     -> Row(HPACK(0, 0), 1, NoArg, NoArg)
      [] In(n, Moves)   -> Row(HPACK(2, IndexOf(Moves, n)), 2, RArg(1, 1), RArg(1, 0))
      [] n = "irmovq"   -> Row(HPACK(3, 0), 10, IArg(2, 8), RArg(1, 0))
      [] n = "rmmovq"   -> Row(HPACK(4, 0), 10, RArg(1, 1), MArg(1))
      [] n = "mrmovq"   -> Row(HPACK(5, 0), 10, MArg(1), RArg(1, 1))
      [] In(n, Alus)    -> Row(HPACK(6, IndexOf(Alus, n)), 2, RArg(1, 1), RArg(1, 0))
      [] In(n, Jumps)   -> Row(HPACK(7, IndexOf(Jumps, n)), 9, IArg(1, 8), NoArg)
      [] n = "call"     -> Row(HPACK(8, 0), 9, IArg(1, 8), NoArg)
      [] n = "ret"      -> Row(HPACK(9, 0), 1, NoArg, NoArg)
      [] n = "pushq"    -> Row(HPACK(10, 0), 2, RArg(1, 1), NoArg)
      [] n = "popq"     -> Row(HPACK(11, 0), 2, RArg(1, 1), NoArg)
      [] n = "iaddq"    -> Row(HPACK(12, 0), 10, IArg(2, 8), RArg(1, 0))
      [] n = ".byte"    -> Row(0, 1, IArg(0, 1), NoArg)
      [] n = ".word"    -> Row(0, 2, IArg(0, 2), NoArg)
      [] n = ".long"    -> Row(0, 4, IArg(0, 4), NoArg)
      [] n = ".quad"    -> Row(0, 8, IArg(0, 8), NoArg)

-----------------------------------------------------------------------------
(* Operands.  s is what the functions share: the position in the line, the *)
(* code so far and whether fail was called.                                *)

\* The byte i of a word of 64 bits.
Byte(v, i) ==
    LET half == IF i < 4 THEN v ELSE (v \div 65536) \div 65536
    IN (half \div 256^(i % 4)) % 256

failed(s) == [s EXCEPT !.ok = FALSE]

SetLow(b, n) == (b - (b % 16)) + n

SetHigh(b, n) == 16 * n + (b % 16)

\* The position of a label, the first one of the name; -1 if there is none.
Defines(symbols, name) == {i \in DOMAIN symbols : symbols[i].name = name}

\* Mutant: the last definition of a label wins.
find_symbol_last(symbols, name) ==
    LET at == Defines(symbols, name)
    IN IF at = {} THEN -1 ELSE symbols[CHOOSE i \in at : \A j \in at : j <= i].pos

find_symbol(symbols, name) ==
    LET at == Defines(symbols, name)
    IN IF at = {} THEN -1 ELSE symbols[CHOOSE i \in at : \A j \in at : i <= j].pos

get_reg(tk, arg, s) ==
    LET t == TokAt(tk, s.tpos)
        r == find_register(t.val)
    IN IF t.type # "REG" THEN failed(s)
       ELSE [s EXCEPT !.tpos = @ + 1,
                      !.code[arg.pos] = IF arg.hi = 1 THEN SetHigh(@, r) ELSE SetLow(@, r)]

PutNum(code, pos, bytes, v) ==
    [i \in DOMAIN code |-> IF i \in pos .. pos + bytes - 1 THEN Byte(v, i - pos) ELSE code[i]]

\* The number or the label at the current position.
IsValue(t) == t.type \in {"NUM", "IDENT"}

Value(t, symbols) == IF t.type = "NUM" THEN t.val ELSE find_symbol(symbols, t.val)

Found(t, symbols) == t.type = "IDENT" => Defines(symbols, t.val) # {}

get_num(tk, arg, s, symbols) ==
    LET t == TokAt(tk, s.tpos)
    IN IF ~IsValue(t) THEN failed(s)
       ELSE [tpos |-> s.tpos + 1,
             code |-> PutNum(s.code, arg.pos, arg.hi, Value(t, symbols)),
             ok |-> s.ok /\ Found(t, symbols)]

\* An optional displacement, then an optional register in parentheses.
Displacement(t, symbols) == IF IsValue(t) THEN Value(t, symbols) ELSE 0

AfterDisplacement(tk, p) == IF IsValue(TokAt(tk, p)) THEN p + 1 ELSE p

PutMem(code, pos, r, v) == PutNum([code EXCEPT ![pos] = SetLow(@, r)], pos + 1, 8, v)

get_mem(tk, arg, s, symbols) ==
    LET t == TokAt(tk, s.tpos)
        p == AfterDisplacement(tk, s.tpos)
        paren == Punct(tk, p, "(")
        base == TokAt(tk, p + 1)
        s1 == [s EXCEPT !.ok = @ /\ Found(t, symbols)]
        put(r) == PutMem(s.code, arg.pos, r, Displacement(t, symbols))
    IN CASE ~paren -> [s1 EXCEPT !.tpos = p, !.code = put(REG_NONE)]
         [] paren /\ base.type # "REG" -> [failed(s1) EXCEPT !.tpos = p + 1]
         [] paren /\ base.type = "REG" /\ Punct(tk, p + 2, ")") ->
                [s1 EXCEPT !.tpos = p + 3, !.code = put(find_register(base.val))]
         [] OTHER -> [failed(s1) EXCEPT !.tpos = IF TokAt(tk, p + 2).type = "PUNCT" THEN p + 3
                                                 ELSE p + 2]

Operand(tk, arg, s, symbols) ==
    CASE arg.kind = "R_ARG"  -> get_reg(tk, arg, s)
      [] arg.kind = "M_ARG"  -> get_mem(tk, arg, s, symbols)
      [] arg.kind = "I_ARG"  -> get_num(tk, arg, s, symbols)
      [] arg.kind = "NO_ARG" -> s

\* The operands of the instruction at position p; printed is false on the
\* early return of a missing comma.  What follows the operands is not read.
Encode(tk, p, symbols, code) ==
    LET ins == find_instr(tk[p].val)
        s0 == [tpos |-> p + 1, ok |-> TRUE,
               code |-> [code EXCEPT ![0] = ins.code, ![1] = HPACK(REG_NONE, REG_NONE)]]
        s1 == Operand(tk, ins.arg1, s0, symbols)
        comma == Punct(tk, s1.tpos, ",")
        s2 == Operand(tk, ins.arg2, [s1 EXCEPT !.tpos = @ + 1], symbols)
        res(s, printed) == [code |-> s.code, ok |-> s.ok, printed |-> printed]
    IN CASE ins.arg2.kind = "NO_ARG" -> res(s1, TRUE)
         [] ins.arg2.kind # "NO_ARG" /\ ~comma -> res(failed(s1), FALSE)
         [] OTHER -> res(s2, TRUE)
=============================================================================
