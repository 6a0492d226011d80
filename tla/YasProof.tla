----------------------------- MODULE YasProof ------------------------------
(***************************************************************************)
(* The two passes of yas, for every file.                                  *)
(*                                                                         *)
(* Addresses: a line read with empty buffers moves the address by an       *)
(* amount that its tokens and the address before it determine (After).  As *)
(* long as there was no error, the buffers are empty before every line, so *)
(* pass 1 leaves a chain of addresses each obtained from the one before by *)
(* After, and pass 2 walks along it.                                       *)
(*                                                                         *)
(* Code: for each class of the instruction table, what Encode leaves in    *)
(* the ten bytes is what step_state fetches back as the statement, and it  *)
(* fails on every other line (LineEncodes).                                *)
(*                                                                         *)
(* Errors: with the symbol table the labels of the lines so far, each at   *)
(* the address of its first line, an error is reported at the first wrong  *)
(* line and at no other (ErrorInv).                                        *)
(*                                                                         *)
(* Fetch: without an error the .yo file holds the bytes of every line of   *)
(* code so far, in the order of the lines, and the memory holds the .yo    *)
(* file as far as load_mem has read it (FetchInv).                         *)
(***************************************************************************)
EXTENDS Yas, TLAPS

\* The address after a line that is read with empty buffers from address b.
After(l, b) ==
    LET tk == l.toks
        at == IF TokAt(tk, 1).type = "IDENT" THEN 3 ELSE 1
        stmt == TokAt(tk, at)
        arg == TokAt(tk, at + 1)
        is(name) == stmt.type = "INSTR" /\ stmt.val = name
        labelOnly == TokAt(tk, 1).type = "IDENT" /\ Len(tk) = 2
    IN CASE l.end # "newline" \/ tk = <<>> \/ labelOnly -> b
         [] OTHER -> IF is(".pos") THEN ToInt(arg.val)
                     ELSE IF is(".align") THEN AlignUp(b, ToInt(arg.val))
                     ELSE ToInt(b + find_instr(tk[at].val).bytes)

\* The lines before n have been read in pass 1 without an error.
Chain(n) ==
    \A i \in 1 .. n - 1 : passone[i + 1] = After(src[i], passone[i])

Counters ==
    /\ src \in Sources
    /\ pass \in {1, 2}
    /\ lineno \in 1 .. Len(src) + 1
    /\ passone = [i \in 1 .. Len(src) + 1 |-> passone[i]]

Clean ==
    /\ error_mode = FALSE
    /\ lineno <= Len(src) => tokens = <<>>
    /\ pass = 1 /\ lineno <= Len(src) => lex = "INITIAL"

AddressInv ==
    ~hit_error =>
        /\ Clean
        /\ passone[1] = 0
        /\ passone[lineno] = bytepos
        /\ pass = 1 => Chain(lineno)
        /\ pass = 2 => Chain(Len(src) + 1)

YasInv == Counters /\ AddressInv

-----------------------------------------------------------------------------

LEMMA SourceLine ==
    ASSUME Counters
    PROVE  /\ Len(src) \in Nat /\ DOMAIN src = 1 .. Len(src)
           /\ \A i \in 1 .. Len(src) :
                  src[i].toks \in Seq(Token) /\ (src[i].end \in {"eof", "bad_eof"} => i = Len(src))
<1> DEFINE Line == [toks : Seq(Token), end : {"newline", "bad", "eof", "bad_eof"},
                    text : {"fits", "refused", "overruns"}]
<1>1. src \in Seq(Line) /\ \A i \in DOMAIN src : src[i].end \in {"eof", "bad_eof"} => i = Len(src)
  BY SourcesAssumption DEF Counters, IsFile
<1>2. Len(src) \in Nat /\ DOMAIN src = 1 .. Len(src)
  BY <1>1
<1>3. ASSUME NEW i \in 1 .. Len(src) PROVE src[i].toks \in Seq(Token)
  <2>1. src[i] \in Line
    <3> HIDE DEF Line
    <3> QED
      BY <1>1, <1>2
  <2> QED
    BY <2>1
<1> QED
  BY <1>1, <1>2, <1>3

LEMMA InitEstablishes == Init => YasInv
<1> SUFFICES ASSUME Init PROVE YasInv
  OBVIOUS
<1>1. Len(src) \in Nat
  BY SourcesAssumption DEF Init, IsFile
<1>2. Counters
  BY <1>1 DEF Init, Counters
<1>3. AddressInv
  BY <1>1 DEF Init, AddressInv, Clean, Chain
<1> QED
  BY <1>2, <1>3 DEF YasInv

\* With empty buffers the tokens are those of the line, and no earlier error waits.
LEMMA CleanTokens ==
    ASSUME YasInv, ~hit_error, Reading
    PROVE  /\ Tokens = src[lineno].toks /\ (ErrorPending <=> Refused) /\ tokens = <<>>
           /\ lineno \in 1 .. Len(src)
<1>1. lineno \in 1 .. Len(src)
  BY SourceLine DEF YasInv, Counters, Reading, Input
<1>2. tokens = <<>> /\ error_mode = FALSE
  BY DEF YasInv, AddressInv, Clean, Reading, Input
<1>3. src[lineno].toks \in Seq(Token)
  BY <1>1, SourceLine DEF YasInv
<1> QED
  BY <1>1, <1>2, <1>3 DEF Tokens, ErrorPending

\* A step of the assembler in a line goes on to the next line, or exits.
LEMMA ReadingSteps ==
    ASSUME Counters, Next, Reading
    PROVE  /\ NextLine \/ AddressLimit
           /\ ~hit_error' => ~hit_error
           /\ lineno \in 1 .. Len(src)
<1>1. Len(src) \in Nat /\ lineno \in 1 .. Len(src) + 1
  BY SourceLine DEF Counters
<1>2. lineno \in 1 .. Len(src) /\ ~(lineno > Len(src))
  BY <1>1 DEF Reading, Input
<1>3. ~EndPass1 /\ ~EndPass2 /\ ~LoadLine /\ ~LoadEnds
  BY <1>2 DEF Reading, Input, EndPass1, EndPass2, EndOfFile, LoadLine, LoadEnds
<1>4. ASSUME Generate PROVE ~hit_error' => ~hit_error
  BY <1>4 DEF Generate
<1>o. ~Overrun
  BY DEF Overrun, Reading
<1>5. NextLine \/ AddressLimit
  BY <1>3, <1>o DEF Next, Assemble, InvalidLine, LastLine, EmptyLine, ErrorLine, MissingColon,
     LabelOnly, BadInstruction, BadDirective, Directive, Measure, Generate
<1>6. ~hit_error' => ~hit_error
  BY <1>3, <1>4, <1>o DEF Next, Assemble, InvalidLine, LastLine, EmptyLine, ErrorLine,
     MissingColon, LabelOnly, BadInstruction, BadDirective, Directive, Measure, AddressLimit, fail,
     fail_if_refused
<1> QED
  BY <1>2, <1>5, <1>6

\* A step that reads a line without an error moves the address as After says.
LEMMA ReadingMoves ==
    ASSUME YasInv, Next, Reading, ~hit_error'
    PROVE  /\ bytepos' = After(src[lineno], bytepos)
           /\ NextLine
           /\ error_mode' = FALSE
           /\ lineno < Len(src) => tokens' = <<>> /\ (lex = "INITIAL" => lex' = "INITIAL")
<1>0. ~hit_error
  BY ReadingSteps DEF YasInv
<1>1. /\ Tokens = src[lineno].toks /\ (ErrorPending <=> Refused) /\ tokens = <<>>
      /\ lineno \in 1 .. Len(src)
  BY <1>0, CleanTokens
<1>2. CASE LastLine
  <2>1. NextLine /\ bytepos' = bytepos /\ src[lineno].end \in {"eof", "bad_eof"}
    BY <1>2 DEF LastLine
  <2>2. After(src[lineno], bytepos) = bytepos /\ ~(lineno < Len(src))
    BY <1>1, <2>1, SourceLine DEF After, YasInv
  <2>3. error_mode' = FALSE
    <3>1. CASE lex = "ERR"
      BY <1>0, <1>2, <3>1 DEF LastLine, line, YasInv, AddressInv, Clean
    <3>2. CASE lex # "ERR"
      <4>1. ~Refused /\ error_mode' = ErrorPending
        BY <1>2, <3>2 DEF LastLine, fail_if_refused
      <4>2. ErrorPending = FALSE
        BY <1>1, <4>1 DEF ErrorPending
      <4> QED
        BY <4>1, <4>2
    <3> QED
      BY <3>1, <3>2
  <2> QED
    BY <2>1, <2>2, <2>3
<1>3. CASE EmptyLine
  BY <1>1, <1>3 DEF EmptyLine, Finishing, start_line, After
<1>4. CASE LabelOnly
  BY <1>1, <1>4 DEF LabelOnly, Complete, Finishing, Labelled, start_line, After
<1>5. CASE Directive
  <2>1. /\ bytepos' = NewPos /\ IsDirective /\ NextLine /\ start_line /\ UNCHANGED lex
        /\ src[lineno].end = "newline" /\ Tokens # <<>> /\ (Labelled => Len(Tokens) > 2)
    BY <1>1, <1>5 DEF Directive, Statement, Complete, Finishing
  <2>2. Len(Tokens) \in Nat
    <3>1. src[lineno].toks \in Seq(Token)
      BY <1>1, SourceLine DEF YasInv
    <3> QED
      BY <1>1, <3>1
  <2>3. After(src[lineno], bytepos) =
            IF Is(".pos") THEN ToInt(Argument.val)
            ELSE IF Is(".align") THEN AlignUp(bytepos, ToInt(Argument.val))
            ELSE ToInt(bytepos + find_instr(Tokens[At].val).bytes)
    BY <1>1, <2>1, <2>2 DEF After, Labelled, At, Is, Argument
  <2> QED
    BY <2>1, <2>3 DEF IsDirective, NewPos, start_line
<1>6. CASE Measure
  BY <1>1, <1>6 DEF Measure, Statement, Complete, Finishing, Labelled, start_line, After,
     IsInstruction, IsDirective, Is, At, size
<1>7. CASE Generate
  BY <1>1, <1>7 DEF Generate, Statement, Complete, Finishing, Labelled, start_line, After,
     IsInstruction, IsDirective, Is, At, size
<1>8. ASSUME ErrorLine PROVE FALSE
  BY <1>1, <1>8 DEF ErrorLine, fail_if_refused
<1>9. ASSUME InvalidLine \/ MissingColon \/ BadInstruction \/ BadDirective \/ AddressLimit
      PROVE  FALSE
  BY <1>9 DEF InvalidLine, MissingColon, BadInstruction, BadDirective, AddressLimit, fail
<1>10. ~EndPass1 /\ ~EndPass2 /\ ~LoadLine /\ ~LoadEnds /\ ~Overrun
  BY SourceLine DEF Overrun, Reading, Input, EndPass1, EndPass2, EndOfFile, LoadLine, LoadEnds, YasInv, Counters
<1> QED
  BY <1>2, <1>3, <1>4, <1>5, <1>6, <1>7, <1>8, <1>9, <1>10 DEF Next, Assemble

\* After no error, the end of pass 1 turns the chain over to pass 2.
LEMMA PassTurns ==
    ASSUME YasInv, EndPass1, ~hit_error'
    PROVE  YasInv'
<1>0. Counters /\ Len(src) \in Nat
  BY SourceLine DEF YasInv
<1>1. /\ ~hit_error /\ tokens = <<>> /\ pass = 1 /\ pass' = 2 /\ lineno' = 1 /\ bytepos' = 0
      /\ error_mode' = FALSE /\ UNCHANGED <<src, tokens, lex, passone>>
      /\ lineno = Len(src) + 1
  <2>1. lineno > Len(src) /\ lineno \in 1 .. Len(src) + 1
    BY <1>0 DEF EndPass1, EndOfFile, Counters
  <2>2. lineno = Len(src) + 1
    BY <1>0, <2>1
  <2> QED
    BY <2>2 DEF EndPass1, Wrapped, line
<1>2. Chain(Len(src) + 1)
  BY <1>1 DEF YasInv, AddressInv
<1>3. passone[1] = 0
  BY <1>1 DEF YasInv, AddressInv
<1>4. Counters'
  BY <1>0, <1>1 DEF Counters
<1> QED
  BY <1>0, <1>1, <1>2, <1>3, <1>4 DEF YasInv, AddressInv, Clean, Chain

LEMMA NextKeeps == YasInv /\ [Next]_vars => YasInv'
<1> SUFFICES ASSUME YasInv, [Next]_vars PROVE YasInv'
  OBVIOUS
<1>0. Counters /\ Len(src) \in Nat
  BY SourceLine DEF YasInv
<1>1. CASE UNCHANGED vars
  BY <1>1 DEF vars, line, load, YasInv, Counters, AddressInv, Clean, Chain, After
<1>2. CASE Next /\ Reading
  <2>1. NextLine \/ AddressLimit
    BY <1>0, <1>2, ReadingSteps
  <2>2. Counters'
    <3>1. CASE NextLine
      <4>1. lineno \in 1 .. Len(src)
        BY <1>0, <1>2, ReadingSteps
      <4>2. UNCHANGED <<src, pass>> /\ lineno' = lineno + 1
        BY <3>1 DEF NextLine
      <4>3. passone' = [i \in 1 .. Len(src) + 1 |-> passone'[i]]
        BY <1>0, <3>1 DEF NextLine, Counters
      <4> QED
        BY <1>0, <4>1, <4>2, <4>3 DEF Counters
    <3>2. CASE AddressLimit
      BY <1>0, <3>2 DEF AddressLimit, Counters
    <3> QED
      BY <2>1, <3>1, <3>2
  <2>3. ASSUME ~hit_error' PROVE AddressInv'
    <3>1. /\ bytepos' = After(src[lineno], bytepos) /\ NextLine /\ error_mode' = FALSE
          /\ lineno < Len(src) => tokens' = <<>> /\ (lex = "INITIAL" => lex' = "INITIAL")
      BY <1>2, <2>3, ReadingMoves
    <3>2. ~hit_error /\ lineno \in 1 .. Len(src)
      BY <1>0, <1>2, <2>3, ReadingSteps
    <3>3. /\ Clean /\ passone[lineno] = bytepos /\ passone[1] = 0
          /\ pass = 1 => Chain(lineno)
          /\ pass = 2 => Chain(Len(src) + 1)
      BY <3>2 DEF YasInv, AddressInv
    <3>4. UNCHANGED <<src, pass>> /\ lineno' = lineno + 1
      BY <3>1 DEF NextLine
    <3>5. Clean'
      BY <1>0, <3>1, <3>2, <3>3, <3>4 DEF Clean
    <3>6. CASE pass = 1
      <4>1. passone' = [passone EXCEPT ![lineno + 1] = bytepos']
        BY <3>1, <3>6 DEF NextLine
      <4>2. DOMAIN passone = 1 .. Len(src) + 1
        BY <1>0 DEF Counters
      <4>3. passone'[lineno + 1] = bytepos' /\ \A i \in 1 .. lineno : passone'[i] = passone[i]
        BY <1>0, <3>2, <4>1, <4>2
      <4>4. Chain(lineno)
        BY <3>3, <3>6
      <4>5. \A i \in 1 .. lineno : passone'[i + 1] = After(src[i], passone'[i])
        <5> TAKE i \in 1 .. lineno
        <5>1. CASE i = lineno
          BY <3>1, <3>2, <3>3, <4>3, <5>1
        <5>2. CASE i # lineno
          BY <3>2, <4>3, <4>4, <5>2 DEF Chain
        <5> QED
          BY <5>1, <5>2
      <4>6. Chain(lineno)'
        BY <3>2, <3>4, <4>5 DEF Chain, After
      <4> QED
        BY <3>2, <3>3, <3>4, <3>5, <3>6, <4>3, <4>6 DEF AddressInv
    <3>7. CASE pass = 2
      <4>1. passone' = passone
        BY <3>1, <3>7 DEF NextLine
      <4>2. passone[lineno + 1] = After(src[lineno], passone[lineno])
        BY <1>0, <3>2, <3>3, <3>7 DEF Chain
      <4>3. Chain(Len(src) + 1)'
        BY <3>3, <3>4, <3>7, <4>1 DEF Chain, After
      <4> QED
        BY <3>1, <3>3, <3>4, <3>5, <3>7, <4>1, <4>2, <4>3 DEF AddressInv
    <3> QED
      BY <1>0, <3>6, <3>7 DEF Counters
  <2> QED
    BY <2>2, <2>3 DEF YasInv, AddressInv
<1>3. CASE EndPass1
  <2>1. CASE ~hit_error'
    BY <1>3, <2>1, PassTurns
  <2>2. CASE hit_error'
    BY <1>0, <1>3, <2>2 DEF EndPass1, YasInv, Counters, AddressInv
  <2> QED
    BY <2>1, <2>2
<1>4. CASE EndPass2 \/ LoadLine \/ LoadEnds
  <2>1. UNCHANGED <<src, pass, lineno, bytepos, line, lex, passone>> /\ (~hit_error' => ~hit_error)
    <3>1. CASE EndPass2
      BY <3>1 DEF EndPass2, Wrapped
    <3>2. CASE LoadLine \/ LoadEnds
      BY <3>2 DEF LoadLine, LoadEnds
    <3> QED
      BY <1>4, <3>1, <3>2
  <2> QED
    BY <2>1 DEF line, YasInv, Counters, AddressInv, Clean, Chain, After
<1>5. CASE Overrun
  BY <1>5 DEF Overrun, line, YasInv, Counters, AddressInv, Clean, Chain, After
<1> QED
  BY <1>0, <1>1, <1>2, <1>3, <1>4, <1>5 DEF Next, Assemble, InvalidLine, LastLine, EmptyLine, ErrorLine,
     MissingColon, LabelOnly, BadInstruction, BadDirective, Directive, Measure, Generate,
     AddressLimit, Complete, Finishing, Statement

\* yas.c 305-443 and 602-613: for every file, as long as there is no error,
\* pass 2 reaches each line with the address that pass 1 reached it with, so
\* the labels that pass 1 recorded are the addresses of the code of pass 2.
THEOREM PassesAgreeAlways == Spec => []PassesAgree
<1>1. YasInv => PassesAgree
  <2> SUFFICES ASSUME YasInv, pass = 2, ~hit_error PROVE bytepos = passone[lineno]
    BY DEF PassesAgree
  <2> QED
    BY DEF YasInv, AddressInv
<1> QED
  BY <1>1, InitEstablishes, NextKeeps, PTL DEF Spec

-----------------------------------------------------------------------------
(* The instruction table.                                                  *)

\* The names of the tables of instructions.
LEMMA TableNames ==
    ASSUME NEW n
    PROVE  /\ In(n, Moves) <=> n \in {"rrmovq", "cmovle", "cmovl", "cmove", "cmovne", "cmovge", "cmovg"}
           /\ In(n, Jumps) <=> n \in {"jmp", "jle", "jl", "je", "jne", "jge", "jg"}
           /\ In(n, Alus) <=> n \in {"addq", "subq", "andq", "xorq"}
           /\ In(n, Allocs) <=> n \in {".byte", ".word", ".long", ".quad"}
  BY DEF In, Moves, Alus, Jumps, Allocs

\* The words of the table by the operands they take.
Operates == {n \in Instr : In(n, Moves) \/ In(n, Alus)}
Transfers == {n \in Instr : In(n, Jumps) \/ n = "call"}
Stacks == {"pushq", "popq"}
Immediates == {"irmovq", "iaddq"}
Memory == {"rmmovq", "mrmovq"}
Lone == {"nop", "halt", "ret"}

\* The classes of the table, each with its row.
LEMMA Classes ==
    ASSUME NEW n \in Instr, n \notin {".pos", ".align"}
    PROVE  \/ n \in Operates \/ n \in Immediates \/ n = "rmmovq" \/ n = "mrmovq"
           \/ n \in Transfers \/ In(n, Allocs) \/ n \in Stacks \/ n \in Lone
<1>1. n \in Named(Moves) => In(n, Moves)
  BY DEF Named, In
<1>2. n \in Named(Jumps) => In(n, Jumps)
  BY DEF Named, In
<1>3. n \in Named(Alus) => In(n, Alus)
  BY DEF Named, In
<1>4. n \in Named(Allocs) => In(n, Allocs)
  BY DEF Named, In
<1> QED
  BY <1>1, <1>2, <1>3, <1>4 DEF Instr, Operates, Transfers, Stacks, Immediates, Lone

\* The place of a name in a table.
LEMMA Indexed ==
    ASSUME NEW n
    PROVE  /\ In(n, Moves) => IndexOf(Moves, n) \in 0 .. 6
           /\ In(n, Jumps) => IndexOf(Jumps, n) \in 0 .. 6
           /\ In(n, Alus) => IndexOf(Alus, n) \in 0 .. 3
           /\ n \in Named(reg_table) => find_register(n) \in 0 .. 14
<1>1. ASSUME NEW names, NEW len \in Nat, DOMAIN names = 1 .. len, In(n, names)
      PROVE  IndexOf(names, n) \in 0 .. len - 1
  <2>1. PICK at \in 1 .. len : names[at] = n
    BY <1>1 DEF In
  <2>2. (CHOOSE i \in DOMAIN names : names[i] = n) \in 1 .. len
    BY <1>1, <2>1
  <2> QED
    BY <2>2 DEF IndexOf
<1>2. In(n, Moves) => IndexOf(Moves, n) \in 0 .. 7 - 1
  <2>1. DOMAIN Moves = 1 .. 7
    BY DEF Moves
  <2> QED
    BY ONLY <1>1, <2>1
<1>3. In(n, Jumps) => IndexOf(Jumps, n) \in 0 .. 7 - 1
  <2>1. DOMAIN Jumps = 1 .. 7
    BY DEF Jumps
  <2> QED
    BY ONLY <1>1, <2>1
<1>4. In(n, Alus) => IndexOf(Alus, n) \in 0 .. 4 - 1
  <2>1. DOMAIN Alus = 1 .. 4
    BY DEF Alus
  <2> QED
    BY ONLY <1>1, <2>1
<1>5. n \in Named(reg_table) => find_register(n) \in 0 .. 15 - 1
  <2>1. DOMAIN reg_table = 1 .. 15
    BY DEF reg_table
  <2>2. n \in Named(reg_table) => In(n, reg_table)
    BY DEF Named, In
  <2> QED
    BY ONLY <1>1, <2>1, <2>2 DEF find_register
<1> QED
  BY <1>2, <1>3, <1>4, <1>5

\* The rows of the instruction table, for each class of names.
LEMMA OperatesRow ==
    ASSUME NEW n \in Operates
    PROVE  \E c \in {2, 6} : \E k \in 0 .. 6 :
               find_instr(n) = Row(HPACK(c, k), 2, RArg(1, 1), RArg(1, 0))
<1>1. n \notin {"nop", "halt", "irmovq", "rmmovq", "mrmovq"} /\ (In(n, Alus) => ~In(n, Moves))
  BY TableNames DEF Operates
<1>2. CASE In(n, Moves)
  <2>1. find_instr(n) = Row(HPACK(2, IndexOf(Moves, n)), 2, RArg(1, 1), RArg(1, 0))
    BY <1>1, <1>2, TableNames DEF find_instr
  <2> QED
    BY <1>2, <2>1, Indexed
<1>3. CASE In(n, Alus)
  <2>1. find_instr(n) = Row(HPACK(6, IndexOf(Alus, n)), 2, RArg(1, 1), RArg(1, 0))
    BY <1>1, <1>3, TableNames DEF find_instr
  <2>2. IndexOf(Alus, n) \in 0 .. 6
    BY <1>3, Indexed
  <2> QED
    BY <2>1, <2>2
<1> QED
  BY <1>2, <1>3 DEF Operates

\* The rows of the jumps and of call.
LEMMA TransfersRow ==
    ASSUME NEW n \in Transfers
    PROVE  \E c \in {7, 8} : \E k \in 0 .. 6 :
               find_instr(n) = Row(HPACK(c, k), 9, IArg(1, 8), NoArg)
<1>1. ~In(n, Moves) /\ ~In(n, Alus) /\ n \notin {"nop", "halt", "irmovq", "rmmovq", "mrmovq"}
      /\ (n = "call" => ~In(n, Jumps))
  BY TableNames DEF Transfers
<1>2. CASE In(n, Jumps)
  <2>1. find_instr(n) = Row(HPACK(7, IndexOf(Jumps, n)), 9, IArg(1, 8), NoArg)
    BY <1>1, <1>2, TableNames DEF find_instr
  <2> QED
    BY <1>2, <2>1, Indexed
<1>3. CASE n = "call"
  <2>1. find_instr(n) = Row(HPACK(8, 0), 9, IArg(1, 8), NoArg)
    BY <1>1, <1>3, TableNames DEF find_instr
  <2> QED
    BY <2>1
<1> QED
  BY <1>2, <1>3 DEF Transfers

\* The rows of the other instructions and of the data.
LEMMA OtherRows ==
    ASSUME NEW n
    PROVE  /\ n \in Immediates => \E c \in {3, 12} :
                  find_instr(n) = Row(HPACK(c, 0), 10, IArg(2, 8), RArg(1, 0))
           /\ n = "rmmovq" => find_instr(n) = Row(HPACK(4, 0), 10, RArg(1, 1), MArg(1))
           /\ n = "mrmovq" => find_instr(n) = Row(HPACK(5, 0), 10, MArg(1), RArg(1, 1))
           /\ In(n, Allocs) => \E b \in 1 .. 8 : find_instr(n) = Row(0, b, IArg(0, b), NoArg)
           /\ n \in Stacks => \E c \in {10, 11} :
                  find_instr(n) = Row(HPACK(c, 0), 2, RArg(1, 1), NoArg)
           /\ n \in Lone => \E c \in {0, 1, 9} : find_instr(n) = Row(HPACK(c, 0), 1, NoArg, NoArg)
<1>1. n \in {"irmovq", "iaddq", "rmmovq", "mrmovq", "pushq", "popq"} \cup Lone \/ In(n, Allocs) =>
          ~In(n, Moves) /\ ~In(n, Alus) /\ ~In(n, Jumps)
  BY TableNames DEF Lone
<1>2. In(n, Allocs) => \E b \in 1 .. 8 : find_instr(n) = Row(0, b, IArg(0, b), NoArg)
  <2>1. CASE n = ".byte"
    <3>1. find_instr(n) = Row(0, 1, IArg(0, 1), NoArg)
      BY <1>1, <2>1, TableNames DEF find_instr
    <3> QED
      BY <3>1
  <2>2. CASE n = ".word"
    <3>1. find_instr(n) = Row(0, 2, IArg(0, 2), NoArg)
      BY <1>1, <2>2, TableNames DEF find_instr
    <3> QED
      BY <3>1
  <2>3. CASE n = ".long"
    <3>1. find_instr(n) = Row(0, 4, IArg(0, 4), NoArg)
      BY <1>1, <2>3, TableNames DEF find_instr
    <3> QED
      BY <3>1
  <2>4. CASE n = ".quad"
    <3>1. find_instr(n) = Row(0, 8, IArg(0, 8), NoArg)
      BY <1>1, <2>4, TableNames DEF find_instr
    <3> QED
      BY <3>1
  <2> QED
    BY <2>1, <2>2, <2>3, <2>4, TableNames
<1> QED
  BY <1>1, <1>2 DEF find_instr, Lone, Stacks, Immediates

-----------------------------------------------------------------------------
(* What each operand leaves.                                               *)

\* What the operands of a line share: without a failure so far, and with one.
Good(p, c) == [tpos |-> p, ok |-> TRUE, code |-> c]

\* The same after a failure.
Bad(p, c) == [tpos |-> p, ok |-> FALSE, code |-> c]

\* The code with a register in its place.
WithReg(c, arg, r) ==
    [c EXCEPT ![arg.pos] = IF arg.hi = 1 THEN SetHigh(@, r) ELSE SetLow(@, r)]

\* What get_reg leaves, after operands without a failure and after one.
LEMMA GetReg ==
    ASSUME NEW tk, NEW arg, NEW p, NEW c
    PROVE  /\ TokAt(tk, p).type # "REG" => get_reg(tk, arg, Good(p, c)) = Bad(p, c)
           /\ TokAt(tk, p).type = "REG" =>
                  get_reg(tk, arg, Good(p, c)) =
                      Good(p + 1, WithReg(c, arg, find_register(TokAt(tk, p).val)))
           /\ \E n, d : get_reg(tk, arg, Bad(p, c)) = Bad(n, d)
<1>1. CASE TokAt(tk, p).type = "REG"
  <2> DEFINE d == WithReg(c, arg, find_register(TokAt(tk, p).val))
  <2>1. get_reg(tk, arg, Good(p, c)) = Good(p + 1, d)
    BY <1>1 DEF get_reg, Good, failed, WithReg
  <2>2. get_reg(tk, arg, Bad(p, c)) = Bad(p + 1, d)
    BY <1>1 DEF get_reg, Bad, failed, WithReg
  <2> QED
    BY <1>1, <2>1, <2>2
<1>2. CASE TokAt(tk, p).type # "REG"
  <2>1. get_reg(tk, arg, Good(p, c)) = Bad(p, c)
    BY <1>2 DEF get_reg, Good, Bad, failed
  <2>2. get_reg(tk, arg, Bad(p, c)) = Bad(p, c)
    BY <1>2 DEF get_reg, Bad, failed
  <2> QED
    BY <1>2, <2>1, <2>2
<1> QED
  BY <1>1, <1>2

\* What get_num leaves: the number in the code, or a failure.
LEMMA GetNum ==
    ASSUME NEW tk, NEW arg, NEW p, NEW c, NEW symbols
    PROVE  LET t == TokAt(tk, p)
               d == PutNum(c, arg.pos, arg.hi, Value(t, symbols))
           IN /\ ~IsValue(t) => get_num(tk, arg, Good(p, c), symbols) = Bad(p, c)
              /\ IsValue(t) /\ Found(t, symbols) =>
                     get_num(tk, arg, Good(p, c), symbols) = Good(p + 1, d)
              /\ IsValue(t) /\ ~Found(t, symbols) =>
                     get_num(tk, arg, Good(p, c), symbols) = Bad(p + 1, d)
              /\ \E n, e : get_num(tk, arg, Bad(p, c), symbols) = Bad(n, e)
<1> DEFINE t == TokAt(tk, p)
           d == PutNum(c, arg.pos, arg.hi, Value(t, symbols))
<1>1. CASE ~IsValue(t)
  <2>1. get_num(tk, arg, Good(p, c), symbols) = Bad(p, c)
    BY <1>1 DEF get_num, Good, Bad, failed
  <2>2. get_num(tk, arg, Bad(p, c), symbols) = Bad(p, c)
    BY <1>1 DEF get_num, Bad, failed
  <2> QED
    BY <1>1, <2>1, <2>2
<1>2. CASE IsValue(t)
  <2>1. Found(t, symbols) => get_num(tk, arg, Good(p, c), symbols) = Good(p + 1, d)
    BY <1>2 DEF get_num, Good
  <2>2. ~Found(t, symbols) => get_num(tk, arg, Good(p, c), symbols) = Bad(p + 1, d)
    BY <1>2 DEF get_num, Good, Bad
  <2>3. get_num(tk, arg, Bad(p, c), symbols) = Bad(p + 1, d)
    BY <1>2 DEF get_num, Bad
  <2> QED
    BY <1>2, <2>1, <2>2, <2>3
<1> QED
  BY <1>1, <1>2

\* The register and the closing parenthesis after an opening one at q.
Based(tk, q) == TokAt(tk, q + 1).type = "REG" /\ Punct(tk, q + 2, ")")

\* What get_mem leaves, with a register in parentheses and without.
LEMMA GetMem ==
    ASSUME NEW tk, NEW arg, NEW p, NEW c, NEW symbols
    PROVE  LET t == TokAt(tk, p)
               q == AfterDisplacement(tk, p)
               put(r) == PutMem(c, arg.pos, r, Displacement(t, symbols))
               m == get_mem(tk, arg, Good(p, c), symbols)
           IN /\ ~Punct(tk, q, "(") /\ Found(t, symbols) => m = Good(q, put(REG_NONE))
              /\ Punct(tk, q, "(") /\ Based(tk, q) /\ Found(t, symbols) =>
                     m = Good(q + 3, put(find_register(TokAt(tk, q + 1).val)))
              /\ (Punct(tk, q, "(") /\ ~Based(tk, q)) \/ ~Found(t, symbols) =>
                     \E n, d : m = Bad(n, d)
              /\ \E n, d : get_mem(tk, arg, Bad(p, c), symbols) = Bad(n, d)
<1> DEFINE t == TokAt(tk, p)
           q == AfterDisplacement(tk, p)
           put(r) == PutMem(c, arg.pos, r, Displacement(t, symbols))
           m == get_mem(tk, arg, Good(p, c), symbols)
           b == get_mem(tk, arg, Bad(p, c), symbols)
<1>1. CASE ~Punct(tk, q, "(")
  <2> DEFINE d == put(REG_NONE)
  <2>1. Found(t, symbols) => m = Good(q, d)
    BY <1>1 DEF get_mem, Good
  <2>2. ~Found(t, symbols) => m = Bad(q, d)
    BY <1>1 DEF get_mem, Good, Bad
  <2>3. b = Bad(q, d)
    BY <1>1 DEF get_mem, Bad
  <2> QED
    BY <1>1, <2>1, <2>2, <2>3
<1>2. CASE Punct(tk, q, "(") /\ Based(tk, q)
  <2> DEFINE d == put(find_register(TokAt(tk, q + 1).val))
  <2>1. Found(t, symbols) => m = Good(q + 3, d)
    BY <1>2 DEF get_mem, Good, Based
  <2>2. ~Found(t, symbols) => m = Bad(q + 3, d)
    BY <1>2 DEF get_mem, Good, Bad, Based
  <2>3. b = Bad(q + 3, d)
    BY <1>2 DEF get_mem, Bad, Based
  <2> QED
    BY <1>2, <2>1, <2>2, <2>3
<1>3. CASE Punct(tk, q, "(") /\ TokAt(tk, q + 1).type # "REG"
  <2>1. m = Bad(q + 1, c) /\ b = Bad(q + 1, c)
    BY <1>3 DEF get_mem, Good, Bad, failed
  <2> QED
    BY <1>3, <2>1 DEF Based
<1>4. CASE Punct(tk, q, "(") /\ TokAt(tk, q + 1).type = "REG" /\ ~Punct(tk, q + 2, ")")
  <2> DEFINE n == IF TokAt(tk, q + 2).type = "PUNCT" THEN q + 3 ELSE q + 2
  <2>1. m = Bad(n, c) /\ b = Bad(n, c)
    BY <1>4 DEF get_mem, Good, Bad, failed
  <2> QED
    BY <1>4, <2>1 DEF Based
<1> QED
  BY <1>1, <1>2, <1>3, <1>4 DEF Based

\* An operand never takes back the failure of the one before it.
LEMMA OperandKeeps ==
    ASSUME NEW tk, NEW arg, NEW symbols, NEW p, NEW c,
           arg.kind \in {"R_ARG", "M_ARG", "I_ARG", "NO_ARG"}
    PROVE  \E n, d : Operand(tk, arg, Bad(p, c), symbols) = Bad(n, d)
  BY GetReg, GetNum, GetMem DEF Operand

\* The code before the operands.
Fresh(c, b) == [c EXCEPT ![0] = b, ![1] = HPACK(REG_NONE, REG_NONE)]

\* The kinds of operands in the table.
ArgKinds == {"R_ARG", "M_ARG", "I_ARG", "NO_ARG"}

\* The comma between the operands is one token.
LEMMA NextToken ==
    ASSUME NEW n, NEW d
    PROVE  /\ [Good(n, d) EXCEPT !.tpos = @ + 1] = Good(n + 1, d)
           /\ [Bad(n, d) EXCEPT !.tpos = @ + 1] = Bad(n + 1, d)
<1>1. ASSUME NEW o
      PROVE  [[tpos |-> n, ok |-> o, code |-> d] EXCEPT !.tpos = @ + 1] =
                 [tpos |-> n + 1, ok |-> o, code |-> d]
  OBVIOUS
<1> QED
  BY <1>1, Zenon DEF Good, Bad

\* A line encoded to its end without a failure.
Prints(e, d) == e = [code |-> d, ok |-> TRUE, printed |-> TRUE]

\* How the operands of an instruction make the code of the line.
LEMMA EncodeSteps ==
    ASSUME NEW tk, NEW p, NEW symbols, NEW c,
           find_instr(tk[p].val).arg2.kind \in ArgKinds
    PROVE  LET ins == find_instr(tk[p].val)
               e == Encode(tk, p, symbols, c)
               s1 == Operand(tk, ins.arg1, Good(p + 1, Fresh(c, ins.code)), symbols)
               s2(n, d) == Operand(tk, ins.arg2, Good(n + 1, d), symbols)
           IN /\ \A n, d : s1 = Bad(n, d) => e.ok = FALSE
              /\ \A n, d : s1 = Good(n, d) /\ ins.arg2.kind = "NO_ARG" => Prints(e, d)
              /\ \A n, d : s1 = Good(n, d) /\ ins.arg2.kind # "NO_ARG" /\ ~Punct(tk, n, ",") =>
                     e.ok = FALSE
              /\ \A n, d, n2, d2 :
                     s1 = Good(n, d) /\ ins.arg2.kind # "NO_ARG" /\ Punct(tk, n, ",")
                         /\ s2(n, d) = Good(n2, d2) =>
                     Prints(e, d2)
              /\ \A n, d, n2, d2 :
                     s1 = Good(n, d) /\ ins.arg2.kind # "NO_ARG" /\ Punct(tk, n, ",")
                         /\ s2(n, d) = Bad(n2, d2) =>
                     e.ok = FALSE
<1> DEFINE ins == find_instr(tk[p].val)
           e == Encode(tk, p, symbols, c)
           s0 == [tpos |-> p + 1, ok |-> TRUE, code |-> Fresh(c, ins.code)]
           s1 == Operand(tk, ins.arg1, Good(p + 1, Fresh(c, ins.code)), symbols)
           s2(n, d) == Operand(tk, ins.arg2, Good(n + 1, d), symbols)
<1>0. s1 = Operand(tk, ins.arg1, s0, symbols)
  BY DEF Good
<1> DEFINE t2 == Operand(tk, ins.arg2, [s1 EXCEPT !.tpos = @ + 1], symbols)
<1>1. e = CASE ins.arg2.kind = "NO_ARG" -> [code |-> s1.code, ok |-> s1.ok, printed |-> TRUE]
            [] ins.arg2.kind # "NO_ARG" /\ ~Punct(tk, s1.tpos, ",") ->
                   [code |-> failed(s1).code, ok |-> failed(s1).ok, printed |-> FALSE]
            [] OTHER -> [code |-> t2.code, ok |-> t2.ok, printed |-> TRUE]
  BY <1>0 DEF Encode, Fresh
<1> HIDE DEF ins, e, s1
<1>2. ASSUME NEW n, NEW d, s1 = Bad(n, d) PROVE e.ok = FALSE
  <2>1. [s1 EXCEPT !.tpos = @ + 1] = Bad(n + 1, d)
    BY <1>2, NextToken, Zenon
  <2>2. PICK n2, d2 : t2 = Bad(n2, d2)
    BY <2>1, OperandKeeps DEF ArgKinds, ins
  <2>3. t2.ok = FALSE /\ s1.ok = FALSE /\ failed(s1).ok = FALSE
    BY <1>2, <2>2 DEF Bad, failed
  <2> QED
    BY <1>1, <2>3
<1>3. ASSUME NEW n, NEW d, s1 = Good(n, d)
      PROVE  /\ s1.ok = TRUE /\ s1.code = d /\ s1.tpos = n /\ t2 = s2(n, d)
             /\ failed(s1).ok = FALSE
  <2>1. [s1 EXCEPT !.tpos = @ + 1] = Good(n + 1, d)
    BY <1>3, NextToken, Zenon
  <2>2. s1.ok = TRUE /\ s1.code = d /\ s1.tpos = n /\ failed(s1).ok = FALSE
    BY <1>3 DEF Good, failed
  <2> QED
    BY <2>1, <2>2
<1>4. ASSUME NEW n, NEW d, s1 = Good(n, d), ins.arg2.kind = "NO_ARG"
      PROVE  Prints(e, d)
  BY <1>1, <1>3, <1>4 DEF Prints
<1>5. ASSUME NEW n, NEW d, s1 = Good(n, d), ins.arg2.kind # "NO_ARG", ~Punct(tk, n, ",")
      PROVE  e.ok = FALSE
  BY <1>1, <1>3, <1>5
<1>6. ASSUME NEW n, NEW d, NEW n2, NEW d2, s1 = Good(n, d), ins.arg2.kind # "NO_ARG",
             Punct(tk, n, ","), s2(n, d) = Good(n2, d2)
      PROVE  Prints(e, d2)
  <2>0. t2 = Good(n2, d2)
    BY <1>3, <1>6
  <2>1. t2.ok = TRUE /\ t2.code = d2
    BY <2>0 DEF Good
  <2> QED
    BY <1>1, <1>3, <1>6, <2>1 DEF Prints
<1>7. ASSUME NEW n, NEW d, NEW n2, NEW d2, s1 = Good(n, d), ins.arg2.kind # "NO_ARG",
             Punct(tk, n, ","), s2(n, d) = Bad(n2, d2)
      PROVE  e.ok = FALSE
  <2>0. t2 = Bad(n2, d2)
    BY <1>3, <1>7
  <2>1. t2.ok = FALSE
    BY <2>0 DEF Bad
  <2> QED
    BY <1>1, <1>3, <1>7, <2>1
<1> QED
  BY <1>2, <1>4, <1>5, <1>6, <1>7 DEF ins, e, s1

\* The same facts one by one.
LEMMA FirstFails ==
    ASSUME NEW tk, NEW p, NEW symbols, NEW c, NEW ins, ins = find_instr(tk[p].val),
           ins.arg2.kind \in ArgKinds, NEW n, NEW d,
           Operand(tk, ins.arg1, Good(p + 1, Fresh(c, ins.code)), symbols) = Bad(n, d)
    PROVE  Encode(tk, p, symbols, c).ok = FALSE
  BY EncodeSteps

\* One operand, read without a failure.
LEMMA OnlyOperand ==
    ASSUME NEW tk, NEW p, NEW symbols, NEW c, NEW ins, ins = find_instr(tk[p].val),
           ins.arg2.kind \in ArgKinds, NEW n, NEW d,
           ins.arg2.kind = "NO_ARG",
           Operand(tk, ins.arg1, Good(p + 1, Fresh(c, ins.code)), symbols) = Good(n, d)
    PROVE  Prints(Encode(tk, p, symbols, c), d)
  BY EncodeSteps

\* Two operands without a comma between them.
LEMMA NoComma ==
    ASSUME NEW tk, NEW p, NEW symbols, NEW c, NEW ins, ins = find_instr(tk[p].val),
           ins.arg2.kind \in ArgKinds, NEW n, NEW d,
           ins.arg2.kind # "NO_ARG", ~Punct(tk, n, ","),
           Operand(tk, ins.arg1, Good(p + 1, Fresh(c, ins.code)), symbols) = Good(n, d)
    PROVE  Encode(tk, p, symbols, c).ok = FALSE
  BY EncodeSteps

\* Two operands of which the second fails.
LEMMA SecondFails ==
    ASSUME NEW tk, NEW p, NEW symbols, NEW c, NEW ins, ins = find_instr(tk[p].val),
           ins.arg2.kind \in ArgKinds, NEW n, NEW d,
           ins.arg2.kind # "NO_ARG", Punct(tk, n, ","),
           Operand(tk, ins.arg1, Good(p + 1, Fresh(c, ins.code)), symbols) = Good(n, d),
           NEW n2, NEW d2, Operand(tk, ins.arg2, Good(n + 1, d), symbols) = Bad(n2, d2)
    PROVE  Encode(tk, p, symbols, c).ok = FALSE
  BY EncodeSteps

\* Two operands without a failure.
LEMMA BothOperands ==
    ASSUME NEW tk, NEW p, NEW symbols, NEW c, NEW ins, ins = find_instr(tk[p].val),
           ins.arg2.kind \in ArgKinds, NEW n, NEW d,
           ins.arg2.kind # "NO_ARG", Punct(tk, n, ","),
           Operand(tk, ins.arg1, Good(p + 1, Fresh(c, ins.code)), symbols) = Good(n, d),
           NEW n2, NEW d2, Operand(tk, ins.arg2, Good(n + 1, d), symbols) = Good(n2, d2)
    PROVE  Prints(Encode(tk, p, symbols, c), d2)
  BY EncodeSteps

\* What the kind of a token says of it.
LEMMA Kinds ==
    ASSUME NEW tk \in Seq(Token), NEW k
    PROVE  LET t == TokAt(tk, k)
           IN /\ Kind(t) = "REG" <=> t.type = "REG"
              /\ Kind(t) = "V" <=> IsValue(t)
              /\ \A c \in {"(", ")", ":", ","} : Kind(t) = c <=> Punct(tk, k, c)
              /\ t.type = "REG" => find_register(t.val) \in 0 .. 14
              /\ t.type = "IDENT" => t = Tok("IDENT", t.val) /\ t.val \in STRING
              /\ t.type = "NUM" => t.val \in Int
              /\ t.type = "INSTR" => t.val \in Instr
              /\ t # TOK_ERR => k \in 1 .. Len(tk)
<1> DEFINE t == TokAt(tk, k)
<1>1. k \in DOMAIN tk => tk[k] \in Token
  OBVIOUS
<1>2. CASE k \notin DOMAIN tk
  <2>1. t = [type |-> "ERR", val |-> ""]
    BY <1>2 DEF TokAt, TOK_ERR, Tok
  <2> QED
    BY <1>2, <2>1 DEF Kind, IsValue, Punct, TokAt, TOK_ERR, Tok
<1>3. CASE k \in DOMAIN tk
  <2>1. t \in Token /\ k \in 1 .. Len(tk)
    BY <1>1, <1>3 DEF TokAt
  <2>2. CASE t \in [type : {"PUNCT"}, val : {"(", ")", ":", ","}]
    BY <2>1, <2>2 DEF Kind, IsValue, Punct
  <2>3. CASE t \in [type : {"REG"}, val : Named(reg_table)]
    BY <2>1, <2>3, Indexed DEF Kind, IsValue, Punct
  <2>4. CASE t \in [type : {"NUM"}, val : Int]
    BY <2>1, <2>4 DEF Kind, IsValue, Punct
  <2>5. CASE t \in [type : {"IDENT"}, val : STRING]
    BY <2>1, <2>5 DEF Kind, IsValue, Punct, Tok
  <2>6. CASE t \in [type : {"INSTR"}, val : Instr]
    BY <2>1, <2>6 DEF Kind, IsValue, Punct
  <2> QED
    BY <2>1, <2>2, <2>3, <2>4, <2>5, <2>6 DEF Token
<1> QED
  BY <1>2, <1>3

\* The registers of a byte, and the bytes of a number.
LEMMA Nibbles ==
    ASSUME NEW r \in 0 .. 15, NEW q \in 0 .. 15
    PROVE  /\ SetHigh(HPACK(REG_NONE, REG_NONE), r) = 16 * r + 15
           /\ SetLow(HPACK(REG_NONE, REG_NONE), r) = 16 * 15 + r
           /\ SetLow(16 * r + 15, q) = 16 * r + q
           /\ SetHigh(16 * 15 + q, r) = 16 * r + q
           /\ (16 * r + q) \div 16 = r /\ (16 * r + q) % 16 = q
<1>1. (16 * r + q) \div 16 = r /\ (16 * r + q) % 16 = q
  OBVIOUS
<1>2. (16 * r + 15) % 16 = 15 /\ (16 * 15 + q) % 16 = q
  OBVIOUS
<1> QED
  BY <1>1, <1>2 DEF SetHigh, SetLow, HPACK, REG_NONE

\* A number goes into its bytes and no others.
LEMMA Numbered ==
    ASSUME NEW c, DOMAIN c = 0 .. 9, NEW p \in Nat, NEW n \in Nat, NEW v
    PROVE  /\ DOMAIN PutNum(c, p, n, v) = 0 .. 9
           /\ \A k \in 0 .. 9 : k < p => PutNum(c, p, n, v)[k] = c[k]
           /\ \A k \in 0 .. n - 1 : p + k <= 9 => PutNum(c, p, n, v)[p + k] = Byte(v, k)
  BY DEF PutNum

-----------------------------------------------------------------------------
(* The bytes of each class of instructions.                                *)

\* The bytes before the operands.
LEMMA FreshCode ==
    ASSUME NEW c, DOMAIN c = 0 .. 9, NEW b
    PROVE  /\ DOMAIN Fresh(c, b) = 0 .. 9 /\ Fresh(c, b)[0] = b
           /\ Fresh(c, b)[1] = HPACK(REG_NONE, REG_NONE)
  BY DEF Fresh

\* A register goes into its half of the register byte and nowhere else.
LEMMA WithRegCode ==
    ASSUME NEW c, DOMAIN c = 0 .. 9, NEW h \in {0, 1}, NEW r
    PROVE  LET d == WithReg(c, RArg(1, h), r)
           IN /\ DOMAIN d = 0 .. 9 /\ \A k \in 0 .. 9 : k # 1 => d[k] = c[k]
              /\ d[1] = IF h = 1 THEN SetHigh(c[1], r) ELSE SetLow(c[1], r)
  BY DEF WithReg, RArg

\* A memory operand goes into the low half of the register byte and the word.
LEMMA PutMemCode ==
    ASSUME NEW c, DOMAIN c = 0 .. 9, NEW r, NEW v
    PROVE  LET d == PutMem(c, 1, r, v)
           IN /\ DOMAIN d = 0 .. 9 /\ d[0] = c[0] /\ d[1] = SetLow(c[1], r)
              /\ WordIs(d, 2, v)
<1> DEFINE e == [c EXCEPT ![1] = SetLow(@, r)]
<1>1. DOMAIN e = 0 .. 9 /\ e[0] = c[0] /\ e[1] = SetLow(c[1], r)
  OBVIOUS
<1> HIDE DEF e
<1>2. DOMAIN PutNum(e, 2, 8, v) = 0 .. 9
  BY <1>1, Numbered
<1>3. \A k \in 0 .. 9 : k < 2 => PutNum(e, 2, 8, v)[k] = e[k]
  BY <1>1, Numbered
<1>4. \A k \in 0 .. 7 : PutNum(e, 2, 8, v)[2 + k] = Byte(v, k)
  BY <1>1, Numbered
<1>5. PutMem(c, 1, r, v) = PutNum(e, 2, 8, v)
  BY DEF PutMem, e
<1> QED
  BY <1>1, <1>2, <1>3, <1>4, <1>5 DEF WordIs

\* A line encoded without a failure.
Done(e) == e.ok = TRUE /\ e.printed = TRUE /\ DOMAIN e.code = 0 .. 9

\* The number of the register at a position.
Rg(tk, k) == find_register(TokAt(tk, k).val)

\* The bytes of an instruction with two registers, and when it has them.
LEMMA EncodeOperates ==
    ASSUME NEW tk \in Seq(Token), NEW p, tk[p].val \in Operates,
           NEW symbols, NEW c, DOMAIN c = 0 .. 9
    PROVE  LET e == Encode(tk, p, symbols, c)
               K(k) == Kind(TokAt(tk, k))
               p1 == p + 1
               p2 == p1 + 1
               p3 == p2 + 1
               fits == K(p1) = "REG" /\ K(p2) = "," /\ K(p3) = "REG"
           IN /\ ~fits => e.ok = FALSE
              /\ fits => /\ Done(e) /\ e.code[0] = find_instr(tk[p].val).code
                         /\ e.code[1] = 16 * Rg(tk, p1) + Rg(tk, p3)
<1> DEFINE e == Encode(tk, p, symbols, c)
           K(k) == Kind(TokAt(tk, k))
           p1 == p + 1
           p2 == p1 + 1
           p3 == p2 + 1
           p4 == p3 + 1
           ins == find_instr(tk[p].val)
           c0 == Fresh(c, ins.code)
           c1 == WithReg(c0, RArg(1, 1), Rg(tk, p1))
           c2 == WithReg(c1, RArg(1, 0), Rg(tk, p3))
<1>1. ins.arg1 = RArg(1, 1) /\ ins.arg2 = RArg(1, 0)
  BY OperatesRow DEF Row
<1>2. /\ RArg(1, 1).kind = "R_ARG" /\ RArg(1, 0).kind = "R_ARG"
      /\ \A s : Operand(tk, RArg(1, 1), s, symbols) = get_reg(tk, RArg(1, 1), s)
      /\ \A s : Operand(tk, RArg(1, 0), s, symbols) = get_reg(tk, RArg(1, 0), s)
  BY DEF RArg, Operand
<1>3. K(p1) = "REG" <=> TokAt(tk, p1).type = "REG"
  BY Kinds
<1>4. K(p3) = "REG" <=> TokAt(tk, p3).type = "REG"
  BY Kinds
<1>5. K(p2) = "," <=> Punct(tk, p2, ",")
  BY Kinds
<1> HIDE DEF ins, e, c0, c1, c2, p4
<1>6. CASE K(p1) # "REG"
  <2>1. Operand(tk, ins.arg1, Good(p1, c0), symbols) = Bad(p1, c0)
    BY <1>1, <1>2, <1>3, <1>6, GetReg
  <2>2. e.ok = FALSE
    BY <1>1, <1>2, <2>1, FirstFails DEF ins, e, c0, ArgKinds
  <2> QED
    BY <1>6, <2>2 DEF e
<1>7. CASE K(p1) = "REG"
  <2>1. Operand(tk, ins.arg1, Good(p1, c0), symbols) = Good(p2, c1)
    BY <1>1, <1>2, <1>3, <1>7, GetReg DEF c1, Rg
  <2>2. CASE K(p2) # ","
    <3>1. ~Punct(tk, p2, ",")
      BY <1>5, <2>2
    <3>2. e.ok = FALSE
      BY <1>1, <1>2, <2>1, <3>1, NoComma DEF ins, e, c0, ArgKinds
    <3> QED
      BY <2>2, <3>2 DEF e
  <2>3. CASE K(p2) = ","
    <3>0. Punct(tk, p2, ",")
      BY <1>5, <2>3
    <3>1. CASE K(p3) # "REG"
      <4>1. Operand(tk, ins.arg2, Good(p3, c1), symbols) = Bad(p3, c1)
        BY <1>1, <1>2, <1>4, <3>1, GetReg
      <4>2. e.ok = FALSE
        BY <1>1, <1>2, <2>1, <3>0, <4>1, SecondFails DEF ins, e, c0, ArgKinds
      <4> QED
        BY <3>1, <4>2 DEF e
    <3>2. CASE K(p3) = "REG"
      <4>1. Operand(tk, ins.arg2, Good(p3, c1), symbols) = Good(p4, c2)
        BY <1>1, <1>2, <1>4, <3>2, GetReg DEF c2, Rg, p4
      <4>2. Prints(e, c2)
        BY <1>1, <1>2, <2>1, <3>0, <4>1, BothOperands DEF ins, e, c0, ArgKinds
      <4>3. DOMAIN c0 = 0 .. 9 /\ c0[0] = ins.code /\ c0[1] = HPACK(REG_NONE, REG_NONE)
        BY FreshCode DEF c0
      <4>4. DOMAIN c1 = 0 .. 9 /\ c1[0] = ins.code /\ c1[1] = SetHigh(c0[1], Rg(tk, p1))
        BY <4>3, WithRegCode DEF c1
      <4>5. DOMAIN c2 = 0 .. 9 /\ c2[0] = ins.code /\ c2[1] = SetLow(c1[1], Rg(tk, p3))
        BY <4>4, WithRegCode DEF c2
      <4>6. Rg(tk, p1) \in 0 .. 15
        <5>1. Rg(tk, p1) \in 0 .. 14
          BY <1>3, <1>7, Kinds DEF Rg
        <5> QED
          BY <5>1
      <4>7. Rg(tk, p3) \in 0 .. 15
        <5>1. Rg(tk, p3) \in 0 .. 14
          BY <1>4, <3>2, Kinds DEF Rg
        <5> QED
          BY <5>1
      <4>8. c1[1] = 16 * Rg(tk, p1) + 15
        BY <4>3, <4>4, <4>6, Nibbles
      <4>9. c2[1] = 16 * Rg(tk, p1) + Rg(tk, p3)
        BY <4>5, <4>6, <4>7, <4>8, Nibbles
      <4>10. Done(e) /\ e.code = c2
        BY <4>2, <4>5 DEF Done, Prints
      <4> QED
        BY <1>7, <2>3, <3>2, <4>5, <4>9, <4>10 DEF e, ins
    <3> QED
      BY <3>1, <3>2
  <2> QED
    BY <2>2, <2>3
<1> QED
  BY <1>6, <1>7

\* The bytes of pushq and popq.
LEMMA EncodeStack ==
    ASSUME NEW tk \in Seq(Token), NEW p, tk[p].val \in Stacks,
           NEW symbols, NEW c, DOMAIN c = 0 .. 9
    PROVE  LET e == Encode(tk, p, symbols, c)
               K(k) == Kind(TokAt(tk, k))
               p1 == p + 1
           IN /\ K(p1) # "REG" => e.ok = FALSE
              /\ K(p1) = "REG" => /\ Done(e) /\ e.code[0] = find_instr(tk[p].val).code
                                  /\ e.code[1] = 16 * Rg(tk, p1) + 15
<1> DEFINE e == Encode(tk, p, symbols, c)
           K(k) == Kind(TokAt(tk, k))
           p1 == p + 1
           p2 == p1 + 1
           ins == find_instr(tk[p].val)
           c0 == Fresh(c, ins.code)
           c1 == WithReg(c0, RArg(1, 1), Rg(tk, p1))
<1>1. ins.arg1 = RArg(1, 1) /\ ins.arg2 = NoArg
  BY OtherRows DEF Row
<1>2. NoArg.kind = "NO_ARG" /\ \A s : Operand(tk, RArg(1, 1), s, symbols) = get_reg(tk, RArg(1, 1), s)
  BY DEF RArg, Operand, NoArg
<1>3. K(p1) = "REG" <=> TokAt(tk, p1).type = "REG"
  BY Kinds
<1> HIDE DEF ins, e, c0, c1, p2
<1>4. CASE K(p1) # "REG"
  <2>1. Operand(tk, ins.arg1, Good(p1, c0), symbols) = Bad(p1, c0)
    BY <1>1, <1>2, <1>3, <1>4, GetReg
  <2>2. e.ok = FALSE
    BY <1>1, <1>2, <2>1, FirstFails DEF ins, e, c0, ArgKinds
  <2> QED
    BY <1>4, <2>2 DEF e
<1>5. CASE K(p1) = "REG"
  <2>1. Operand(tk, ins.arg1, Good(p1, c0), symbols) = Good(p2, c1)
    BY <1>1, <1>2, <1>3, <1>5, GetReg DEF c1, Rg, p2
  <2>2. Prints(e, c1)
    BY <1>1, <1>2, <2>1, OnlyOperand DEF ins, e, c0, ArgKinds
  <2>3. DOMAIN c0 = 0 .. 9 /\ c0[0] = ins.code /\ c0[1] = HPACK(REG_NONE, REG_NONE)
    BY FreshCode DEF c0
  <2>4. DOMAIN c1 = 0 .. 9 /\ c1[0] = ins.code /\ c1[1] = SetHigh(c0[1], Rg(tk, p1))
    BY <2>3, WithRegCode DEF c1
  <2>5. Rg(tk, p1) \in 0 .. 15
    <3>1. Rg(tk, p1) \in 0 .. 14
      BY <1>3, <1>5, Kinds DEF Rg
    <3> QED
      BY <3>1
  <2>6. c1[1] = 16 * Rg(tk, p1) + 15
    BY <2>3, <2>4, <2>5, Nibbles
  <2>7. Done(e) /\ e.code = c1
    BY <2>2, <2>4 DEF Done, Prints
  <2> QED
    BY <1>5, <2>4, <2>6, <2>7 DEF e, ins
<1> QED
  BY <1>4, <1>5

\* The byte of an instruction without operands.
LEMMA EncodeLone ==
    ASSUME NEW tk \in Seq(Token), NEW p, tk[p].val \in Lone,
           NEW symbols, NEW c, DOMAIN c = 0 .. 9
    PROVE  LET e == Encode(tk, p, symbols, c)
           IN Done(e) /\ e.code[0] = find_instr(tk[p].val).code
<1> DEFINE e == Encode(tk, p, symbols, c)
           ins == find_instr(tk[p].val)
           c0 == Fresh(c, ins.code)
           p1 == p + 1
<1>1. ins.arg1 = NoArg /\ ins.arg2 = NoArg
  BY OtherRows DEF Row
<1>2. NoArg.kind = "NO_ARG" /\ \A s : Operand(tk, NoArg, s, symbols) = s
  BY DEF Operand, NoArg
<1> HIDE DEF ins, e, c0, p1
<1>3. Operand(tk, ins.arg1, Good(p1, c0), symbols) = Good(p1, c0)
  BY <1>1, <1>2
<1>4. Prints(e, c0)
  BY <1>1, <1>2, <1>3, OnlyOperand DEF ins, e, c0, p1, ArgKinds
<1>5. DOMAIN c0 = 0 .. 9 /\ c0[0] = ins.code
  BY FreshCode DEF c0
<1>6. Done(e) /\ e.code = c0
  BY <1>4, <1>5 DEF Done, Prints
<1> QED
  BY <1>5, <1>6 DEF e, ins

\* A number alone, at the place and of the length that its row gives.
NumberRow(n, at, len) ==
    find_instr(n).arg1 = IArg(at, len) /\ find_instr(n).arg2 = NoArg

\* The code of a line whose one operand is a number.
NumberEncoded(tk, p, symbols, c, at, len) ==
    LET e == Encode(tk, p, symbols, c)
        p1 == p + 1
        t == TokAt(tk, p1)
        fits == Kind(t) = "V" /\ Found(t, symbols)
    IN /\ ~fits => e.ok = FALSE
       /\ fits => /\ Done(e)
                  /\ at = 1 => e.code[0] = find_instr(tk[p].val).code
                  /\ \A k \in 0 .. len - 1 : e.code[at + k] = Byte(Value(t, symbols), k)

\* The bytes of a jump, a call or data.
LEMMA EncodeNumber ==
    ASSUME NEW tk \in Seq(Token), NEW p, NEW at \in {0, 1}, NEW len \in 1 .. 8,
           NumberRow(tk[p].val, at, len), NEW symbols, NEW c, DOMAIN c = 0 .. 9
    PROVE  NumberEncoded(tk, p, symbols, c, at, len)
<1> DEFINE e == Encode(tk, p, symbols, c)
           p1 == p + 1
           p2 == p1 + 1
           t == TokAt(tk, p1)
           ins == find_instr(tk[p].val)
           c0 == Fresh(c, ins.code)
           c1 == PutNum(c0, at, len, Value(t, symbols))
           arg == IArg(at, len)
<1>1. ins.arg1 = arg /\ ins.arg2 = NoArg
  BY DEF NumberRow
<1>2. NoArg.kind = "NO_ARG" /\ \A s : Operand(tk, arg, s, symbols) = get_num(tk, arg, s, symbols)
  BY DEF IArg, Operand, NoArg
<1>3. Kind(t) = "V" <=> IsValue(t)
  BY Kinds
<1>4. arg.pos = at /\ arg.hi = len
  BY DEF IArg
<1> HIDE DEF ins, e, c0, c1, p2, arg
<1>5. CASE Kind(t) # "V"
  <2>1. Operand(tk, ins.arg1, Good(p1, c0), symbols) = Bad(p1, c0)
    BY <1>1, <1>2, <1>3, <1>5, GetNum
  <2>2. e.ok = FALSE
    BY <1>1, <1>2, <2>1, FirstFails DEF ins, e, c0, ArgKinds
  <2> QED
    BY <1>5, <2>2 DEF e, NumberEncoded
<1>6. CASE Kind(t) = "V" /\ ~Found(t, symbols)
  <2>1. Operand(tk, ins.arg1, Good(p1, c0), symbols) = Bad(p2, c1)
    BY <1>1, <1>2, <1>3, <1>4, <1>6, GetNum DEF c1, p2
  <2>2. e.ok = FALSE
    BY <1>1, <1>2, <2>1, FirstFails DEF ins, e, c0, ArgKinds
  <2> QED
    BY <1>6, <2>2 DEF e, NumberEncoded
<1>7. CASE Kind(t) = "V" /\ Found(t, symbols)
  <2>1. Operand(tk, ins.arg1, Good(p1, c0), symbols) = Good(p2, c1)
    BY <1>1, <1>2, <1>3, <1>4, <1>7, GetNum DEF c1, p2
  <2>2. Prints(e, c1)
    BY <1>1, <1>2, <2>1, OnlyOperand DEF ins, e, c0, ArgKinds
  <2>3. DOMAIN c0 = 0 .. 9 /\ c0[0] = ins.code
    BY FreshCode DEF c0
  <2>4. DOMAIN c1 = 0 .. 9
    BY <2>3, Numbered DEF c1
  <2>5. at = 1 => c1[0] = ins.code
    BY <2>3, Numbered DEF c1
  <2>6. \A k \in 0 .. len - 1 : c1[at + k] = Byte(Value(t, symbols), k)
    BY <2>3, Numbered DEF c1
  <2>7. Done(e) /\ e.code = c1
    BY <2>2, <2>4 DEF Done, Prints
  <2> QED
    BY <1>7, <2>5, <2>6, <2>7 DEF e, ins, NumberEncoded
<1> QED
  BY <1>5, <1>6, <1>7

\* The bytes of irmovq and iaddq.
LEMMA EncodeImmediate ==
    ASSUME NEW tk \in Seq(Token), NEW p, tk[p].val \in Immediates,
           NEW symbols, NEW c, DOMAIN c = 0 .. 9
    PROVE  LET e == Encode(tk, p, symbols, c)
               K(k) == Kind(TokAt(tk, k))
               p1 == p + 1
               p2 == p1 + 1
               p3 == p2 + 1
               fits == K(p1) = "V" /\ K(p2) = "," /\ K(p3) = "REG" /\ Found(TokAt(tk, p1), symbols)
           IN /\ ~fits => e.ok = FALSE
              /\ fits => /\ Done(e) /\ e.code[0] = find_instr(tk[p].val).code
                         /\ e.code[1] = 16 * 15 + Rg(tk, p3)
                         /\ WordIs(e.code, 2, Value(TokAt(tk, p1), symbols))
<1> DEFINE e == Encode(tk, p, symbols, c)
           K(k) == Kind(TokAt(tk, k))
           p1 == p + 1
           p2 == p1 + 1
           p3 == p2 + 1
           p4 == p3 + 1
           t == TokAt(tk, p1)
           ins == find_instr(tk[p].val)
           c0 == Fresh(c, ins.code)
           c1 == PutNum(c0, 2, 8, Value(t, symbols))
           c2 == WithReg(c1, RArg(1, 0), Rg(tk, p3))
           arg == IArg(2, 8)
<1>1. ins.arg1 = arg /\ ins.arg2 = RArg(1, 0)
  BY OtherRows DEF Row
<1>2. /\ RArg(1, 0).kind = "R_ARG"
      /\ \A s : Operand(tk, arg, s, symbols) = get_num(tk, arg, s, symbols)
      /\ \A s : Operand(tk, RArg(1, 0), s, symbols) = get_reg(tk, RArg(1, 0), s)
  BY DEF RArg, IArg, Operand
<1>3. Kind(t) = "V" <=> IsValue(t)
  BY Kinds
<1>4. K(p3) = "REG" <=> TokAt(tk, p3).type = "REG"
  BY Kinds
<1>5. K(p2) = "," <=> Punct(tk, p2, ",")
  BY Kinds
<1>6. arg.pos = 2 /\ arg.hi = 8
  BY DEF IArg
<1> HIDE DEF ins, e, c0, c1, c2, p4, arg
<1>7. CASE K(p1) # "V"
  <2>1. Operand(tk, ins.arg1, Good(p1, c0), symbols) = Bad(p1, c0)
    BY <1>1, <1>2, <1>3, <1>7, GetNum
  <2>2. e.ok = FALSE
    BY <1>1, <1>2, <2>1, FirstFails DEF ins, e, c0, ArgKinds
  <2> QED
    BY <1>7, <2>2 DEF e
<1>8. CASE K(p1) = "V" /\ ~Found(t, symbols)
  <2>1. Operand(tk, ins.arg1, Good(p1, c0), symbols) = Bad(p2, c1)
    BY <1>1, <1>2, <1>3, <1>6, <1>8, GetNum DEF c1
  <2>2. e.ok = FALSE
    BY <1>1, <1>2, <2>1, FirstFails DEF ins, e, c0, ArgKinds
  <2> QED
    BY <1>8, <2>2 DEF e
<1>9. CASE K(p1) = "V" /\ Found(t, symbols)
  <2>1. Operand(tk, ins.arg1, Good(p1, c0), symbols) = Good(p2, c1)
    BY <1>1, <1>2, <1>3, <1>6, <1>9, GetNum DEF c1
  <2>2. CASE K(p2) # ","
    <3>1. ~Punct(tk, p2, ",")
      BY <1>5, <2>2
    <3>2. e.ok = FALSE
      BY <1>1, <1>2, <2>1, <3>1, NoComma DEF ins, e, c0, ArgKinds
    <3> QED
      BY <2>2, <3>2 DEF e
  <2>3. CASE K(p2) = ","
    <3>0. Punct(tk, p2, ",")
      BY <1>5, <2>3
    <3>1. CASE K(p3) # "REG"
      <4>1. Operand(tk, ins.arg2, Good(p3, c1), symbols) = Bad(p3, c1)
        BY <1>1, <1>2, <1>4, <3>1, GetReg
      <4>2. e.ok = FALSE
        BY <1>1, <1>2, <2>1, <3>0, <4>1, SecondFails DEF ins, e, c0, ArgKinds
      <4> QED
        BY <3>1, <4>2 DEF e
    <3>2. CASE K(p3) = "REG"
      <4>1. Operand(tk, ins.arg2, Good(p3, c1), symbols) = Good(p4, c2)
        BY <1>1, <1>2, <1>4, <3>2, GetReg DEF c2, Rg, p4
      <4>2. Prints(e, c2)
        BY <1>1, <1>2, <2>1, <3>0, <4>1, BothOperands DEF ins, e, c0, ArgKinds
      <4>3. DOMAIN c0 = 0 .. 9 /\ c0[0] = ins.code /\ c0[1] = HPACK(REG_NONE, REG_NONE)
        BY FreshCode DEF c0
      <4>4. DOMAIN c1 = 0 .. 9 /\ c1[0] = ins.code /\ c1[1] = HPACK(REG_NONE, REG_NONE)
        <5>1. DOMAIN c1 = 0 .. 9
          BY <4>3, Numbered DEF c1
        <5>2. \A k \in 0 .. 9 : k < 2 => c1[k] = c0[k]
          BY <4>3, Numbered DEF c1
        <5> QED
          BY <4>3, <5>1, <5>2
      <4>5. \A k \in 0 .. 7 : c1[2 + k] = Byte(Value(t, symbols), k)
        BY <4>3, Numbered DEF c1
      <4>6. /\ DOMAIN c2 = 0 .. 9 /\ c2[1] = SetLow(c1[1], Rg(tk, p3))
            /\ \A k \in 0 .. 9 : k # 1 => c2[k] = c1[k]
        BY <4>4, WithRegCode DEF c2
      <4>7. Rg(tk, p3) \in 0 .. 15
        <5>1. Rg(tk, p3) \in 0 .. 14
          BY <1>4, <3>2, Kinds DEF Rg
        <5> QED
          BY <5>1
      <4>8. c2[0] = ins.code /\ c2[1] = 16 * 15 + Rg(tk, p3)
        <5>1. SetLow(HPACK(REG_NONE, REG_NONE), Rg(tk, p3)) = 16 * 15 + Rg(tk, p3)
          BY <4>7, Nibbles
        <5> QED
          BY <4>4, <4>6, <5>1
      <4>9. WordIs(c2, 2, Value(t, symbols))
        BY <4>5, <4>6 DEF WordIs
      <4>10. Done(e) /\ e.code = c2
        BY <4>2, <4>6 DEF Done, Prints
      <4> QED
        BY <1>9, <2>3, <3>2, <4>8, <4>9, <4>10 DEF e, ins
    <3> QED
      BY <3>1, <3>2
  <2> QED
    BY <2>2, <2>3
<1> QED
  BY <1>7, <1>8, <1>9

\* A memory operand at q1: where it ends, if it is one, and its register.
MemEnd(tk, q1) ==
    LET q == AfterDisplacement(tk, q1) IN IF Punct(tk, q, "(") THEN q + 3 ELSE q

\* A memory operand that is complete and whose label is found.
MemOk(tk, q1, symbols) ==
    LET q == AfterDisplacement(tk, q1)
    IN (Punct(tk, q, "(") => Based(tk, q)) /\ Found(TokAt(tk, q1), symbols)

\* The register that a memory operand puts in the code.
MemReg(tk, q1) ==
    LET q == AfterDisplacement(tk, q1) IN IF Punct(tk, q, "(") THEN Rg(tk, q + 1) ELSE REG_NONE

\* What get_mem leaves, by whether its operand is complete.
LEMMA GetMemory ==
    ASSUME NEW tk \in Seq(Token), NEW p, NEW c, NEW symbols
    PROVE  LET m == get_mem(tk, MArg(1), Good(p, c), symbols)
           IN /\ ~MemOk(tk, p, symbols) => \E n, d : m = Bad(n, d)
              /\ MemOk(tk, p, symbols) =>
                     /\ m = Good(MemEnd(tk, p),
                                 PutMem(c, 1, MemReg(tk, p), Displacement(TokAt(tk, p), symbols)))
                     /\ MemReg(tk, p) \in 0 .. 15
<1> DEFINE q == AfterDisplacement(tk, p)
           q1 == q + 1
           m == get_mem(tk, MArg(1), Good(p, c), symbols)
           put(r) == PutMem(c, 1, r, Displacement(TokAt(tk, p), symbols))
<1>1. MArg(1).pos = 1
  BY DEF MArg
<1> HIDE DEF q
<1>2. CASE ~MemOk(tk, p, symbols)
  BY <1>2, GetMem DEF MemOk, q
<1>3. CASE MemOk(tk, p, symbols) /\ ~Punct(tk, q, "(")
  <2>1. m = Good(q, put(REG_NONE))
    BY <1>1, <1>3, GetMem DEF MemOk, q
  <2>2. MemEnd(tk, p) = q /\ MemReg(tk, p) = REG_NONE
    BY <1>3 DEF MemEnd, MemReg, q
  <2> QED
    BY <1>3, <2>1, <2>2 DEF REG_NONE
<1>4. CASE MemOk(tk, p, symbols) /\ Punct(tk, q, "(")
  <2>1. Based(tk, q) /\ Found(TokAt(tk, p), symbols)
    BY <1>4 DEF MemOk, q
  <2>2. m = Good(q + 3, put(Rg(tk, q1)))
    BY <1>1, <1>4, <2>1, GetMem DEF q, Rg
  <2>3. MemEnd(tk, p) = q + 3 /\ MemReg(tk, p) = Rg(tk, q1)
    BY <1>4 DEF MemEnd, MemReg, q
  <2>4. TokAt(tk, q1).type = "REG"
    BY <2>1 DEF Based
  <2>5. Rg(tk, q1) \in 0 .. 14
    BY <2>4, Kinds DEF Rg
  <2>6. Rg(tk, q1) \in 0 .. 15
    BY <2>5
  <2> QED
    BY <1>4, <2>2, <2>3, <2>6
<1> QED
  BY <1>2, <1>3, <1>4

\* The bytes of rmmovq.
LEMMA EncodeStore ==
    ASSUME NEW tk \in Seq(Token), NEW p, tk[p].val = "rmmovq",
           NEW symbols, NEW c, DOMAIN c = 0 .. 9
    PROVE  LET e == Encode(tk, p, symbols, c)
               K(k) == Kind(TokAt(tk, k))
               p1 == p + 1
               p2 == p1 + 1
               p3 == p2 + 1
               fits == K(p1) = "REG" /\ K(p2) = "," /\ MemOk(tk, p3, symbols)
           IN /\ ~fits => e.ok = FALSE
              /\ fits => /\ Done(e) /\ e.code[0] = find_instr(tk[p].val).code
                         /\ e.code[1] = 16 * Rg(tk, p1) + MemReg(tk, p3)
                         /\ WordIs(e.code, 2, Displacement(TokAt(tk, p3), symbols))
<1> DEFINE e == Encode(tk, p, symbols, c)
           K(k) == Kind(TokAt(tk, k))
           p1 == p + 1
           p2 == p1 + 1
           p3 == p2 + 1
           v == Displacement(TokAt(tk, p3), symbols)
           ins == find_instr(tk[p].val)
           c0 == Fresh(c, ins.code)
           c1 == WithReg(c0, RArg(1, 1), Rg(tk, p1))
           c2 == PutMem(c1, 1, MemReg(tk, p3), v)
           n2 == MemEnd(tk, p3)
<1>1. ins.arg1 = RArg(1, 1) /\ ins.arg2 = MArg(1)
  BY OtherRows DEF Row
<1>2. /\ MArg(1).kind = "M_ARG"
      /\ \A s : Operand(tk, RArg(1, 1), s, symbols) = get_reg(tk, RArg(1, 1), s)
      /\ \A s : Operand(tk, MArg(1), s, symbols) = get_mem(tk, MArg(1), s, symbols)
  BY DEF RArg, MArg, Operand
<1>3. K(p1) = "REG" <=> TokAt(tk, p1).type = "REG"
  BY Kinds
<1>4. K(p2) = "," <=> Punct(tk, p2, ",")
  BY Kinds
<1> HIDE DEF ins, e, c0, c1, c2, n2, v
<1>5. CASE K(p1) # "REG"
  <2>1. Operand(tk, ins.arg1, Good(p1, c0), symbols) = Bad(p1, c0)
    BY <1>1, <1>2, <1>3, <1>5, GetReg
  <2>2. e.ok = FALSE
    BY <1>1, <1>2, <2>1, FirstFails DEF ins, e, c0, ArgKinds
  <2> QED
    BY <1>5, <2>2 DEF e
<1>6. CASE K(p1) = "REG"
  <2>1. Operand(tk, ins.arg1, Good(p1, c0), symbols) = Good(p2, c1)
    BY <1>1, <1>2, <1>3, <1>6, GetReg DEF c1, Rg
  <2>2. CASE K(p2) # ","
    <3>1. ~Punct(tk, p2, ",")
      BY <1>4, <2>2
    <3>2. e.ok = FALSE
      BY <1>1, <1>2, <2>1, <3>1, NoComma DEF ins, e, c0, ArgKinds
    <3> QED
      BY <2>2, <3>2 DEF e
  <2>3. CASE K(p2) = ","
    <3>0. Punct(tk, p2, ",")
      BY <1>4, <2>3
    <3>1. CASE ~MemOk(tk, p3, symbols)
      <4>1. PICK n, d : get_mem(tk, MArg(1), Good(p3, c1), symbols) = Bad(n, d)
        BY <3>1, GetMemory
      <4>2. Operand(tk, ins.arg2, Good(p3, c1), symbols) = Bad(n, d)
        BY <1>1, <1>2, <4>1
      <4>3. e.ok = FALSE
        BY <1>1, <1>2, <2>1, <3>0, <4>2, SecondFails DEF ins, e, c0, ArgKinds
      <4> QED
        BY <3>1, <4>3 DEF e
    <3>2. CASE MemOk(tk, p3, symbols)
      <4>0. get_mem(tk, MArg(1), Good(p3, c1), symbols) = Good(n2, c2) /\ MemReg(tk, p3) \in 0 .. 15
        BY <3>2, GetMemory DEF c2, n2, v
      <4>1. Operand(tk, ins.arg2, Good(p3, c1), symbols) = Good(n2, c2)
        BY <1>1, <1>2, <4>0
      <4>2. Prints(e, c2)
        BY <1>1, <1>2, <2>1, <3>0, <4>1, BothOperands DEF ins, e, c0, ArgKinds
      <4>3. DOMAIN c0 = 0 .. 9 /\ c0[0] = ins.code /\ c0[1] = HPACK(REG_NONE, REG_NONE)
        BY FreshCode DEF c0
      <4>4. DOMAIN c1 = 0 .. 9 /\ c1[0] = ins.code /\ c1[1] = SetHigh(c0[1], Rg(tk, p1))
        BY <4>3, WithRegCode DEF c1
      <4>5. /\ DOMAIN c2 = 0 .. 9 /\ c2[0] = c1[0] /\ c2[1] = SetLow(c1[1], MemReg(tk, p3))
            /\ WordIs(c2, 2, v)
        BY <4>4, PutMemCode DEF c2
      <4>6. Rg(tk, p1) \in 0 .. 15
        <5>1. Rg(tk, p1) \in 0 .. 14
          BY <1>3, <1>6, Kinds DEF Rg
        <5> QED
          BY <5>1
      <4>7. c1[1] = 16 * Rg(tk, p1) + 15
        BY <4>3, <4>4, <4>6, Nibbles
      <4>8. c2[1] = 16 * Rg(tk, p1) + MemReg(tk, p3)
        BY <4>0, <4>5, <4>6, <4>7, Nibbles
      <4>9. Done(e) /\ e.code = c2
        BY <4>2, <4>5 DEF Done, Prints
      <4> QED
        BY <1>6, <2>3, <3>2, <4>4, <4>5, <4>8, <4>9 DEF e, ins, v
    <3> QED
      BY <3>1, <3>2
  <2> QED
    BY <2>2, <2>3
<1> QED
  BY <1>5, <1>6

\* The bytes of mrmovq.
LEMMA EncodeLoad ==
    ASSUME NEW tk \in Seq(Token), NEW p, tk[p].val = "mrmovq",
           NEW symbols, NEW c, DOMAIN c = 0 .. 9
    PROVE  LET e == Encode(tk, p, symbols, c)
               K(k) == Kind(TokAt(tk, k))
               p1 == p + 1
               n1 == MemEnd(tk, p1)
               n2 == n1 + 1
               fits == MemOk(tk, p1, symbols) /\ K(n1) = "," /\ K(n2) = "REG"
           IN /\ ~fits => e.ok = FALSE
              /\ fits => /\ Done(e) /\ e.code[0] = find_instr(tk[p].val).code
                         /\ e.code[1] = 16 * Rg(tk, n2) + MemReg(tk, p1)
                         /\ WordIs(e.code, 2, Displacement(TokAt(tk, p1), symbols))
<1> DEFINE e == Encode(tk, p, symbols, c)
           K(k) == Kind(TokAt(tk, k))
           p1 == p + 1
           n1 == MemEnd(tk, p1)
           n2 == n1 + 1
           n3 == n2 + 1
           v == Displacement(TokAt(tk, p1), symbols)
           ins == find_instr(tk[p].val)
           c0 == Fresh(c, ins.code)
           c1 == PutMem(c0, 1, MemReg(tk, p1), v)
           c2 == WithReg(c1, RArg(1, 1), Rg(tk, n2))
<1>1. ins.arg1 = MArg(1) /\ ins.arg2 = RArg(1, 1)
  BY OtherRows DEF Row
<1>2. /\ RArg(1, 1).kind = "R_ARG"
      /\ \A s : Operand(tk, RArg(1, 1), s, symbols) = get_reg(tk, RArg(1, 1), s)
      /\ \A s : Operand(tk, MArg(1), s, symbols) = get_mem(tk, MArg(1), s, symbols)
  BY DEF RArg, MArg, Operand
<1> HIDE DEF n1
<1>3. K(n2) = "REG" <=> TokAt(tk, n2).type = "REG"
  BY Kinds
<1>4. K(n1) = "," <=> Punct(tk, n1, ",")
  BY Kinds
<1> HIDE DEF ins, e, c0, c1, c2, n3, v
<1>5. CASE ~MemOk(tk, p1, symbols)
  <2>1. PICK n, d : get_mem(tk, MArg(1), Good(p1, c0), symbols) = Bad(n, d)
    BY <1>5, GetMemory
  <2>2. Operand(tk, ins.arg1, Good(p1, c0), symbols) = Bad(n, d)
    BY <1>1, <1>2, <2>1
  <2>3. e.ok = FALSE
    BY <1>1, <1>2, <2>2, FirstFails DEF ins, e, c0, ArgKinds
  <2> QED
    BY <1>5, <2>3 DEF e
<1>6. CASE MemOk(tk, p1, symbols)
  <2>0. get_mem(tk, MArg(1), Good(p1, c0), symbols) = Good(n1, c1) /\ MemReg(tk, p1) \in 0 .. 15
    BY <1>6, GetMemory DEF c1, n1, v
  <2>1. Operand(tk, ins.arg1, Good(p1, c0), symbols) = Good(n1, c1)
    BY <1>1, <1>2, <2>0
  <2>2. CASE K(n1) # ","
    <3>1. ~Punct(tk, n1, ",")
      BY <1>4, <2>2
    <3>2. e.ok = FALSE
      BY <1>1, <1>2, <2>1, <3>1, NoComma DEF ins, e, c0, ArgKinds
    <3> QED
      BY <2>2, <3>2 DEF e, n1
  <2>3. CASE K(n1) = ","
    <3>0. Punct(tk, n1, ",")
      BY <1>4, <2>3
    <3>1. CASE K(n2) # "REG"
      <4>1. Operand(tk, ins.arg2, Good(n2, c1), symbols) = Bad(n2, c1)
        BY <1>1, <1>2, <1>3, <3>1, GetReg
      <4>2. e.ok = FALSE
        BY <1>1, <1>2, <2>1, <3>0, <4>1, SecondFails DEF ins, e, c0, ArgKinds
      <4> QED
        BY <3>1, <4>2 DEF e, n1
    <3>2. CASE K(n2) = "REG"
      <4>1. Operand(tk, ins.arg2, Good(n2, c1), symbols) = Good(n3, c2)
        BY <1>1, <1>2, <1>3, <3>2, GetReg DEF c2, Rg, n3
      <4>2. Prints(e, c2)
        BY <1>1, <1>2, <2>1, <3>0, <4>1, BothOperands DEF ins, e, c0, ArgKinds
      <4>3. DOMAIN c0 = 0 .. 9 /\ c0[0] = ins.code /\ c0[1] = HPACK(REG_NONE, REG_NONE)
        BY FreshCode DEF c0
      <4>4. /\ DOMAIN c1 = 0 .. 9 /\ c1[0] = ins.code /\ c1[1] = SetLow(c0[1], MemReg(tk, p1))
            /\ WordIs(c1, 2, v)
        BY <4>3, PutMemCode DEF c1
      <4>5. /\ DOMAIN c2 = 0 .. 9 /\ c2[1] = SetHigh(c1[1], Rg(tk, n2))
            /\ \A k \in 0 .. 9 : k # 1 => c2[k] = c1[k]
        BY <4>4, WithRegCode DEF c2
      <4>6. Rg(tk, n2) \in 0 .. 15
        <5>1. Rg(tk, n2) \in 0 .. 14
          BY <1>3, <3>2, Kinds DEF Rg
        <5> QED
          BY <5>1
      <4>7. c1[1] = 16 * 15 + MemReg(tk, p1)
        BY <2>0, <4>3, <4>4, Nibbles
      <4>8. c2[1] = 16 * Rg(tk, n2) + MemReg(tk, p1)
        <5>1. SetHigh(16 * 15 + MemReg(tk, p1), Rg(tk, n2)) = 16 * Rg(tk, n2) + MemReg(tk, p1)
          BY <2>0, <4>6, Nibbles
        <5> QED
          BY <4>5, <4>7, <5>1
      <4>9. c2[0] = ins.code /\ WordIs(c2, 2, v)
        BY <4>4, <4>5 DEF WordIs
      <4>10. Done(e) /\ e.code = c2
        BY <4>2, <4>5 DEF Done, Prints
      <4> QED
        BY <1>6, <2>3, <3>2, <4>8, <4>9, <4>10 DEF e, ins, v, n1
    <3> QED
      BY <3>1, <3>2
  <2> QED
    BY <2>2, <2>3
<1> QED
  BY <1>5, <1>6

-----------------------------------------------------------------------------
(* What the simulators read from the bytes.                                *)

\* How step_state reads what a code has, and its size.
LEMMA FetchHolds ==
    ASSUME NEW i, NEW d, NEW ic \in 0 .. 15, NEW fn \in 0 .. 15, NEW len \in 1 .. 10,
           find_instr(Name(i).val).code = HPACK(ic, fn), d[0] = HPACK(ic, fn),
           NEW ra \in 0 .. 15, NEW rb \in 0 .. 15,
           ic \in {2, 3, 4, 5, 6, 10, 11, 12} =>
               len >= 2 /\ d[1] = 16 * ra + rb /\ RegistersOf(i) = <<ra, rb>>,
           ic \in {3, 4, 5, 12} => len = 10 /\ WordIs(d, 2, Number(i)),
           ic \in {7, 8} => len = 9 /\ WordIs(d, 1, Number(i))
    PROVE  FetchIs(i, [k \in 0 .. len - 1 |-> d[k]])
<1> DEFINE b == [k \in 0 .. len - 1 |-> d[k]]
<1>1. \A k \in 0 .. len - 1 : b[k] = d[k]
  OBVIOUS
<1>2. b[0] = 16 * ic + fn
  BY DEF HPACK
<1>3. (16 * ic + fn) \div 16 = ic
  BY Nibbles
<1>4. ic \in {2, 3, 4, 5, 6, 10, 11, 12} => <<b[1] \div 16, b[1] % 16>> = RegistersOf(i)
  <2>1. (16 * ra + rb) \div 16 = ra /\ (16 * ra + rb) % 16 = rb
    BY Nibbles
  <2>2. len >= 2 => b[1] = d[1]
    BY <1>1
  <2> QED
    BY <2>1, <2>2
<1>5. ic \in {3, 4, 5, 12} => WordIs(b, 2, Number(i))
  BY <1>1 DEF WordIs
<1>6. ic \in {7, 8} => WordIs(b, 1, Number(i))
  BY <1>1 DEF WordIs
<1> HIDE DEF b
<1>7. b[0] \div 16 = ic
  BY <1>2, <1>3
<1>8. b[0] = find_instr(Name(i).val).code
  BY <1>2 DEF HPACK
<1> QED
  BY <1>4, <1>5, <1>6, <1>7, <1>8 DEF FetchIs, b

\* The same fact by what there is after the first byte.
Coded(i, d, ic) == \E fn \in 0 .. 15 : find_instr(Name(i).val).code = HPACK(ic, fn) /\ d[0] = HPACK(ic, fn)

\* What step_state reads from an instruction with registers only.
LEMMA FetchRegisters ==
    ASSUME NEW i, NEW d, NEW ic \in {2, 6, 10, 11}, Coded(i, d, ic),
           NEW ra \in 0 .. 15, NEW rb \in 0 .. 15,
           d[1] = 16 * ra + rb, RegistersOf(i) = <<ra, rb>>
    PROVE  FetchIs(i, [k \in 0 .. 1 |-> d[k]])
<1>1. PICK fn \in 0 .. 15 : find_instr(Name(i).val).code = HPACK(ic, fn) /\ d[0] = HPACK(ic, fn)
  BY DEF Coded
<1>2. ic \in 0 .. 15 /\ ic \notin {3, 4, 5, 12} /\ ic \notin {7, 8} /\ 2 \in 1 .. 10 /\ 2 >= 2 /\ 2 - 1 = 1
  OBVIOUS
<1>3. FetchIs(i, [k \in 0 .. 2 - 1 |-> d[k]])
  BY <1>1, <1>2, FetchHolds, Zenon
<1> QED
  BY <1>2, <1>3

\* What step_state reads from one with registers and a number.
LEMMA FetchRegistersWord ==
    ASSUME NEW i, NEW d, NEW ic \in {3, 4, 5, 12}, Coded(i, d, ic),
           NEW ra \in 0 .. 15, NEW rb \in 0 .. 15,
           d[1] = 16 * ra + rb, RegistersOf(i) = <<ra, rb>>, WordIs(d, 2, Number(i))
    PROVE  FetchIs(i, [k \in 0 .. 9 |-> d[k]])
<1>1. PICK fn \in 0 .. 15 : find_instr(Name(i).val).code = HPACK(ic, fn) /\ d[0] = HPACK(ic, fn)
  BY DEF Coded
<1>2. ic \in 0 .. 15 /\ ic \notin {7, 8} /\ 10 \in 1 .. 10 /\ 10 >= 2 /\ 10 - 1 = 9
  OBVIOUS
<1>3. FetchIs(i, [k \in 0 .. 10 - 1 |-> d[k]])
  BY <1>1, <1>2, FetchHolds, Zenon
<1> QED
  BY <1>2, <1>3

\* What step_state reads from one with a number only.
LEMMA FetchWord ==
    ASSUME NEW i, NEW d, NEW ic \in {7, 8}, Coded(i, d, ic), WordIs(d, 1, Number(i))
    PROVE  FetchIs(i, [k \in 0 .. 8 |-> d[k]])
<1>1. PICK fn \in 0 .. 15 : find_instr(Name(i).val).code = HPACK(ic, fn) /\ d[0] = HPACK(ic, fn)
  BY DEF Coded
<1>2. /\ ic \in 0 .. 15 /\ ic \notin {2, 3, 4, 5, 6, 10, 11, 12} /\ ic \notin {3, 4, 5, 12}
      /\ 9 \in 1 .. 10 /\ 0 \in 0 .. 15 /\ 9 - 1 = 8
  OBVIOUS
<1>3. FetchIs(i, [k \in 0 .. 9 - 1 |-> d[k]])
  BY <1>1, <1>2, FetchHolds, Zenon
<1> QED
  BY <1>2, <1>3

\* What step_state reads from one without operands.
LEMMA FetchByte ==
    ASSUME NEW i, NEW d, NEW ic \in {0, 1, 9}, Coded(i, d, ic)
    PROVE  FetchIs(i, [k \in 0 .. 0 |-> d[k]])
<1>1. PICK fn \in 0 .. 15 : find_instr(Name(i).val).code = HPACK(ic, fn) /\ d[0] = HPACK(ic, fn)
  BY DEF Coded
<1>2. /\ ic \in 0 .. 15 /\ ic \notin {2, 3, 4, 5, 6, 10, 11, 12} /\ ic \notin {3, 4, 5, 12} /\ ic \notin {7, 8}
      /\ 1 \in 1 .. 10 /\ 0 \in 0 .. 15 /\ 1 - 1 = 0
  OBVIOUS
<1>3. FetchIs(i, [k \in 0 .. 1 - 1 |-> d[k]])
  BY <1>1, <1>2, FetchHolds, Zenon
<1> QED
  BY <1>2, <1>3

\* The first and the last of one place.
LEMMA FirstLast ==
    ASSUME NEW k
    PROVE  First({k}) = k /\ Last({k}) = k
<1>1. PICK x \in {k} : TRUE
  OBVIOUS
<1> QED
  BY DEF First, Last

\* The first and the last of two places.
LEMMA FirstLastPair ==
    ASSUME NEW j \in Int, NEW k \in Int, j < k
    PROVE  First({j, k}) = j /\ Last({j, k}) = k
  BY DEF First, Last

\* The operand k of a line.
K(i, k) == Kind(Op(i, k))

\* The one shape that fits a line is its shape.
LEMMA ShapeIs ==
    ASSUME NEW i, Name(i).val \notin {".pos", ".align"},
           NEW shape \in Shapes(Name(i).val), Fits(i, shape),
           \A other \in Shapes(Name(i).val) : Fits(i, other) => other = shape
    PROVE  /\ Shape(i) = shape
           /\ \A kind : Places(i, kind) = {k \in DOMAIN shape : shape[k] = kind}
           /\ GoodStatement(i) <=> Resolved(i, shape)
<1>1. Shape(i) = shape
  BY DEF Shape
<1>2. \A kind : Places(i, kind) = {k \in DOMAIN shape : shape[k] = kind}
  BY <1>1 DEF Places
<1>3. GoodStatement(i) <=> \E sh \in Shapes(Name(i).val) : Fits(i, sh) /\ Resolved(i, sh)
  BY DEF GoodStatement
<1> QED
  BY <1>1, <1>2, <1>3

\* A statement that fits no shape is not a good one.
LEMMA NoShape ==
    ASSUME NEW i, Name(i).val \notin {".pos", ".align"},
           \A other \in Shapes(Name(i).val) : ~Fits(i, other)
    PROVE  ~GoodStatement(i)
  BY DEF GoodStatement

\* A label of a line, if it has one: whether the symbol table has it and
\* where, as the source says.
Linked(i, symbols) ==
    \A k \in 1 .. 6 : Op(i, k).type = "IDENT" =>
        /\ Found(Op(i, k), symbols) <=> \E j \in DOMAIN src : TokAt(Toks(j), 1) = Op(i, k)
        /\ Found(Op(i, k), symbols) => find_symbol(symbols, Op(i, k).val) = LabelAt(Op(i, k))

\* The shapes of an instruction with one way to write it.
LEMMA FitsPlain ==
    ASSUME NEW i, Name(i).val # "rmmovq"
    PROVE  /\ Fits(i, <<>>)
           /\ \A a : Fits(i, <<a>>) <=> K(i, 1) = a
           /\ \A a, b, c : Fits(i, <<a, b, c>>) <=> K(i, 1) = a /\ K(i, 2) = b /\ K(i, 3) = c
<1>1. \A shape : Fits(i, shape) <=> \A k \in DOMAIN shape : Kind(Op(i, k)) = shape[k]
  BY DEF Fits
<1>2. DOMAIN <<>> = {}
  OBVIOUS
<1>3. \A a : DOMAIN <<a>> = {1} /\ <<a>>[1] = a
  OBVIOUS
<1>4. \A a, b, c : DOMAIN <<a, b, c>> = {1, 2, 3} /\ <<a, b, c>>[1] = a /\ <<a, b, c>>[2] = b
                   /\ <<a, b, c>>[3] = c
  OBVIOUS
<1> QED
  BY <1>1, <1>2, <1>3, <1>4 DEF K

-----------------------------------------------------------------------------
(* Each class of instructions is encoded as its line says.                 *)

\* The operands of a line and the tokens that Encode reads.
LEMMA OpAt ==
    ASSUME NEW i
    PROVE  LET tk == Toks(i)
               p == StatementAt(i)
               p1 == p + 1
               p2 == p1 + 1
               p3 == p2 + 1
           IN /\ Op(i, 1) = TokAt(tk, p1) /\ Op(i, 2) = TokAt(tk, p2) /\ Op(i, 3) = TokAt(tk, p3)
              /\ Op(i, 4) = TokAt(tk, p3 + 1) /\ Op(i, 5) = TokAt(tk, p3 + 2)
              /\ Op(i, 6) = TokAt(tk, p3 + 3)
              /\ Op(i, 3) = TokAt(tk, p1 + 2) /\ Op(i, 4) = TokAt(tk, p1 + 3)
              /\ Op(i, 5) = TokAt(tk, p1 + 4) /\ Op(i, 6) = TokAt(tk, p1 + 5)
<1>1. CASE StatementAt(i) = 1
  BY <1>1 DEF Op
<1>2. CASE StatementAt(i) = 3
  BY <1>2 DEF Op
<1> QED
  BY <1>1, <1>2 DEF StatementAt

\* A line that holds an instruction or data is encoded as it says, or fails.
LineRight(i, symbols, c) ==
    LET e == Encode(Toks(i), StatementAt(i), symbols, c)
    IN /\ ~GoodStatement(i) => e.ok = FALSE
       /\ GoodStatement(i) =>
              /\ Done(e)
              /\ Says(i, [k \in 0 .. find_instr(Name(i).val).bytes - 1 |-> e.code[k]])

\* A line of tokens with an instruction named.
Written(i, names) ==
    /\ Toks(i) \in Seq(Token)
    /\ Name(i).val \in names
    /\ Toks(i)[StatementAt(i)].val = Name(i).val

\* The places of two kinds of token in the shapes.
AllPlaces(i, R, V, C, L, P) ==
    /\ Shape(i) = <<>> => Places(i, R) = {} /\ Places(i, V) = {}
    /\ Shape(i) = <<R>> => Places(i, R) = {1} /\ Places(i, V) = {}
    /\ Shape(i) = <<V>> => Places(i, V) = {1}
    /\ Shape(i) = <<R, C>> => Places(i, R) = {1} /\ Places(i, V) = {}
    /\ Shape(i) = <<C, R>> => Places(i, R) = {2} /\ Places(i, V) = {}
    /\ Shape(i) = <<R, C, R>> => Places(i, R) = {1, 3} /\ Places(i, V) = {}
    /\ Shape(i) = <<R, C, V>> => Places(i, R) = {1} /\ Places(i, V) = {3}
    /\ Shape(i) = <<V, C, R>> => Places(i, R) = {3} /\ Places(i, V) = {1}
    /\ Shape(i) = <<R, C, L, R, P>> => Places(i, R) = {1, 4} /\ Places(i, V) = {}
    /\ Shape(i) = <<L, R, P, C, R>> => Places(i, R) = {2, 5} /\ Places(i, V) = {}
    /\ Shape(i) = <<R, C, V, L, R, P>> => Places(i, R) = {1, 5} /\ Places(i, V) = {3}
    /\ Shape(i) = <<V, L, R, P, C, R>> => Places(i, R) = {3, 6} /\ Places(i, V) = {1}

\* The places of registers and numbers in every shape.
LEMMA KindPlaces ==
    ASSUME NEW i, NEW R, NEW V, NEW C, NEW L, NEW P, R # V,
           C \notin {R, V}, L \notin {R, V}, P \notin {R, V}
    PROVE  AllPlaces(i, R, V, C, L, P)
<1>0. ASSUME NEW n, NEW s, Shape(i) = s PROVE Places(i, n) = {k \in DOMAIN s : s[k] = n}
  BY <1>0 DEF Places
<1>1. Shape(i) = <<>> => Places(i, R) = {} /\ Places(i, V) = {}
  BY <1>0
<1>2. Shape(i) = <<R>> => Places(i, R) = {1} /\ Places(i, V) = {}
  BY <1>0
<1>3. Shape(i) = <<V>> => Places(i, V) = {1}
  BY <1>0
<1>4. Shape(i) = <<R, C>> => Places(i, R) = {1} /\ Places(i, V) = {}
  BY <1>0
<1>5. Shape(i) = <<C, R>> => Places(i, R) = {2} /\ Places(i, V) = {}
  BY <1>0
<1>6. Shape(i) = <<R, C, R>> => Places(i, R) = {1, 3} /\ Places(i, V) = {}
  BY <1>0
<1>7. Shape(i) = <<R, C, V>> => Places(i, R) = {1} /\ Places(i, V) = {3}
  BY <1>0
<1>8. Shape(i) = <<V, C, R>> => Places(i, R) = {3} /\ Places(i, V) = {1}
  BY <1>0
<1>9. Shape(i) = <<R, C, L, R, P>> => Places(i, R) = {1, 4} /\ Places(i, V) = {}
  BY <1>0
<1>10. Shape(i) = <<L, R, P, C, R>> => Places(i, R) = {2, 5} /\ Places(i, V) = {}
  BY <1>0
<1>11. Shape(i) = <<R, C, V, L, R, P>> => Places(i, R) = {1, 5} /\ Places(i, V) = {3}
  BY <1>0
<1>12. Shape(i) = <<V, L, R, P, C, R>> => Places(i, R) = {3, 6} /\ Places(i, V) = {1}
  BY <1>0
<1> QED
  BY <1>1, <1>2, <1>3, <1>4, <1>5, <1>6, <1>7, <1>8, <1>9, <1>10, <1>11, <1>12 DEF AllPlaces

\* The same for the kinds that the shapes use.
LEMMA ShapePlaces ==
    \A i : AllPlaces(i, "REG", "V", ",", "(", ")")
<1>1. "REG" # "V" /\ "," \notin {"REG", "V"} /\ "(" \notin {"REG", "V"} /\ ")" \notin {"REG", "V"}
  OBVIOUS
<1> QED
  BY <1>1, KindPlaces, Zenon

\* A line with two registers is encoded as it says.
LEMMA RightOperates ==
    ASSUME NEW i, Written(i, Operates), NEW symbols, NEW c, DOMAIN c = 0 .. 9
    PROVE  LineRight(i, symbols, c)
<1> DEFINE tk == Toks(i)
           p == StatementAt(i)
           n == Name(i).val
           e == Encode(tk, p, symbols, c)
           shape == <<"REG", ",", "REG">>
           fits == K(i, 1) = "REG" /\ K(i, 2) = "," /\ K(i, 3) = "REG"
           ra == Rg(tk, p + 1)
           rb == Rg(tk, p + 1 + 1 + 1)
<1>1. tk \in Seq(Token) /\ n \in Operates /\ tk[p].val = n
  BY DEF Written
<1>2. Op(i, 1) = TokAt(tk, p + 1) /\ Op(i, 2) = TokAt(tk, p + 1 + 1) /\ Op(i, 3) = TokAt(tk, p + 1 + 1 + 1)
  BY OpAt
<1>3. n \notin {".pos", ".align", "irmovq", "iaddq", "rmmovq", "mrmovq", "pushq", "popq"} /\ ~In(n, Allocs)
  BY <1>1, TableNames DEF Operates
<1>4. Shapes(n) = {shape}
  <2>1. (In(n, Moves) \/ In(n, Alus)) /\ ~In(n, Jumps) /\ n # "call"
    BY <1>1, TableNames DEF Operates
  <2> HIDE DEF n
  <2> QED
    BY <1>3, <2>1 DEF Shapes
<1>5. Fits(i, shape) <=> fits
  BY <1>3, FitsPlain
<1> HIDE DEF p, n, e
<1>6. /\ ~fits => e.ok = FALSE
      /\ fits => Done(e) /\ e.code[0] = find_instr(n).code /\ e.code[1] = 16 * ra + rb
  <2>1. tk[p].val \in Operates
    BY <1>1
  <2>2. fits <=> Kind(TokAt(tk, p + 1)) = "REG" /\ Kind(TokAt(tk, p + 1 + 1)) = ","
                 /\ Kind(TokAt(tk, p + 1 + 1 + 1)) = "REG"
    BY <1>2 DEF K
  <2>3. /\ ~(Kind(TokAt(tk, p + 1)) = "REG" /\ Kind(TokAt(tk, p + 1 + 1)) = ","
             /\ Kind(TokAt(tk, p + 1 + 1 + 1)) = "REG") => e.ok = FALSE
        /\ Kind(TokAt(tk, p + 1)) = "REG" /\ Kind(TokAt(tk, p + 1 + 1)) = ","
           /\ Kind(TokAt(tk, p + 1 + 1 + 1)) = "REG" =>
             /\ Done(e) /\ e.code[0] = find_instr(tk[p].val).code
             /\ e.code[1] = 16 * Rg(tk, p + 1) + Rg(tk, p + 1 + 1 + 1)
    BY <1>1, <2>1, EncodeOperates DEF e
  <2> HIDE DEF fits
  <2> QED
    BY <1>1, <2>2, <2>3 DEF e
<1>7. CASE ~fits
  <2>1. ~GoodStatement(i)
    BY <1>3, <1>4, <1>5, <1>7, NoShape DEF n
  <2> QED
    BY <1>6, <1>7, <2>1 DEF LineRight, e, p
<1>8. CASE fits
  <2>0. /\ shape \in Shapes(Name(i).val) /\ Fits(i, shape) /\ Name(i).val \notin {".pos", ".align"}
        /\ \A other \in Shapes(Name(i).val) : Fits(i, other) => other = shape
    BY <1>3, <1>4, <1>5, <1>8 DEF n
  <2>1. Shape(i) = shape
    <3> HIDE DEF shape
    <3> QED
      BY <2>0, ShapeIs
  <2>2. Places(i, "REG") = {1, 3}
    BY <2>1, ShapePlaces DEF AllPlaces
  <2>3. First(Places(i, "REG")) = 1 /\ Last(Places(i, "REG")) = 3
    <3>1. First({1, 3}) = 1 /\ Last({1, 3}) = 3
      BY FirstLastPair
    <3> QED
      BY <2>2, <3>1
  <2>4. RegistersOf(i) = <<ra, rb>>
    BY <1>2, <1>3, <2>3 DEF RegistersOf, Rg, n, p
  <2>5. ra \in 0 .. 15
    <3>1. Op(i, 1).type = "REG"
      BY <1>1, <1>2, <1>8, Kinds DEF K
    <3>2. ra \in 0 .. 14
      BY <1>1, <1>2, <3>1, Kinds DEF Rg
    <3> QED
      BY <3>2
  <2>6. rb \in 0 .. 15
    <3>1. Op(i, 3).type = "REG"
      BY <1>1, <1>2, <1>8, Kinds DEF K
    <3>2. rb \in 0 .. 14
      BY <1>1, <1>2, <3>1, Kinds DEF Rg
    <3> QED
      BY <3>2
  <2> HIDE DEF ra, rb
  <2>7. PICK ic \in {2, 6}, fn \in 0 .. 6 : find_instr(n) = Row(HPACK(ic, fn), 2, RArg(1, 1), RArg(1, 0))
    BY <1>1, OperatesRow
  <2>8. find_instr(n).code = HPACK(ic, fn) /\ find_instr(n).bytes = 2
    BY <2>7 DEF Row
  <2>9. Coded(i, e.code, ic)
    <3>1. fn \in 0 .. 15
      OBVIOUS
    <3> QED
      BY <1>6, <1>8, <2>8, <3>1 DEF Coded, n
  <2>10. FetchIs(i, [k \in 0 .. 1 |-> e.code[k]])
    BY <1>6, <1>8, <2>4, <2>5, <2>6, <2>9, FetchRegisters
  <2>11. Says(i, [k \in 0 .. find_instr(Name(i).val).bytes - 1 |-> e.code[k]])
    BY <1>3, <2>8, <2>10 DEF Says, n
  <2>12. GoodStatement(i) <=> Resolved(i, shape)
    BY <2>0, ShapeIs
  <2>13. Resolved(i, shape)
    <3> SUFFICES ASSUME NEW k \in {1, 2, 3}
                 PROVE  Op(i, k).type # "IDENT"
      BY DEF Resolved
    <3>1. Kind(Op(i, k)) # "V"
      BY <1>8 DEF K
    <3> QED
      BY <3>1 DEF Kind, IsValue
  <2> QED
    BY <1>6, <1>8, <2>11, <2>12, <2>13 DEF LineRight, e, p
<1> QED
  BY <1>7, <1>8

\* The number of a register.
LEMMA RgRange ==
    ASSUME NEW tk \in Seq(Token), NEW k, Kind(TokAt(tk, k)) = "REG"
    PROVE  Rg(tk, k) \in 0 .. 15
<1>1. TokAt(tk, k).type = "REG"
  BY Kinds
<1>2. Rg(tk, k) \in 0 .. 14
  BY <1>1, Kinds DEF Rg
<1> QED
  BY <1>2

\* The number of a line with one, found or not.
LEMMA NumberAt ==
    ASSUME NEW i, Toks(i) \in Seq(Token), NEW symbols, Linked(i, symbols), NEW k \in 1 .. 6,
           Places(i, "V") = {k}, K(i, k) = "V", Found(Op(i, k), symbols)
    PROVE  Number(i) = Value(Op(i, k), symbols)
<1>1. Places(i, "V") # {} /\ First(Places(i, "V")) = k
  BY FirstLast
<1>2. IsValue(Op(i, k))
  BY Kinds DEF K, Op
<1>3. CASE Op(i, k).type = "NUM"
  BY <1>1, <1>3 DEF Number, Value
<1>4. CASE Op(i, k).type = "IDENT"
  BY <1>1, <1>4 DEF Number, Value, Linked
<1> QED
  BY <1>2, <1>3, <1>4 DEF IsValue

\* A token that is not a value is not a label.
LEMMA NoLabel ==
    ASSUME NEW i, NEW k, K(i, k) # "V", NEW symbols
    PROVE  Op(i, k).type # "IDENT" /\ Found(Op(i, k), symbols)
<1>1. CASE Op(i, k).type = "IDENT"
  <2>1. Op(i, k).type # "PUNCT"
    BY <1>1
  <2>2. IsValue(Op(i, k))
    BY <1>1 DEF IsValue
  <2> QED
    BY <2>1, <2>2 DEF K, Kind
<1> QED
  BY <1>1 DEF Found

\* Whether the labels of a line are found only depends on its number.
LEMMA ResolvedNone ==
    ASSUME NEW i, NEW shape, \A k \in DOMAIN shape : K(i, k) # "V"
    PROVE  Resolved(i, shape)
  BY NoLabel DEF Resolved

\* A line with one number is resolved when its label is found.
LEMMA ResolvedOne ==
    ASSUME NEW i, NEW shape, NEW symbols, Linked(i, symbols), NEW v \in DOMAIN shape, v \in 1 .. 6,
           \A k \in DOMAIN shape : k = v \/ K(i, k) # "V"
    PROVE  Resolved(i, shape) <=> Found(Op(i, v), symbols)
<1>1. Resolved(i, shape) <=> (Op(i, v).type = "IDENT" => \E j \in DOMAIN src : TokAt(Toks(j), 1) = Op(i, v))
  BY NoLabel DEF Resolved
<1> QED
  BY <1>1 DEF Linked, Found

\* pushq and popq are encoded as they say.
LEMMA RightStack ==
    ASSUME NEW i, Written(i, Stacks), NEW symbols, NEW c, DOMAIN c = 0 .. 9
    PROVE  LineRight(i, symbols, c)
<1> DEFINE tk == Toks(i)
           p == StatementAt(i)
           n == Name(i).val
           e == Encode(tk, p, symbols, c)
           shape == <<"REG">>
           fits == K(i, 1) = "REG"
           ra == Rg(tk, p + 1)
<1>1. tk \in Seq(Token) /\ n \in Stacks /\ tk[p].val = n
  BY DEF Written
<1>2. Op(i, 1) = TokAt(tk, p + 1)
  BY OpAt
<1>3. /\ n \notin {".pos", ".align", "irmovq", "iaddq", "rmmovq", "mrmovq", "call"}
      /\ ~In(n, Allocs) /\ ~In(n, Moves) /\ ~In(n, Alus) /\ ~In(n, Jumps)
  BY <1>1, TableNames DEF Stacks
<1>4. Shapes(n) = {shape}
  <2> HIDE DEF n
  <2> QED
    BY <1>1, <1>3 DEF Shapes, Stacks
<1>5. Fits(i, shape) <=> fits
  BY <1>3, FitsPlain
<1> HIDE DEF p, n, e
<1>6. /\ ~fits => e.ok = FALSE
      /\ fits => Done(e) /\ e.code[0] = find_instr(n).code /\ e.code[1] = 16 * ra + 15
  <2>1. /\ Kind(TokAt(tk, p + 1)) # "REG" => e.ok = FALSE
        /\ Kind(TokAt(tk, p + 1)) = "REG" =>
             /\ Done(e) /\ e.code[0] = find_instr(tk[p].val).code
             /\ e.code[1] = 16 * Rg(tk, p + 1) + 15
    <3>1. tk[p].val \in Stacks
      BY <1>1
    <3> QED
      BY <1>1, <3>1, EncodeStack DEF e
  <2> QED
    BY <1>1, <1>2, <2>1 DEF K
<1>7. CASE ~fits
  <2>1. ~GoodStatement(i)
    BY <1>3, <1>4, <1>5, <1>7, NoShape DEF n
  <2> QED
    BY <1>6, <1>7, <2>1 DEF LineRight, e, p
<1>8. CASE fits
  <2>1. /\ shape \in Shapes(Name(i).val) /\ Fits(i, shape) /\ Name(i).val \notin {".pos", ".align"}
        /\ \A other \in Shapes(Name(i).val) : Fits(i, other) => other = shape
    BY <1>3, <1>4, <1>5, <1>8 DEF n
  <2>2. Shape(i) = shape /\ (GoodStatement(i) <=> Resolved(i, shape))
    <3> HIDE DEF shape
    <3> QED
      BY <2>1, ShapeIs
  <2>3. First(Places(i, "REG")) = 1 /\ Last(Places(i, "REG")) = 1
    BY <2>2, ShapePlaces, FirstLast DEF AllPlaces
  <2>4. RegistersOf(i) = <<ra, 15>>
    BY <1>1, <1>2, <1>3, <2>3 DEF RegistersOf, Rg, n, REG_NONE, Stacks
  <2>5. ra \in 0 .. 15
    BY <1>1, <1>2, <1>8, RgRange DEF K
  <2> HIDE DEF ra
  <2>6. PICK ic \in {10, 11} : find_instr(n) = Row(HPACK(ic, 0), 2, RArg(1, 1), NoArg)
    BY <1>1, OtherRows
  <2>7. find_instr(n).code = HPACK(ic, 0) /\ find_instr(n).bytes = 2
    BY <2>6 DEF Row
  <2>8. Coded(i, e.code, ic)
    <3>1. 0 \in 0 .. 15
      OBVIOUS
    <3> QED
      BY <1>6, <1>8, <2>7, <3>1 DEF Coded, n
  <2>9. FetchIs(i, [k \in 0 .. 1 |-> e.code[k]])
    <3>1. 15 \in 0 .. 15 /\ ic \in {2, 6, 10, 11}
      OBVIOUS
    <3>2. e.code[1] = 16 * ra + 15
      BY <1>6, <1>8
    <3> QED
      BY <2>4, <2>5, <2>8, <3>1, <3>2, FetchRegisters
  <2>10. Says(i, [k \in 0 .. find_instr(Name(i).val).bytes - 1 |-> e.code[k]])
    BY <1>3, <2>7, <2>9 DEF Says, n
  <2>11. Resolved(i, shape)
    BY <1>8, ResolvedNone
  <2> QED
    BY <1>6, <1>8, <2>2, <2>10, <2>11 DEF LineRight, e, p
<1> QED
  BY <1>7, <1>8

\* An instruction without operands is encoded as it says.
LEMMA RightLone ==
    ASSUME NEW i, Written(i, Lone), NEW symbols, NEW c, DOMAIN c = 0 .. 9
    PROVE  LineRight(i, symbols, c)
<1> DEFINE tk == Toks(i)
           p == StatementAt(i)
           n == Name(i).val
           e == Encode(tk, p, symbols, c)
           shape == <<>>
<1>1. tk \in Seq(Token) /\ n \in Lone /\ tk[p].val = n
  BY DEF Written
<1>2. /\ n \notin {".pos", ".align", "irmovq", "iaddq", "rmmovq", "mrmovq", "call", "pushq", "popq"}
      /\ ~In(n, Allocs) /\ ~In(n, Moves) /\ ~In(n, Alus) /\ ~In(n, Jumps)
  BY <1>1, TableNames DEF Lone
<1>3. Shapes(n) = {shape}
  <2> HIDE DEF n
  <2> QED
    BY <1>1, <1>2 DEF Shapes
<1>4. Fits(i, shape)
  BY <1>2, FitsPlain
<1> HIDE DEF p, n, e
<1>5. Done(e) /\ e.code[0] = find_instr(n).code
  BY <1>1, EncodeLone DEF e
<1>6. /\ shape \in Shapes(Name(i).val) /\ Fits(i, shape) /\ Name(i).val \notin {".pos", ".align"}
      /\ \A other \in Shapes(Name(i).val) : Fits(i, other) => other = shape
  BY <1>2, <1>3, <1>4 DEF n
<1>7. GoodStatement(i) <=> Resolved(i, shape)
  <2> HIDE DEF shape
  <2> QED
    BY <1>6, ShapeIs
<1>8. Resolved(i, shape)
  BY ResolvedNone
<1>9. PICK ic \in {0, 1, 9} : find_instr(n) = Row(HPACK(ic, 0), 1, NoArg, NoArg)
  BY <1>1, OtherRows
<1>10. find_instr(n).code = HPACK(ic, 0) /\ find_instr(n).bytes = 1
  BY <1>9 DEF Row
<1>11. Coded(i, e.code, ic)
  <2>1. 0 \in 0 .. 15
    OBVIOUS
  <2> QED
    BY <1>5, <1>10, <2>1 DEF Coded, n
<1>12. FetchIs(i, [k \in 0 .. 0 |-> e.code[k]])
  BY <1>11, FetchByte
<1>13. Says(i, [k \in 0 .. find_instr(Name(i).val).bytes - 1 |-> e.code[k]])
  BY <1>2, <1>10, <1>12 DEF Says, n
<1> QED
  BY <1>5, <1>7, <1>8, <1>13 DEF LineRight, e, p

\* irmovq and iaddq are encoded as they say.
LEMMA RightImmediate ==
    ASSUME NEW i, Written(i, Immediates), NEW symbols, Linked(i, symbols), NEW c, DOMAIN c = 0 .. 9
    PROVE  LineRight(i, symbols, c)
<1> DEFINE tk == Toks(i)
           p == StatementAt(i)
           n == Name(i).val
           e == Encode(tk, p, symbols, c)
           shape == <<"V", ",", "REG">>
           fits == K(i, 1) = "V" /\ K(i, 2) = "," /\ K(i, 3) = "REG"
           found == Found(Op(i, 1), symbols)
           rb == Rg(tk, p + 1 + 1 + 1)
           v == Value(Op(i, 1), symbols)
<1>1. tk \in Seq(Token) /\ n \in Immediates /\ tk[p].val = n
  BY DEF Written
<1>2. Op(i, 1) = TokAt(tk, p + 1) /\ Op(i, 2) = TokAt(tk, p + 1 + 1) /\ Op(i, 3) = TokAt(tk, p + 1 + 1 + 1)
  BY OpAt
<1>3. /\ n \notin {".pos", ".align", "rmmovq", "mrmovq", "call", "pushq", "popq"}
      /\ ~In(n, Allocs) /\ ~In(n, Moves) /\ ~In(n, Alus) /\ ~In(n, Jumps)
  BY <1>1, TableNames DEF Immediates
<1>4. Shapes(n) = {shape}
  <2> HIDE DEF n
  <2> QED
    BY <1>1, <1>3 DEF Shapes, Immediates
<1>5. Fits(i, shape) <=> fits
  BY <1>3, FitsPlain
<1> HIDE DEF p, n, e, v
<1>6. /\ ~(fits /\ found) => e.ok = FALSE
      /\ fits /\ found => /\ Done(e) /\ e.code[0] = find_instr(n).code
                          /\ e.code[1] = 16 * 15 + rb /\ WordIs(e.code, 2, v)
  <2>1. tk[p].val \in Immediates
    BY <1>1
  <2>2. LET here == Kind(TokAt(tk, p + 1)) = "V" /\ Kind(TokAt(tk, p + 1 + 1)) = ","
                    /\ Kind(TokAt(tk, p + 1 + 1 + 1)) = "REG" /\ Found(TokAt(tk, p + 1), symbols)
        IN /\ ~here => e.ok = FALSE
           /\ here => /\ Done(e) /\ e.code[0] = find_instr(tk[p].val).code
                      /\ e.code[1] = 16 * 15 + Rg(tk, p + 1 + 1 + 1)
                      /\ WordIs(e.code, 2, Value(TokAt(tk, p + 1), symbols))
    BY <1>1, <2>1, EncodeImmediate DEF e
  <2> QED
    BY <1>1, <1>2, <2>2 DEF K, v
<1>7. CASE ~fits
  <2>1. ~GoodStatement(i)
    BY <1>3, <1>4, <1>5, <1>7, NoShape DEF n
  <2> QED
    BY <1>6, <1>7, <2>1 DEF LineRight, e, p
<1>8. CASE fits
  <2>1. /\ shape \in Shapes(Name(i).val) /\ Fits(i, shape) /\ Name(i).val \notin {".pos", ".align"}
        /\ \A other \in Shapes(Name(i).val) : Fits(i, other) => other = shape
    BY <1>3, <1>4, <1>5, <1>8 DEF n
  <2>2. Shape(i) = shape /\ (GoodStatement(i) <=> Resolved(i, shape))
    <3> HIDE DEF shape
    <3> QED
      BY <2>1, ShapeIs
  <2>3. Places(i, "REG") = {3} /\ Places(i, "V") = {1}
    BY <2>2, ShapePlaces DEF AllPlaces
  <2>4. First(Places(i, "REG")) = 3 /\ Last(Places(i, "REG")) = 3
    BY <2>3, FirstLast
  <2>5. RegistersOf(i) = <<15, rb>>
    BY <1>1, <1>2, <1>3, <2>4 DEF RegistersOf, Rg, n, REG_NONE, Immediates
  <2>6. rb \in 0 .. 15
    BY <1>1, <1>2, <1>8, RgRange DEF K
  <2> HIDE DEF rb
  <2>7. Resolved(i, shape) <=> found
    <3>1. 1 \in DOMAIN shape /\ 1 \in 1 .. 6 /\ DOMAIN shape = {1, 2, 3}
      OBVIOUS
    <3>2. K(i, 2) # "V" /\ K(i, 3) # "V"
      BY <1>8
    <3> HIDE DEF shape
    <3> QED
      BY <3>1, <3>2, ResolvedOne
  <2>8. CASE ~found
    BY <1>6, <1>8, <2>2, <2>7, <2>8 DEF LineRight, e, p
  <2>9. CASE found
    <3>1. Number(i) = v
      <4>1. 1 \in 1 .. 6
        OBVIOUS
      <4> QED
        BY <1>1, <1>8, <2>3, <2>9, <4>1, NumberAt, Zenon DEF v
    <3>2. PICK ic \in {3, 12} : find_instr(n) = Row(HPACK(ic, 0), 10, IArg(2, 8), RArg(1, 0))
      BY <1>1, OtherRows
    <3>3. find_instr(n).code = HPACK(ic, 0) /\ find_instr(n).bytes = 10
      BY <3>2 DEF Row
    <3>4. Coded(i, e.code, ic)
      <4>1. 0 \in 0 .. 15
        OBVIOUS
      <4> QED
        BY <1>6, <1>8, <2>9, <3>3, <4>1 DEF Coded, n
    <3>5. FetchIs(i, [k \in 0 .. 9 |-> e.code[k]])
      <4>1. 15 \in 0 .. 15 /\ ic \in {3, 4, 5, 12}
        OBVIOUS
      <4>2. e.code[1] = 16 * 15 + rb
        BY <1>6, <1>8, <2>9
      <4>3. WordIs(e.code, 2, Number(i))
        BY <1>6, <1>8, <2>9, <3>1
      <4> QED
        BY <2>5, <2>6, <3>4, <4>1, <4>2, <4>3, FetchRegistersWord
    <3>6. Says(i, [k \in 0 .. find_instr(Name(i).val).bytes - 1 |-> e.code[k]])
      BY <1>3, <3>3, <3>5 DEF Says, n
    <3> QED
      BY <1>6, <1>8, <2>2, <2>7, <2>9, <3>6 DEF LineRight, e, p
  <2> QED
    BY <2>8, <2>9
<1> QED
  BY <1>7, <1>8

\* A number alone: a transfer, or data.
LEMMA RightNumber ==
    ASSUME NEW i, Written(i, Transfers \cup Named(Allocs)), NEW symbols, Linked(i, symbols),
           NEW c, DOMAIN c = 0 .. 9
    PROVE  LineRight(i, symbols, c)
<1> DEFINE tk == Toks(i)
           p == StatementAt(i)
           n == Name(i).val
           e == Encode(tk, p, symbols, c)
           shape == <<"V">>
           fits == K(i, 1) = "V"
           found == Found(Op(i, 1), symbols)
           v == Value(Op(i, 1), symbols)
<1>1. tk \in Seq(Token) /\ tk[p].val = n /\ (n \in Transfers \/ In(n, Allocs))
  BY DEF Written, Named, In
<1>2. Op(i, 1) = TokAt(tk, p + 1)
  BY OpAt
<1>3. /\ n \notin {".pos", ".align", "irmovq", "iaddq", "rmmovq", "mrmovq", "pushq", "popq"}
      /\ ~In(n, Moves) /\ ~In(n, Alus)
      /\ In(n, Jumps) \/ In(n, Allocs) \/ n = "call"
  BY <1>1, TableNames DEF Transfers
<1>4. Shapes(n) = {shape}
  <2> HIDE DEF n
  <2> QED
    BY <1>3 DEF Shapes
<1>5. Fits(i, shape) <=> fits
  BY <1>3, FitsPlain
<1> HIDE DEF p, n, e, v
<1>7. PICK at \in {0, 1}, len \in 1 .. 8 :
        /\ find_instr(n).arg1 = IArg(at, len) /\ find_instr(n).arg2 = NoArg
        /\ find_instr(n).bytes = at + len
        /\ at = 0 => In(n, Allocs)
        /\ at = 1 => \E ic \in {7, 8}, fn \in 0 .. 6 : find_instr(n).code = HPACK(ic, fn)
        /\ at = 1 => ~In(n, Allocs) /\ len = 8
  <2>1. CASE n \in Transfers
    <3>1. PICK ic \in {7, 8}, fn \in 0 .. 6 : find_instr(n) = Row(HPACK(ic, fn), 9, IArg(1, 8), NoArg)
      BY <2>1, TransfersRow
    <3>2. /\ find_instr(n).arg1 = IArg(1, 8) /\ find_instr(n).arg2 = NoArg
          /\ find_instr(n).bytes = 1 + 8 /\ find_instr(n).code = HPACK(ic, fn)
      BY <3>1 DEF Row
    <3>3. ~In(n, Allocs)
      BY <2>1, TableNames DEF Transfers
    <3> QED
      BY <3>2, <3>3
  <2>2. CASE In(n, Allocs)
    <3>1. PICK b \in 1 .. 8 : find_instr(n) = Row(0, b, IArg(0, b), NoArg)
      BY <2>2, OtherRows
    <3>2. /\ find_instr(n).arg1 = IArg(0, b) /\ find_instr(n).arg2 = NoArg
          /\ find_instr(n).bytes = 0 + b
      BY <3>1 DEF Row
    <3> QED
      BY <2>2, <3>2
  <2> QED
    BY <1>1, <2>1, <2>2
<1>8. /\ ~(fits /\ found) => e.ok = FALSE
      /\ fits /\ found => /\ Done(e)
                          /\ at = 1 => e.code[0] = find_instr(n).code
                          /\ \A k \in 0 .. len - 1 : e.code[at + k] = Byte(v, k)
  <2>1. NumberRow(tk[p].val, at, len)
    BY <1>1, <1>7 DEF NumberRow
  <2>2. NumberEncoded(tk, p, symbols, c, at, len)
    BY <1>1, <2>1, EncodeNumber, Zenon
  <2> QED
    BY <1>1, <1>2, <2>2 DEF K, v, e, NumberEncoded
<1>9. CASE ~fits
  <2>1. ~GoodStatement(i)
    BY <1>3, <1>4, <1>5, <1>9, NoShape DEF n
  <2> QED
    BY <1>8, <1>9, <2>1 DEF LineRight, e, p
<1>10. CASE fits
  <2>1. /\ shape \in Shapes(Name(i).val) /\ Fits(i, shape) /\ Name(i).val \notin {".pos", ".align"}
        /\ \A other \in Shapes(Name(i).val) : Fits(i, other) => other = shape
    BY <1>3, <1>4, <1>5, <1>10 DEF n
  <2>2. Shape(i) = shape /\ (GoodStatement(i) <=> Resolved(i, shape))
    <3> HIDE DEF shape
    <3> QED
      BY <2>1, ShapeIs
  <2>3. Places(i, "V") = {1}
    BY <2>2, ShapePlaces DEF AllPlaces
  <2>4. Resolved(i, shape) <=> found
    <3>1. 1 \in DOMAIN shape /\ 1 \in 1 .. 6 /\ DOMAIN shape = {1}
      OBVIOUS
    <3> HIDE DEF shape
    <3> QED
      BY <3>1, ResolvedOne
  <2>5. CASE ~found
    BY <1>8, <1>10, <2>2, <2>4, <2>5 DEF LineRight, e, p
  <2>6. CASE found
    <3>1. Number(i) = v
      <4>1. 1 \in 1 .. 6
        OBVIOUS
      <4> QED
        BY <1>1, <1>10, <2>3, <2>6, <4>1, NumberAt, Zenon DEF v
    <3>2. Says(i, [k \in 0 .. find_instr(Name(i).val).bytes - 1 |-> e.code[k]])
      <4>1. CASE at = 1
        <5>1. PICK ic \in {7, 8}, fn \in 0 .. 6 : find_instr(n).code = HPACK(ic, fn)
          BY <1>7, <4>1
        <5>2. Coded(i, e.code, ic)
          <6>1. fn \in 0 .. 15
            OBVIOUS
          <6> QED
            BY <1>8, <1>10, <2>6, <4>1, <5>1, <6>1 DEF Coded, n
        <5>3. WordIs(e.code, 1, Number(i))
          BY <1>7, <1>8, <1>10, <2>6, <3>1, <4>1 DEF WordIs
        <5>4. FetchIs(i, [k \in 0 .. 8 |-> e.code[k]])
          BY <5>2, <5>3, FetchWord
        <5>5. find_instr(n).bytes - 1 = 8 /\ ~In(n, Allocs)
          BY <1>7, <4>1
        <5> QED
          BY <5>4, <5>5 DEF Says, n
      <4>2. CASE at = 0
        <5> DEFINE b == [k \in 0 .. len - 1 |-> e.code[k]]
        <5>1. \A k \in 0 .. len - 1 : b[k] = Byte(Number(i), k)
          BY <1>8, <1>10, <2>6, <3>1, <4>2
        <5>2. DataIs(i, b)
          BY <5>1 DEF DataIs
        <5>3. In(n, Allocs) /\ find_instr(n).bytes - 1 = len - 1
          BY <1>7, <4>2
        <5> QED
          BY <5>2, <5>3 DEF Says, n
      <4> QED
        BY <4>1, <4>2
    <3> QED
      BY <1>8, <1>10, <2>2, <2>4, <2>6, <3>2 DEF LineRight, e, p
  <2> QED
    BY <2>5, <2>6
<1> QED
  BY <1>9, <1>10

\* The four ways to write a memory operand at q.
LEMMA MemoryParts ==
    ASSUME NEW tk \in Seq(Token), NEW q \in Int, NEW symbols
    PROVE  LET T(k) == Kind(TokAt(tk, k))
               found == Found(TokAt(tk, q), symbols)
               v == Value(TokAt(tk, q), symbols)
               d == Displacement(TokAt(tk, q), symbols)
           IN /\ T(q) # "V" /\ T(q) # "(" =>
                     MemOk(tk, q, symbols) /\ MemEnd(tk, q) = q /\ MemReg(tk, q) = 15 /\ d = 0
              /\ T(q) = "V" /\ T(q + 1) # "(" =>
                     /\ MemOk(tk, q, symbols) <=> found
                     /\ MemEnd(tk, q) = q + 1 /\ MemReg(tk, q) = 15 /\ d = v
              /\ T(q) = "(" =>
                     /\ MemOk(tk, q, symbols) <=> T(q + 1) = "REG" /\ T(q + 2) = ")"
                     /\ MemEnd(tk, q) = q + 3 /\ MemReg(tk, q) = Rg(tk, q + 1) /\ d = 0
              /\ T(q) = "V" /\ T(q + 1) = "(" =>
                     /\ MemOk(tk, q, symbols) <=> T(q + 2) = "REG" /\ T(q + 3) = ")" /\ found
                     /\ MemEnd(tk, q) = q + 4 /\ MemReg(tk, q) = Rg(tk, q + 2) /\ d = v
<1> DEFINE T(k) == Kind(TokAt(tk, k))
           found == Found(TokAt(tk, q), symbols)
           v == Value(TokAt(tk, q), symbols)
           d == Displacement(TokAt(tk, q), symbols)
<1>1. ASSUME NEW k PROVE T(k) = "REG" <=> TokAt(tk, k).type = "REG"
  BY Kinds
<1>2. ASSUME NEW k PROVE T(k) = "(" <=> Punct(tk, k, "(")
  BY Kinds
<1>3. ASSUME NEW k PROVE T(k) = ")" <=> Punct(tk, k, ")")
  BY Kinds
<1>4. T(q) = "V" <=> IsValue(TokAt(tk, q))
  BY Kinds
<1>5. CASE T(q) = "V"
  <2>1. AfterDisplacement(tk, q) = q + 1 /\ d = v
    BY <1>4, <1>5 DEF AfterDisplacement, Displacement
  <2>2. (q + 1) + 1 = q + 2 /\ (q + 1) + 2 = q + 3 /\ (q + 1) + 3 = q + 4
    OBVIOUS
  <2>3. Based(tk, q + 1) <=> T(q + 2) = "REG" /\ T(q + 3) = ")"
    BY <1>1, <1>3, <2>2 DEF Based
  <2>4. T(q + 1) = "(" <=> Punct(tk, q + 1, "(")
    BY <1>2
  <2>5. MemOk(tk, q, symbols) <=> (T(q + 1) = "(" => T(q + 2) = "REG" /\ T(q + 3) = ")") /\ found
    BY <2>1, <2>3, <2>4 DEF MemOk
  <2>6. MemEnd(tk, q) = (IF T(q + 1) = "(" THEN q + 4 ELSE q + 1)
    BY <2>1, <2>2, <2>4 DEF MemEnd
  <2>7. MemReg(tk, q) = (IF T(q + 1) = "(" THEN Rg(tk, q + 2) ELSE 15)
    BY <2>1, <2>2, <2>4 DEF MemReg, REG_NONE
  <2>8. T(q) # "("
    BY <1>5
  <2> HIDE DEF T, found, v, d
  <2> QED
    BY <1>5, <2>1, <2>5, <2>6, <2>7, <2>8 DEF T, found, v, d
<1>6. CASE T(q) # "V"
  <2>1. AfterDisplacement(tk, q) = q /\ d = 0
    BY <1>4, <1>6 DEF AfterDisplacement, Displacement
  <2>2. found
    BY <1>4, <1>6 DEF Found, IsValue
  <2>3. Based(tk, q) <=> T(q + 1) = "REG" /\ T(q + 2) = ")"
    BY <1>1, <1>3 DEF Based
  <2>4. T(q) = "(" <=> Punct(tk, q, "(")
    BY <1>2
  <2>5. MemOk(tk, q, symbols) <=> (T(q) = "(" => T(q + 1) = "REG" /\ T(q + 2) = ")")
    BY <2>1, <2>2, <2>3, <2>4 DEF MemOk
  <2>6. MemEnd(tk, q) = (IF T(q) = "(" THEN q + 3 ELSE q)
    BY <2>1, <2>4 DEF MemEnd
  <2>7. MemReg(tk, q) = (IF T(q) = "(" THEN Rg(tk, q + 1) ELSE 15)
    BY <2>1, <2>4 DEF MemReg, REG_NONE
  <2> QED
    BY <1>6, <2>1, <2>5, <2>6, <2>7
<1> QED
  BY <1>5, <1>6

\* When the shapes of the two memory instructions fit a line.
LEMMA FitsMemory ==
    ASSUME NEW i
    PROVE  /\ Name(i).val = "rmmovq" => \A a, b :
                  Fits(i, <<a, b>>) <=> /\ K(i, 1) = a /\ K(i, 2) = b
                                        /\ b # ")" => K(i, 3) # "("
                                        /\ b = "," => K(i, 3) # "V"
           /\ Name(i).val = "rmmovq" => \A a, b, c :
                  Fits(i, <<a, b, c>>) <=> /\ K(i, 1) = a /\ K(i, 2) = b /\ K(i, 3) = c
                                           /\ c # ")" => K(i, 4) # "("
                                           /\ c = "," => K(i, 4) # "V"
           /\ Name(i).val # "rmmovq" => \A a, b :
                  Fits(i, <<a, b>>) <=> K(i, 1) = a /\ K(i, 2) = b
           /\ \A a, b, c, d, e : e = ")" \/ Name(i).val # "rmmovq" =>
                  (Fits(i, <<a, b, c, d, e>>) <=>
                       K(i, 1) = a /\ K(i, 2) = b /\ K(i, 3) = c /\ K(i, 4) = d /\ K(i, 5) = e)
           /\ \A a, b, c, d, e, f : f = ")" \/ Name(i).val # "rmmovq" =>
                  (Fits(i, <<a, b, c, d, e, f>>) <=>
                       /\ K(i, 1) = a /\ K(i, 2) = b /\ K(i, 3) = c /\ K(i, 4) = d
                       /\ K(i, 5) = e /\ K(i, 6) = f)
<1>1. ASSUME NEW shape, NEW len \in Nat, Len(shape) = len, DOMAIN shape = 1 .. len
      PROVE  Fits(i, shape) <=>
                 /\ \A k \in 1 .. len : K(i, k) = shape[k]
                 /\ Name(i).val = "rmmovq" /\ shape[len] # ")" => K(i, len + 1) # "("
                 /\ Name(i).val = "rmmovq" /\ shape[len] = "," => K(i, len + 1) # "V"
  BY <1>1 DEF Fits, K
<1>2. \A a, b : Len(<<a, b>>) = 2 /\ DOMAIN <<a, b>> = 1 .. 2 /\ <<a, b>>[1] = a /\ <<a, b>>[2] = b
  OBVIOUS
<1>3. \A a, b, c : /\ Len(<<a, b, c>>) = 3 /\ DOMAIN <<a, b, c>> = 1 .. 3
                   /\ <<a, b, c>>[1] = a /\ <<a, b, c>>[2] = b /\ <<a, b, c>>[3] = c
  OBVIOUS
<1>4. \A a, b, c, d, e :
          /\ Len(<<a, b, c, d, e>>) = 5 /\ DOMAIN <<a, b, c, d, e>> = 1 .. 5
          /\ <<a, b, c, d, e>>[1] = a /\ <<a, b, c, d, e>>[2] = b /\ <<a, b, c, d, e>>[3] = c
          /\ <<a, b, c, d, e>>[4] = d /\ <<a, b, c, d, e>>[5] = e
  OBVIOUS
<1>5. \A a, b, c, d, e, f :
          /\ Len(<<a, b, c, d, e, f>>) = 6 /\ DOMAIN <<a, b, c, d, e, f>> = 1 .. 6
          /\ <<a, b, c, d, e, f>>[1] = a /\ <<a, b, c, d, e, f>>[2] = b /\ <<a, b, c, d, e, f>>[3] = c
          /\ <<a, b, c, d, e, f>>[4] = d /\ <<a, b, c, d, e, f>>[5] = e /\ <<a, b, c, d, e, f>>[6] = f
  OBVIOUS
<1>6. ASSUME NEW a, NEW b
      PROVE  Fits(i, <<a, b>>) <=> /\ K(i, 1) = a /\ K(i, 2) = b
                                   /\ Name(i).val = "rmmovq" /\ b # ")" => K(i, 3) # "("
                                   /\ Name(i).val = "rmmovq" /\ b = "," => K(i, 3) # "V"
  <2> DEFINE s == <<a, b>>
  <2>1. Len(s) = 2 /\ DOMAIN s = 1 .. 2 /\ s[1] = a /\ s[2] = b
    BY <1>2
  <2> HIDE DEF s
  <2>2. Fits(i, s) <=>
            /\ \A k \in 1 .. 2 : K(i, k) = s[k]
            /\ Name(i).val = "rmmovq" /\ s[2] # ")" => K(i, 2 + 1) # "("
            /\ Name(i).val = "rmmovq" /\ s[2] = "," => K(i, 2 + 1) # "V"
    BY <1>1, <2>1
  <2>3. (\A k \in 1 .. 2 : K(i, k) = s[k]) <=> (K(i, 1) = s[1] /\ K(i, 2) = s[2])
    OBVIOUS
  <2>4. 2 + 1 = 3 /\ 3 + 1 = 4
    OBVIOUS
  <2>5. Fits(i, s) <=> /\ K(i, 1) = a /\ K(i, 2) = b
                       /\ Name(i).val = "rmmovq" /\ b # ")" => K(i, 3) # "("
                       /\ Name(i).val = "rmmovq" /\ b = "," => K(i, 3) # "V"
    BY <2>1, <2>2, <2>3, <2>4
  <2> QED
    BY <2>5 DEF s
<1>7. ASSUME NEW a, NEW b, NEW c
      PROVE  Fits(i, <<a, b, c>>) <=> /\ K(i, 1) = a /\ K(i, 2) = b /\ K(i, 3) = c
                                      /\ Name(i).val = "rmmovq" /\ c # ")" => K(i, 4) # "("
                                      /\ Name(i).val = "rmmovq" /\ c = "," => K(i, 4) # "V"
  <2> DEFINE s == <<a, b, c>>
  <2>1. Len(s) = 3 /\ DOMAIN s = 1 .. 3 /\ s[1] = a /\ s[2] = b /\ s[3] = c
    BY <1>3
  <2> HIDE DEF s
  <2>2. Fits(i, s) <=>
            /\ \A k \in 1 .. 3 : K(i, k) = s[k]
            /\ Name(i).val = "rmmovq" /\ s[3] # ")" => K(i, 3 + 1) # "("
            /\ Name(i).val = "rmmovq" /\ s[3] = "," => K(i, 3 + 1) # "V"
    BY <1>1, <2>1
  <2>3. (\A k \in 1 .. 3 : K(i, k) = s[k]) <=> (K(i, 1) = s[1] /\ K(i, 2) = s[2] /\ K(i, 3) = s[3])
    OBVIOUS
  <2>4. 2 + 1 = 3 /\ 3 + 1 = 4
    OBVIOUS
  <2>5. Fits(i, s) <=> /\ K(i, 1) = a /\ K(i, 2) = b /\ K(i, 3) = c
                       /\ Name(i).val = "rmmovq" /\ c # ")" => K(i, 4) # "("
                       /\ Name(i).val = "rmmovq" /\ c = "," => K(i, 4) # "V"
    BY <2>1, <2>2, <2>3, <2>4
  <2> QED
    BY <2>5 DEF s
<1>8. ASSUME NEW a, NEW b, NEW c, NEW d, NEW e, e = ")" \/ Name(i).val # "rmmovq"
      PROVE  Fits(i, <<a, b, c, d, e>>) <=>
                 K(i, 1) = a /\ K(i, 2) = b /\ K(i, 3) = c /\ K(i, 4) = d /\ K(i, 5) = e
  <2> DEFINE s == <<a, b, c, d, e>>
  <2>1. Len(s) = 5 /\ DOMAIN s = 1 .. 5 /\ s[1] = a /\ s[2] = b /\ s[3] = c /\ s[4] = d /\ s[5] = e
    BY <1>4
  <2> HIDE DEF s
  <2>2. Fits(i, s) <=>
            /\ \A k \in 1 .. 5 : K(i, k) = s[k]
            /\ Name(i).val = "rmmovq" /\ s[5] # ")" => K(i, 5 + 1) # "("
            /\ Name(i).val = "rmmovq" /\ s[5] = "," => K(i, 5 + 1) # "V"
    BY <1>1, <2>1
  <2>3. (\A k \in 1 .. 5 : K(i, k) = s[k]) <=> (K(i, 1) = s[1] /\ K(i, 2) = s[2] /\ K(i, 3) = s[3] /\ K(i, 4) = s[4] /\ K(i, 5) = s[5])
    OBVIOUS
  <2> QED
    BY <1>8, <2>1, <2>2, <2>3 DEF s
<1>9. ASSUME NEW a, NEW b, NEW c, NEW d, NEW e, NEW f, f = ")" \/ Name(i).val # "rmmovq"
      PROVE  Fits(i, <<a, b, c, d, e, f>>) <=>
                 /\ K(i, 1) = a /\ K(i, 2) = b /\ K(i, 3) = c /\ K(i, 4) = d
                 /\ K(i, 5) = e /\ K(i, 6) = f
  <2> DEFINE s == <<a, b, c, d, e, f>>
  <2>1. Len(s) = 6 /\ DOMAIN s = 1 .. 6 /\ s[1] = a /\ s[2] = b /\ s[3] = c /\ s[4] = d /\ s[5] = e /\ s[6] = f
    BY <1>5
  <2> HIDE DEF s
  <2>2. Fits(i, s) <=>
            /\ \A k \in 1 .. 6 : K(i, k) = s[k]
            /\ Name(i).val = "rmmovq" /\ s[6] # ")" => K(i, 6 + 1) # "("
            /\ Name(i).val = "rmmovq" /\ s[6] = "," => K(i, 6 + 1) # "V"
    BY <1>1, <2>1
  <2>3. (\A k \in 1 .. 6 : K(i, k) = s[k]) <=> (K(i, 1) = s[1] /\ K(i, 2) = s[2] /\ K(i, 3) = s[3] /\ K(i, 4) = s[4] /\ K(i, 5) = s[5] /\ K(i, 6) = s[6])
    OBVIOUS
  <2> QED
    BY <1>9, <2>1, <2>2, <2>3 DEF s
<1> QED
  BY <1>6, <1>7, <1>8, <1>9

\* What a memory instruction says, in its bytes.
LEMMA MoveSays ==
    ASSUME NEW i, Name(i).val \in Memory, NEW d,
           d[0] = find_instr(Name(i).val).code,
           NEW ra \in 0 .. 15, NEW rb \in 0 .. 15,
           d[1] = 16 * ra + rb, RegistersOf(i) = <<ra, rb>>, WordIs(d, 2, Number(i))
    PROVE  Says(i, [k \in 0 .. find_instr(Name(i).val).bytes - 1 |-> d[k]])
<1> DEFINE n == Name(i).val
<1>1. \E ic \in {4, 5} : find_instr(n).code = HPACK(ic, 0) /\ find_instr(n).bytes = 10
  BY OtherRows DEF Row, Memory
<1>2. ~In(n, Allocs)
  BY TableNames DEF Memory
<1> HIDE DEF n
<1>3. PICK ic \in {4, 5} : find_instr(n).code = HPACK(ic, 0) /\ find_instr(n).bytes = 10
  BY <1>1
<1>4. Coded(i, d, ic)
  <2>1. 0 \in 0 .. 15
    OBVIOUS
  <2> QED
    BY <1>3, <2>1 DEF Coded, n
<1>5. ic \in {3, 4, 5, 12}
  OBVIOUS
<1>6. FetchIs(i, [k \in 0 .. 9 |-> d[k]])
  BY <1>4, <1>5, FetchRegistersWord
<1> QED
  BY <1>2, <1>3, <1>6 DEF Says, n

\* The shapes of rmmovq.
LEMMA StoreShapes ==
    ASSUME NEW i, Name(i).val = "rmmovq"
    PROVE  LET s1 == <<"REG", ",">>
               s2 == <<"REG", ",", "V">>
               s3 == <<"REG", ",", "(", "REG", ")">>
               s4 == <<"REG", ",", "V", "(", "REG", ")">>
               start == K(i, 1) = "REG" /\ K(i, 2) = ","
           IN /\ Shapes(Name(i).val) = {s1, s2, s3, s4}
              /\ Fits(i, s1) <=> start /\ K(i, 3) # "V" /\ K(i, 3) # "("
              /\ Fits(i, s2) <=> start /\ K(i, 3) = "V" /\ K(i, 4) # "("
              /\ Fits(i, s3) <=> start /\ K(i, 3) = "(" /\ K(i, 4) = "REG" /\ K(i, 5) = ")"
              /\ Fits(i, s4) <=> /\ start /\ K(i, 3) = "V" /\ K(i, 4) = "("
                                 /\ K(i, 5) = "REG" /\ K(i, 6) = ")"
<1> DEFINE s1 == <<"REG", ",">>
           s2 == <<"REG", ",", "V">>
           s3 == <<"REG", ",", "(", "REG", ")">>
           s4 == <<"REG", ",", "V", "(", "REG", ")">>
           start == K(i, 1) = "REG" /\ K(i, 2) = ","
<1>0. "," # ")" /\ "V" # ")" /\ "V" # ","
  OBVIOUS
<1>1. Shapes(Name(i).val) = {s1, s2, s3, s4}
  <2> DEFINE n == Name(i).val
  <2>1. /\ n = "rmmovq" /\ n # "mrmovq" /\ n \notin {"irmovq", "iaddq", "pushq", "popq", "call"}
        /\ ~In(n, Moves) /\ ~In(n, Alus) /\ ~In(n, Jumps) /\ ~In(n, Allocs)
    BY TableNames
  <2> HIDE DEF n
  <2>2. Shapes(n) = {s1, s2, s3, s4}
    BY <2>1, Zenon DEF Shapes
  <2> QED
    BY <2>2 DEF n
<1>2. Fits(i, s1) <=> start /\ K(i, 3) # "V" /\ K(i, 3) # "("
  BY <1>0, FitsMemory, Zenon
<1>3. Fits(i, s2) <=> start /\ K(i, 3) = "V" /\ K(i, 4) # "("
  <2>1. \A a, b, c :
            Fits(i, <<a, b, c>>) <=> /\ K(i, 1) = a /\ K(i, 2) = b /\ K(i, 3) = c
                                     /\ c # ")" => K(i, 4) # "("
                                     /\ c = "," => K(i, 4) # "V"
    BY FitsMemory
  <2> QED
    BY <1>0, <2>1, Zenon
<1>4. Fits(i, s3) <=> start /\ K(i, 3) = "(" /\ K(i, 4) = "REG" /\ K(i, 5) = ")"
  BY FitsMemory, Zenon
<1>5. Fits(i, s4) <=> start /\ K(i, 3) = "V" /\ K(i, 4) = "(" /\ K(i, 5) = "REG" /\ K(i, 6) = ")"
  <2>1. \A a, b, c, d, e, f : f = ")" \/ Name(i).val # "rmmovq" =>
            (Fits(i, <<a, b, c, d, e, f>>) <=>
                 /\ K(i, 1) = a /\ K(i, 2) = b /\ K(i, 3) = c /\ K(i, 4) = d
                 /\ K(i, 5) = e /\ K(i, 6) = f)
    BY FitsMemory
  <2> QED
    BY <1>0, <2>1, Zenon
<1> HIDE DEF s1, s2, s3, s4
<1> QED
  BY <1>1, <1>2, <1>3, <1>4, <1>5 DEF s1, s2, s3, s4

\* The shapes of mrmovq.
LEMMA LoadShapes ==
    ASSUME NEW i, Name(i).val = "mrmovq"
    PROVE  LET s1 == <<",", "REG">>
               s2 == <<"V", ",", "REG">>
               s3 == <<"(", "REG", ")", ",", "REG">>
               s4 == <<"V", "(", "REG", ")", ",", "REG">>
           IN /\ Shapes(Name(i).val) = {s1, s2, s3, s4}
              /\ Fits(i, s1) <=> K(i, 1) = "," /\ K(i, 2) = "REG"
              /\ Fits(i, s2) <=> K(i, 1) = "V" /\ K(i, 2) = "," /\ K(i, 3) = "REG"
              /\ Fits(i, s3) <=> /\ K(i, 1) = "(" /\ K(i, 2) = "REG" /\ K(i, 3) = ")"
                                 /\ K(i, 4) = "," /\ K(i, 5) = "REG"
              /\ Fits(i, s4) <=> /\ K(i, 1) = "V" /\ K(i, 2) = "(" /\ K(i, 3) = "REG"
                                 /\ K(i, 4) = ")" /\ K(i, 5) = "," /\ K(i, 6) = "REG"
<1> DEFINE s1 == <<",", "REG">>
           s2 == <<"V", ",", "REG">>
           s3 == <<"(", "REG", ")", ",", "REG">>
           s4 == <<"V", "(", "REG", ")", ",", "REG">>
<1>0. Name(i).val # "rmmovq"
  OBVIOUS
<1>1. Shapes(Name(i).val) = {s1, s2, s3, s4}
  <2> DEFINE n == Name(i).val
  <2>1. /\ n = "mrmovq" /\ n # "rmmovq" /\ n \notin {"irmovq", "iaddq", "pushq", "popq", "call"}
        /\ ~In(n, Moves) /\ ~In(n, Alus) /\ ~In(n, Jumps) /\ ~In(n, Allocs)
    BY TableNames
  <2> HIDE DEF n
  <2>2. Shapes(n) = {s1, s2, s3, s4}
    BY <2>1, Zenon DEF Shapes
  <2> QED
    BY <2>2 DEF n
<1>2. Fits(i, s1) <=> K(i, 1) = "," /\ K(i, 2) = "REG"
  BY <1>0, FitsMemory, Zenon
<1>3. Fits(i, s2) <=> K(i, 1) = "V" /\ K(i, 2) = "," /\ K(i, 3) = "REG"
  BY <1>0, FitsPlain, Zenon
<1>4. Fits(i, s3) <=> K(i, 1) = "(" /\ K(i, 2) = "REG" /\ K(i, 3) = ")" /\ K(i, 4) = "," /\ K(i, 5) = "REG"
  BY <1>0, FitsMemory, Zenon
<1>5. Fits(i, s4) <=> /\ K(i, 1) = "V" /\ K(i, 2) = "(" /\ K(i, 3) = "REG"
                      /\ K(i, 4) = ")" /\ K(i, 5) = "," /\ K(i, 6) = "REG"
  <2>1. \A a, b, c, d, e, f : f = ")" \/ Name(i).val # "rmmovq" =>
            (Fits(i, <<a, b, c, d, e, f>>) <=>
                 /\ K(i, 1) = a /\ K(i, 2) = b /\ K(i, 3) = c /\ K(i, 4) = d
                 /\ K(i, 5) = e /\ K(i, 6) = f)
    BY <1>0, FitsMemory
  <2> QED
    BY <1>0, <2>1, Zenon
<1> HIDE DEF s1, s2, s3, s4
<1> QED
  BY <1>1, <1>2, <1>3, <1>4, <1>5 DEF s1, s2, s3, s4

\* The four shapes of a line with a memory operand, one of them its own.
LEMMA OneShape ==
    ASSUME NEW i, Name(i).val \in Memory, NEW s, NEW t, NEW u, NEW w,
           Shapes(Name(i).val) = {s, t, u, w}, Fits(i, s), ~Fits(i, t), ~Fits(i, u), ~Fits(i, w)
    PROVE  Shape(i) = s /\ (GoodStatement(i) <=> Resolved(i, s))
<1>1. Name(i).val \notin {".pos", ".align"} /\ s \in Shapes(Name(i).val)
  BY DEF Memory
<1>2. \A other \in Shapes(Name(i).val) : Fits(i, other) => other = s
  OBVIOUS
<1> QED
  BY <1>1, <1>2, ShapeIs

\* A statement is good only if one of its shapes fits.
LEMMA AnyShape ==
    ASSUME NEW i, Name(i).val \in Memory, NEW s, NEW t, NEW u, NEW w,
           Shapes(Name(i).val) = {s, t, u, w}, ~Fits(i, s), ~Fits(i, t), ~Fits(i, u), ~Fits(i, w)
    PROVE  ~GoodStatement(i)
<1>1. Name(i).val \notin {".pos", ".align"}
  BY DEF Memory
<1> QED
  BY <1>1, NoShape

\* A store or a load encoded as its line says, from the registers and the
\* displacement of the operand.
MoveEncoded(i, e, ra, rb, v) ==
    /\ Done(e) /\ e.code[0] = find_instr(Name(i).val).code
    /\ e.code[1] = 16 * ra + rb /\ WordIs(e.code, 2, v)

\* A memory instruction encoded as it should be says what its line says.
LEMMA RightMove ==
    ASSUME NEW i, Name(i).val \in Memory, NEW symbols, NEW c,
           NEW ra \in 0 .. 15, NEW rb \in 0 .. 15, NEW v,
           RegistersOf(i) = <<ra, rb>>, Number(i) = v, GoodStatement(i),
           MoveEncoded(i, Encode(Toks(i), StatementAt(i), symbols, c), ra, rb, v)
    PROVE  LineRight(i, symbols, c)
<1> DEFINE e == Encode(Toks(i), StatementAt(i), symbols, c)
<1>1. /\ Done(e) /\ e.code[0] = find_instr(Name(i).val).code /\ e.code[1] = 16 * ra + rb
      /\ WordIs(e.code, 2, Number(i))
  BY DEF MoveEncoded
<1> HIDE DEF e
<1>2. Says(i, [k \in 0 .. find_instr(Name(i).val).bytes - 1 |-> e.code[k]])
  BY <1>1, MoveSays
<1> QED
  BY <1>1, <1>2 DEF LineRight, e

\* rmmovq is encoded as it says.
LEMMA RightStore ==
    ASSUME NEW i, Toks(i) \in Seq(Token), Name(i).val = "rmmovq",
           Toks(i)[StatementAt(i)].val = Name(i).val,
           NEW symbols, Linked(i, symbols), NEW c, DOMAIN c = 0 .. 9
    PROVE  LineRight(i, symbols, c)
<1> DEFINE tk == Toks(i)
           p == StatementAt(i)
           q == p + 1 + 1 + 1
           e == Encode(tk, p, symbols, c)
           s1 == <<"REG", ",">>
           s2 == <<"REG", ",", "V">>
           s3 == <<"REG", ",", "(", "REG", ")">>
           s4 == <<"REG", ",", "V", "(", "REG", ")">>
           start == K(i, 1) = "REG" /\ K(i, 2) = ","
           found == Found(Op(i, 3), symbols)
           ra == Rg(tk, p + 1)
           rb == MemReg(tk, q)
           d == Displacement(Op(i, 3), symbols)
<1>1. /\ Op(i, 1) = TokAt(tk, p + 1) /\ Op(i, 2) = TokAt(tk, p + 1 + 1) /\ Op(i, 3) = TokAt(tk, q)
      /\ Op(i, 4) = TokAt(tk, q + 1) /\ Op(i, 5) = TokAt(tk, q + 2) /\ Op(i, 6) = TokAt(tk, q + 3)
  BY OpAt
<1>2. Shapes(Name(i).val) = {s1, s2, s3, s4}
  BY StoreShapes
<1>3. Fits(i, s1) <=> start /\ K(i, 3) # "V" /\ K(i, 3) # "("
  BY StoreShapes
<1>4. Fits(i, s2) <=> start /\ K(i, 3) = "V" /\ K(i, 4) # "("
  BY StoreShapes
<1>5. Fits(i, s3) <=> start /\ K(i, 3) = "(" /\ K(i, 4) = "REG" /\ K(i, 5) = ")"
  BY StoreShapes
<1>6. Fits(i, s4) <=> start /\ K(i, 3) = "V" /\ K(i, 4) = "(" /\ K(i, 5) = "REG" /\ K(i, 6) = ")"
  BY StoreShapes
<1>7. q \in Int
  BY DEF StatementAt
<1>8. Name(i).val \in Memory /\ tk[p].val = "rmmovq"
  BY DEF Memory
<1> HIDE DEF p, q, e, s1, s2, s3, s4, ra, rb, d
<1>9. /\ ~(start /\ MemOk(tk, q, symbols)) => e.ok = FALSE
      /\ start /\ MemOk(tk, q, symbols) =>
             /\ Done(e) /\ e.code[0] = find_instr(Name(i).val).code
             /\ e.code[1] = 16 * ra + rb /\ WordIs(e.code, 2, d)
  <2>1. LET here == Kind(TokAt(tk, p + 1)) = "REG" /\ Kind(TokAt(tk, p + 1 + 1)) = ","
                    /\ MemOk(tk, q, symbols)
        IN /\ ~here => e.ok = FALSE
           /\ here => /\ Done(e) /\ e.code[0] = find_instr(tk[p].val).code
                      /\ e.code[1] = 16 * Rg(tk, p + 1) + MemReg(tk, q)
                      /\ WordIs(e.code, 2, Displacement(TokAt(tk, q), symbols))
    BY <1>8, EncodeStore DEF e, q
  <2> QED
    BY <1>1, <1>8, <2>1 DEF K, ra, rb, d, p
<1>10. start => ra \in 0 .. 15
  BY <1>1, RgRange DEF K, ra
<1>11. /\ Kind(TokAt(tk, q)) = K(i, 3) /\ Kind(TokAt(tk, q + 1)) = K(i, 4)
       /\ Kind(TokAt(tk, q + 2)) = K(i, 5) /\ Kind(TokAt(tk, q + 3)) = K(i, 6)
       /\ TokAt(tk, q) = Op(i, 3)
  BY <1>1 DEF K
<1>12. CASE start /\ K(i, 3) # "V" /\ K(i, 3) # "("
  <2>1. MemOk(tk, q, symbols) /\ rb = 15 /\ d = 0
    BY <1>7, <1>11, <1>12, MemoryParts DEF rb, d
  <2>2. Shape(i) = s1 /\ (GoodStatement(i) <=> Resolved(i, s1))
    <3>1. Shapes(Name(i).val) = {s1, s2, s3, s4}
      BY <1>2
    <3>2. Fits(i, s1) /\ ~Fits(i, s2) /\ ~Fits(i, s3) /\ ~Fits(i, s4)
      BY <1>3, <1>4, <1>5, <1>6, <1>12
    <3> QED
      BY <1>8, <3>1, <3>2, OneShape, Zenon
  <2>3. Places(i, "REG") = {1} /\ Places(i, "V") = {}
    BY <2>2, ShapePlaces DEF AllPlaces, s1
  <2>4. First(Places(i, "REG")) = 1 /\ Last(Places(i, "REG")) = 1
    BY <2>3, FirstLast
  <2>5. RegistersOf(i) = <<ra, rb>>
    BY <1>1, <2>1, <2>4 DEF RegistersOf, Rg, ra, REG_NONE
  <2>6. Number(i) = d
    BY <2>1, <2>3 DEF Number
  <2>7. Resolved(i, s1)
    <3>1. \A k \in DOMAIN s1 : k = 1 \/ k = 2
      BY DEF s1
    <3> QED
      BY <1>12, <3>1, ResolvedNone
  <2>8. 15 \in 0 .. 15
    OBVIOUS
  <2>9. MoveEncoded(i, e, ra, rb, d)
    BY <1>9, <1>12, <2>1 DEF MoveEncoded
  <2>10. GoodStatement(i)
    BY <2>2, <2>7
  <2>11. ra \in 0 .. 15 /\ rb \in 0 .. 15
    BY <1>10, <1>12, <2>1, <2>8
  <2> QED
    BY <1>8, <2>5, <2>6, <2>9, <2>10, <2>11, RightMove, Zenon DEF e, p
<1>13. CASE start /\ K(i, 3) = "V" /\ K(i, 4) # "("
  <2>1. (MemOk(tk, q, symbols) <=> found) /\ rb = 15 /\ d = Value(Op(i, 3), symbols)
    <3>1. Kind(TokAt(tk, q)) = "V" /\ Kind(TokAt(tk, q + 1)) # "("
      BY <1>11, <1>13
    <3>2. /\ MemOk(tk, q, symbols) <=> Found(TokAt(tk, q), symbols)
          /\ MemReg(tk, q) = 15 /\ Displacement(TokAt(tk, q), symbols) = Value(TokAt(tk, q), symbols)
      BY <1>7, <3>1, MemoryParts, Zenon
    <3> QED
      BY <1>11, <3>2 DEF rb, d
  <2>2. Shape(i) = s2 /\ (GoodStatement(i) <=> Resolved(i, s2))
    <3>1. Shapes(Name(i).val) = {s2, s1, s3, s4}
      BY <1>2
    <3>2. Fits(i, s2) /\ ~Fits(i, s1) /\ ~Fits(i, s3) /\ ~Fits(i, s4)
      BY <1>3, <1>4, <1>5, <1>6, <1>13
    <3> QED
      BY <1>8, <3>1, <3>2, OneShape, Zenon
  <2>3. Places(i, "REG") = {1} /\ Places(i, "V") = {3}
    BY <2>2, ShapePlaces DEF AllPlaces, s2
  <2>4. First(Places(i, "REG")) = 1 /\ Last(Places(i, "REG")) = 1
    BY <2>3, FirstLast
  <2>5. RegistersOf(i) = <<ra, rb>>
    BY <1>1, <2>1, <2>4 DEF RegistersOf, Rg, ra, REG_NONE
  <2>6. found => Number(i) = d
    <3>1. 3 \in 1 .. 6
      OBVIOUS
    <3> QED
      BY <1>13, <2>1, <2>3, <3>1, NumberAt
  <2>7. Resolved(i, s2) <=> found
    <3>1. 3 \in DOMAIN s2 /\ 3 \in 1 .. 6 /\ \A k \in DOMAIN s2 : k = 1 \/ k = 2 \/ k = 3
      BY DEF s2
    <3> QED
      BY <1>13, <3>1, ResolvedOne
  <2>8. 15 \in 0 .. 15
    OBVIOUS
  <2>9. CASE ~found
    BY <1>9, <2>1, <2>2, <2>7, <2>9 DEF LineRight, e, p
  <2>10. CASE found
    <3>1. MoveEncoded(i, e, ra, rb, d)
      BY <1>9, <1>13, <2>1, <2>10 DEF MoveEncoded
    <3>2. GoodStatement(i)
      BY <2>2, <2>7, <2>10
    <3>3. ra \in 0 .. 15 /\ rb \in 0 .. 15 /\ Number(i) = d
      BY <1>10, <1>13, <2>1, <2>6, <2>8, <2>10
    <3> QED
      BY <1>8, <2>5, <3>1, <3>2, <3>3, RightMove, Zenon DEF e, p
  <2> QED
    BY <2>9, <2>10
<1>14. CASE start /\ K(i, 3) = "(" /\ K(i, 4) = "REG" /\ K(i, 5) = ")"
  <2>1. MemOk(tk, q, symbols) /\ rb = Rg(tk, q + 1) /\ d = 0
    BY <1>7, <1>11, <1>14, MemoryParts DEF rb, d
  <2>2. Shape(i) = s3 /\ (GoodStatement(i) <=> Resolved(i, s3))
    <3>1. Shapes(Name(i).val) = {s3, s1, s2, s4}
      BY <1>2
    <3>2. Fits(i, s3) /\ ~Fits(i, s1) /\ ~Fits(i, s2) /\ ~Fits(i, s4)
      BY <1>3, <1>4, <1>5, <1>6, <1>14
    <3> QED
      BY <1>8, <3>1, <3>2, OneShape, Zenon
  <2>3. Places(i, "REG") = {1, 4} /\ Places(i, "V") = {}
    BY <2>2, ShapePlaces DEF AllPlaces, s3
  <2>4. First(Places(i, "REG")) = 1 /\ Last(Places(i, "REG")) = 4
    <3>1. First({1, 4}) = 1 /\ Last({1, 4}) = 4
      BY FirstLastPair
    <3> QED
      BY <2>3, <3>1
  <2>5. RegistersOf(i) = <<ra, rb>>
    BY <1>1, <2>1, <2>4 DEF RegistersOf, Rg, ra
  <2>6. Number(i) = d
    BY <2>1, <2>3 DEF Number
  <2>7. Resolved(i, s3)
    <3>1. \A k \in DOMAIN s3 : k \in {1, 2, 3, 4, 5}
      BY DEF s3
    <3> QED
      BY <1>14, <3>1, ResolvedNone
  <2>8. rb \in 0 .. 15
    BY <1>1, <1>14, <2>1, RgRange DEF K
  <2>9. MoveEncoded(i, e, ra, rb, d)
    BY <1>9, <1>14, <2>1 DEF MoveEncoded
  <2>10. GoodStatement(i)
    BY <2>2, <2>7
  <2>11. ra \in 0 .. 15 /\ rb \in 0 .. 15
    BY <1>10, <1>14, <2>1, <2>8
  <2> QED
    BY <1>8, <2>5, <2>6, <2>9, <2>10, <2>11, RightMove, Zenon DEF e, p
<1>15. CASE start /\ K(i, 3) = "V" /\ K(i, 4) = "(" /\ K(i, 5) = "REG" /\ K(i, 6) = ")"
  <2>1. (MemOk(tk, q, symbols) <=> found) /\ rb = Rg(tk, q + 2) /\ d = Value(Op(i, 3), symbols)
    BY <1>7, <1>11, <1>15, MemoryParts DEF rb, d
  <2>2. Shape(i) = s4 /\ (GoodStatement(i) <=> Resolved(i, s4))
    <3>1. Shapes(Name(i).val) = {s4, s1, s2, s3}
      BY <1>2
    <3>2. Fits(i, s4) /\ ~Fits(i, s1) /\ ~Fits(i, s2) /\ ~Fits(i, s3)
      BY <1>3, <1>4, <1>5, <1>6, <1>15
    <3> QED
      BY <1>8, <3>1, <3>2, OneShape, Zenon
  <2>3. Places(i, "REG") = {1, 5} /\ Places(i, "V") = {3}
    BY <2>2, ShapePlaces DEF AllPlaces, s4
  <2>4. First(Places(i, "REG")) = 1 /\ Last(Places(i, "REG")) = 5
    <3>1. First({1, 5}) = 1 /\ Last({1, 5}) = 5
      BY FirstLastPair
    <3> QED
      BY <2>3, <3>1
  <2>5. RegistersOf(i) = <<ra, rb>>
    BY <1>1, <2>1, <2>4 DEF RegistersOf, Rg, ra
  <2>6. found => Number(i) = d
    <3>1. 3 \in 1 .. 6
      OBVIOUS
    <3> QED
      BY <1>15, <2>1, <2>3, <3>1, NumberAt
  <2>7. Resolved(i, s4) <=> found
    <3>1. 3 \in DOMAIN s4 /\ 3 \in 1 .. 6 /\ \A k \in DOMAIN s4 : k \in {1, 2, 3, 4, 5, 6}
      BY DEF s4
    <3>2. \A k \in DOMAIN s4 : k = 3 \/ K(i, k) # "V"
      BY <1>15, <3>1
    <3> QED
      BY <3>1, <3>2, ResolvedOne
  <2>8. rb \in 0 .. 15
    BY <1>1, <1>15, <2>1, RgRange DEF K
  <2>9. CASE ~found
    BY <1>9, <2>1, <2>2, <2>7, <2>9 DEF LineRight, e, p
  <2>10. CASE found
    <3>1. MoveEncoded(i, e, ra, rb, d)
      BY <1>9, <1>15, <2>1, <2>10 DEF MoveEncoded
    <3>2. GoodStatement(i)
      BY <2>2, <2>7, <2>10
    <3>3. ra \in 0 .. 15 /\ rb \in 0 .. 15 /\ Number(i) = d
      BY <1>10, <1>15, <2>1, <2>6, <2>8, <2>10
    <3> QED
      BY <1>8, <2>5, <3>1, <3>2, <3>3, RightMove, Zenon DEF e, p
  <2> QED
    BY <2>9, <2>10
<1>16. CASE ~Fits(i, s1) /\ ~Fits(i, s2) /\ ~Fits(i, s3) /\ ~Fits(i, s4)
  <2>1. ~GoodStatement(i)
    BY <1>2, <1>8, <1>16, AnyShape
  <2>2. ~(start /\ MemOk(tk, q, symbols))
    BY <1>3, <1>4, <1>5, <1>6, <1>7, <1>11, <1>16, MemoryParts
  <2> QED
    BY <1>9, <2>1, <2>2 DEF LineRight, e, p
<1> QED
  BY <1>3, <1>4, <1>5, <1>6, <1>12, <1>13, <1>14, <1>15, <1>16

\* mrmovq is encoded as it says.
LEMMA RightLoad ==
    ASSUME NEW i, Toks(i) \in Seq(Token), Name(i).val = "mrmovq",
           Toks(i)[StatementAt(i)].val = Name(i).val,
           NEW symbols, Linked(i, symbols), NEW c, DOMAIN c = 0 .. 9
    PROVE  LineRight(i, symbols, c)
<1> DEFINE tk == Toks(i)
           p == StatementAt(i)
           q == p + 1
           n1 == MemEnd(tk, q)
           n2 == n1 + 1
           e == Encode(tk, p, symbols, c)
           s1 == <<",", "REG">>
           s2 == <<"V", ",", "REG">>
           s3 == <<"(", "REG", ")", ",", "REG">>
           s4 == <<"V", "(", "REG", ")", ",", "REG">>
           found == Found(Op(i, 1), symbols)
           ra == Rg(tk, n2)
           rb == MemReg(tk, q)
           d == Displacement(Op(i, 1), symbols)
           ends == Kind(TokAt(tk, n1)) = "," /\ Kind(TokAt(tk, n2)) = "REG"
<1>1. /\ Op(i, 1) = TokAt(tk, q) /\ Op(i, 2) = TokAt(tk, q + 1) /\ Op(i, 3) = TokAt(tk, q + 2)
      /\ Op(i, 4) = TokAt(tk, q + 3) /\ Op(i, 5) = TokAt(tk, q + 4) /\ Op(i, 6) = TokAt(tk, q + 5)
  BY OpAt
<1>2. Shapes(Name(i).val) = {s1, s2, s3, s4}
  BY LoadShapes
<1>3. Fits(i, s1) <=> K(i, 1) = "," /\ K(i, 2) = "REG"
  BY LoadShapes
<1>4. Fits(i, s2) <=> K(i, 1) = "V" /\ K(i, 2) = "," /\ K(i, 3) = "REG"
  BY LoadShapes
<1>5. Fits(i, s3) <=> /\ K(i, 1) = "(" /\ K(i, 2) = "REG" /\ K(i, 3) = ")"
                      /\ K(i, 4) = "," /\ K(i, 5) = "REG"
  BY LoadShapes
<1>6. Fits(i, s4) <=> /\ K(i, 1) = "V" /\ K(i, 2) = "(" /\ K(i, 3) = "REG"
                      /\ K(i, 4) = ")" /\ K(i, 5) = "," /\ K(i, 6) = "REG"
  BY LoadShapes
<1>7. q \in Int
  BY DEF StatementAt
<1>8. Name(i).val \in Memory /\ tk[p].val = "mrmovq"
  BY DEF Memory
<1> HIDE DEF p, q, n1, n2, e, s1, s2, s3, s4, ra, rb, d, ends
<1>9. /\ ~(MemOk(tk, q, symbols) /\ ends) => e.ok = FALSE
      /\ MemOk(tk, q, symbols) /\ ends => MoveEncoded(i, e, ra, rb, d)
  <2>1. LET here == /\ MemOk(tk, p + 1, symbols) /\ Kind(TokAt(tk, MemEnd(tk, p + 1))) = ","
                    /\ Kind(TokAt(tk, MemEnd(tk, p + 1) + 1)) = "REG"
        IN /\ ~here => e.ok = FALSE
           /\ here => /\ Done(e) /\ e.code[0] = find_instr(tk[p].val).code
                      /\ e.code[1] = 16 * Rg(tk, MemEnd(tk, p + 1) + 1) + MemReg(tk, p + 1)
                      /\ WordIs(e.code, 2, Displacement(TokAt(tk, p + 1), symbols))
    BY <1>8, EncodeLoad DEF e
  <2>2. find_instr(tk[p].val) = find_instr(Name(i).val)
    BY <1>8
  <2> QED
    BY <1>1, <2>1, <2>2 DEF MoveEncoded, ra, rb, d, q, n1, n2, ends
<1>10. ends => ra \in 0 .. 15
  BY RgRange DEF ra, ends
<1>11. /\ Kind(TokAt(tk, q)) = K(i, 1) /\ Kind(TokAt(tk, q + 1)) = K(i, 2)
       /\ Kind(TokAt(tk, q + 2)) = K(i, 3) /\ Kind(TokAt(tk, q + 3)) = K(i, 4)
       /\ Kind(TokAt(tk, q + 4)) = K(i, 5) /\ Kind(TokAt(tk, q + 5)) = K(i, 6)
       /\ TokAt(tk, q) = Op(i, 1)
  BY <1>1 DEF K
\* The four ways the memory operand can be written.
<1>12. K(i, 1) # "V" /\ K(i, 1) # "(" =>
           /\ MemOk(tk, q, symbols) /\ rb = 15 /\ d = 0 /\ ra = Rg(tk, q + 1)
           /\ ends <=> K(i, 1) = "," /\ K(i, 2) = "REG"
  <2> HAVE K(i, 1) # "V" /\ K(i, 1) # "("
  <2>1. /\ MemOk(tk, q, symbols) /\ MemEnd(tk, q) = q
        /\ MemReg(tk, q) = 15 /\ Displacement(TokAt(tk, q), symbols) = 0
    BY <1>7, <1>11, MemoryParts, Zenon
  <2>2. n1 = q /\ n2 = q + 1
    BY <2>1 DEF n1, n2
  <2> QED
    BY <1>11, <2>1, <2>2 DEF ra, rb, d, ends
<1>13. K(i, 1) = "V" /\ K(i, 2) # "(" =>
           /\ MemOk(tk, q, symbols) <=> found
           /\ rb = 15 /\ d = Value(Op(i, 1), symbols) /\ ra = Rg(tk, q + 2)
           /\ ends <=> K(i, 2) = "," /\ K(i, 3) = "REG"
  <2> HAVE K(i, 1) = "V" /\ K(i, 2) # "("
  <2>1. /\ MemOk(tk, q, symbols) <=> Found(TokAt(tk, q), symbols)
        /\ MemEnd(tk, q) = q + 1 /\ MemReg(tk, q) = 15
        /\ Displacement(TokAt(tk, q), symbols) = Value(TokAt(tk, q), symbols)
    BY <1>7, <1>11, MemoryParts, Zenon
  <2>2. n1 = q + 1 /\ n2 = q + 2
    BY <1>7, <2>1 DEF n1, n2
  <2> QED
    BY <1>11, <2>1, <2>2 DEF ra, rb, d, ends
<1>14. K(i, 1) = "(" =>
           /\ MemOk(tk, q, symbols) <=> K(i, 2) = "REG" /\ K(i, 3) = ")"
           /\ rb = Rg(tk, q + 1) /\ d = 0 /\ ra = Rg(tk, q + 4)
           /\ ends <=> K(i, 4) = "," /\ K(i, 5) = "REG"
  <2> HAVE K(i, 1) = "("
  <2>1. /\ MemOk(tk, q, symbols) <=>
               Kind(TokAt(tk, q + 1)) = "REG" /\ Kind(TokAt(tk, q + 2)) = ")"
        /\ MemEnd(tk, q) = q + 3 /\ MemReg(tk, q) = Rg(tk, q + 1)
        /\ Displacement(TokAt(tk, q), symbols) = 0
    BY <1>7, <1>11, MemoryParts, Zenon
  <2>2. n1 = q + 3 /\ n2 = q + 4
    BY <1>7, <2>1 DEF n1, n2
  <2> QED
    BY <1>11, <2>1, <2>2 DEF ra, rb, d, ends
<1>15. K(i, 1) = "V" /\ K(i, 2) = "(" =>
           /\ MemOk(tk, q, symbols) <=> K(i, 3) = "REG" /\ K(i, 4) = ")" /\ found
           /\ rb = Rg(tk, q + 2) /\ d = Value(Op(i, 1), symbols) /\ ra = Rg(tk, q + 5)
           /\ ends <=> K(i, 5) = "," /\ K(i, 6) = "REG"
  <2> HAVE K(i, 1) = "V" /\ K(i, 2) = "("
  <2>1. /\ MemOk(tk, q, symbols) <=>
               /\ Kind(TokAt(tk, q + 2)) = "REG" /\ Kind(TokAt(tk, q + 3)) = ")"
               /\ Found(TokAt(tk, q), symbols)
        /\ MemEnd(tk, q) = q + 4 /\ MemReg(tk, q) = Rg(tk, q + 2)
        /\ Displacement(TokAt(tk, q), symbols) = Value(TokAt(tk, q), symbols)
    BY <1>7, <1>11, MemoryParts, Zenon
  <2>2. n1 = q + 4 /\ n2 = q + 5
    BY <1>7, <2>1 DEF n1, n2
  <2> QED
    BY <1>11, <2>1, <2>2 DEF ra, rb, d, ends
<1>16. CASE Fits(i, s1)
  <2>1. ends /\ (MemOk(tk, q, symbols) <=> TRUE)
    BY <1>3, <1>4, <1>5, <1>6, <1>12, <1>16
  <2>2. Shape(i) = s1 /\ (GoodStatement(i) <=> Resolved(i, s1))
    <3>1. Shapes(Name(i).val) = {s1, s2, s3, s4}
      BY <1>2
    <3>2. Fits(i, s1) /\ ~Fits(i, s2) /\ ~Fits(i, s3) /\ ~Fits(i, s4)
      BY <1>3, <1>4, <1>5, <1>6, <1>16
    <3> QED
      BY <1>8, <3>1, <3>2, OneShape, Zenon
  <2>3. Places(i, "REG") = {2} /\ Places(i, "V") = {}
    BY <2>2, ShapePlaces DEF AllPlaces, s1
  <2>4. First(Places(i, "REG")) = 2 /\ Last(Places(i, "REG")) = 2
    BY <2>3, FirstLast
  <2>5. RegistersOf(i) = <<ra, rb>>
    BY <1>1, <1>3, <1>4, <1>5, <1>6, <1>12, <1>16, <2>4 DEF RegistersOf, Rg, REG_NONE
  <2>6. Number(i) = d
    BY <1>3, <1>5, <1>12, <1>16, <2>3 DEF Number
  <2>7. Resolved(i, s1)
    <3>1. \A k \in DOMAIN s1 : k \in {1, 2}
      BY DEF s1
    <3>2. \A k \in DOMAIN s1 : K(i, k) # "V"
      BY <1>3, <1>5, <1>16, <3>1
    <3> QED
      BY <3>2, ResolvedNone
  <2>8. rb \in 0 .. 15
    <3>1. rb = 15
      BY <1>3, <1>4, <1>12, <1>16
    <3> QED
      BY <3>1
  <2>9. MoveEncoded(i, e, ra, rb, d)
    BY <1>9, <2>1
  <2>10. GoodStatement(i)
    BY <2>2, <2>7
  <2>11. ra \in 0 .. 15 /\ rb \in 0 .. 15
    BY <1>10, <2>1, <2>8
  <2> QED
    BY <1>8, <2>5, <2>6, <2>9, <2>10, <2>11, RightMove, Zenon DEF e, p
<1>17. CASE Fits(i, s2)
  <2>1. ends /\ (MemOk(tk, q, symbols) <=> found)
    BY <1>3, <1>4, <1>5, <1>6, <1>13, <1>17
  <2>2. Shape(i) = s2 /\ (GoodStatement(i) <=> Resolved(i, s2))
    <3>1. Shapes(Name(i).val) = {s2, s1, s3, s4}
      BY <1>2
    <3>2. Fits(i, s2) /\ ~Fits(i, s1) /\ ~Fits(i, s3) /\ ~Fits(i, s4)
      BY <1>3, <1>4, <1>5, <1>6, <1>17
    <3> QED
      BY <1>8, <3>1, <3>2, OneShape, Zenon
  <2>3. Places(i, "REG") = {3} /\ Places(i, "V") = {1}
    BY <2>2, ShapePlaces DEF AllPlaces, s2
  <2>4. First(Places(i, "REG")) = 3 /\ Last(Places(i, "REG")) = 3
    BY <2>3, FirstLast
  <2>5. RegistersOf(i) = <<ra, rb>>
    BY <1>1, <1>3, <1>4, <1>5, <1>6, <1>13, <1>17, <2>4 DEF RegistersOf, Rg, REG_NONE
  <2>6. found => Number(i) = d
    <3>1. 1 \in 1 .. 6
      OBVIOUS
    <3>0. K(i, 1) = "V"
      BY <1>4, <1>6, <1>17
    <3>2. found => Number(i) = Value(Op(i, 1), symbols)
      BY <2>3, <3>0, <3>1, NumberAt
    <3> QED
      BY <1>4, <1>6, <1>13, <1>17, <3>2
  <2>7. Resolved(i, s2) <=> found
    <3>1. 1 \in DOMAIN s2 /\ 1 \in 1 .. 6 /\ \A k \in DOMAIN s2 : k \in {1, 2, 3}
      BY DEF s2
    <3>2. \A k \in DOMAIN s2 : k = 1 \/ K(i, k) # "V"
      BY <1>4, <1>6, <1>17, <3>1
    <3> QED
      BY <3>1, <3>2, ResolvedOne
  <2>8. rb \in 0 .. 15
    <3>1. rb = 15
      BY <1>3, <1>4, <1>13, <1>17
    <3> QED
      BY <3>1
  <2>9. CASE ~found
    BY <1>9, <2>1, <2>2, <2>7, <2>9 DEF LineRight, e, p
  <2>10. CASE found
    <3>1. MoveEncoded(i, e, ra, rb, d)
      BY <1>9, <2>1, <2>10
    <3>2. GoodStatement(i)
      BY <2>2, <2>7, <2>10
    <3>3. ra \in 0 .. 15 /\ rb \in 0 .. 15 /\ Number(i) = d
      BY <1>10, <2>1, <2>6, <2>8, <2>10
    <3> QED
      BY <1>8, <2>5, <3>1, <3>2, <3>3, RightMove, Zenon DEF e, p
  <2> QED
    BY <2>9, <2>10
<1>18. CASE Fits(i, s3)
  <2>1. ends /\ (MemOk(tk, q, symbols) <=> TRUE)
    BY <1>3, <1>4, <1>5, <1>6, <1>14, <1>18
  <2>2. Shape(i) = s3 /\ (GoodStatement(i) <=> Resolved(i, s3))
    <3>1. Shapes(Name(i).val) = {s3, s1, s2, s4}
      BY <1>2
    <3>2. Fits(i, s3) /\ ~Fits(i, s1) /\ ~Fits(i, s2) /\ ~Fits(i, s4)
      BY <1>3, <1>4, <1>5, <1>6, <1>18
    <3> QED
      BY <1>8, <3>1, <3>2, OneShape, Zenon
  <2>3. Places(i, "REG") = {2, 5} /\ Places(i, "V") = {}
    BY <2>2, ShapePlaces DEF AllPlaces, s3
  <2>4. First(Places(i, "REG")) = 2 /\ Last(Places(i, "REG")) = 5
    <3>1. First({2, 5}) = 2 /\ Last({2, 5}) = 5
      BY FirstLastPair
    <3> QED
      BY <2>3, <3>1
  <2>5. RegistersOf(i) = <<ra, rb>>
    <3>1. ra = Rg(tk, q + 4) /\ rb = Rg(tk, q + 1)
      BY <1>5, <1>6, <1>14, <1>18
    <3>2. RegistersOf(i) = <<find_register(Op(i, 5).val), find_register(Op(i, 2).val)>>
      BY <2>4 DEF RegistersOf
    <3> QED
      BY <1>1, <3>1, <3>2 DEF Rg
  <2>6. Number(i) = d
    BY <1>3, <1>5, <1>14, <1>18, <2>3 DEF Number
  <2>7. Resolved(i, s3)
    <3>1. \A k \in DOMAIN s3 : k \in {1, 2, 3, 4, 5}
      BY DEF s3
    <3>2. \A k \in DOMAIN s3 : K(i, k) # "V"
      BY <1>3, <1>5, <1>18, <3>1
    <3> QED
      BY <3>2, ResolvedNone
  <2>8. rb \in 0 .. 15
    <3>1. rb = Rg(tk, q + 1) /\ Kind(TokAt(tk, q + 1)) = "REG"
      BY <1>5, <1>6, <1>11, <1>14, <1>18
    <3> QED
      BY <3>1, RgRange
  <2>9. MoveEncoded(i, e, ra, rb, d)
    BY <1>9, <2>1
  <2>10. GoodStatement(i)
    BY <2>2, <2>7
  <2>11. ra \in 0 .. 15 /\ rb \in 0 .. 15
    BY <1>10, <2>1, <2>8
  <2> QED
    BY <1>8, <2>5, <2>6, <2>9, <2>10, <2>11, RightMove, Zenon DEF e, p
<1>19. CASE Fits(i, s4)
  <2>1. ends /\ (MemOk(tk, q, symbols) <=> found)
    BY <1>3, <1>4, <1>5, <1>6, <1>15, <1>19
  <2>2. Shape(i) = s4 /\ (GoodStatement(i) <=> Resolved(i, s4))
    <3>1. Shapes(Name(i).val) = {s4, s1, s2, s3}
      BY <1>2
    <3>2. Fits(i, s4) /\ ~Fits(i, s1) /\ ~Fits(i, s2) /\ ~Fits(i, s3)
      BY <1>3, <1>4, <1>5, <1>6, <1>19
    <3> QED
      BY <1>8, <3>1, <3>2, OneShape, Zenon
  <2>3. Places(i, "REG") = {3, 6} /\ Places(i, "V") = {1}
    BY <2>2, ShapePlaces DEF AllPlaces, s4
  <2>4. First(Places(i, "REG")) = 3 /\ Last(Places(i, "REG")) = 6
    <3>1. First({3, 6}) = 3 /\ Last({3, 6}) = 6
      BY FirstLastPair
    <3> QED
      BY <2>3, <3>1
  <2>5. RegistersOf(i) = <<ra, rb>>
    <3>1. ra = Rg(tk, q + 5) /\ rb = Rg(tk, q + 2)
      BY <1>5, <1>6, <1>15, <1>19
    <3>2. RegistersOf(i) = <<find_register(Op(i, 6).val), find_register(Op(i, 3).val)>>
      BY <2>4 DEF RegistersOf
    <3> QED
      BY <1>1, <3>1, <3>2 DEF Rg
  <2>6. found => Number(i) = d
    <3>1. 1 \in 1 .. 6
      OBVIOUS
    <3>0. K(i, 1) = "V"
      BY <1>4, <1>6, <1>19
    <3>2. found => Number(i) = Value(Op(i, 1), symbols)
      BY <2>3, <3>0, <3>1, NumberAt
    <3> QED
      BY <1>4, <1>6, <1>15, <1>19, <3>2
  <2>7. Resolved(i, s4) <=> found
    <3>1. 1 \in DOMAIN s4 /\ 1 \in 1 .. 6 /\ \A k \in DOMAIN s4 : k \in {1, 2, 3, 4, 5, 6}
      BY DEF s4
    <3>2. \A k \in DOMAIN s4 : k = 1 \/ K(i, k) # "V"
      BY <1>4, <1>6, <1>19, <3>1
    <3> QED
      BY <3>1, <3>2, ResolvedOne
  <2>8. rb \in 0 .. 15
    <3>1. rb = Rg(tk, q + 2) /\ Kind(TokAt(tk, q + 2)) = "REG"
      BY <1>5, <1>6, <1>11, <1>15, <1>19
    <3> QED
      BY <3>1, RgRange
  <2>9. CASE ~found
    BY <1>9, <2>1, <2>2, <2>7, <2>9 DEF LineRight, e, p
  <2>10. CASE found
    <3>1. MoveEncoded(i, e, ra, rb, d)
      BY <1>9, <2>1, <2>10
    <3>2. GoodStatement(i)
      BY <2>2, <2>7, <2>10
    <3>3. ra \in 0 .. 15 /\ rb \in 0 .. 15 /\ Number(i) = d
      BY <1>10, <2>1, <2>6, <2>8, <2>10
    <3> QED
      BY <1>8, <2>5, <3>1, <3>2, <3>3, RightMove, Zenon DEF e, p
  <2> QED
    BY <2>9, <2>10
<1>20. CASE ~Fits(i, s1) /\ ~Fits(i, s2) /\ ~Fits(i, s3) /\ ~Fits(i, s4)
  <2>1. ~GoodStatement(i)
    BY <1>2, <1>8, <1>20, AnyShape, Zenon
  <2>2. ~(MemOk(tk, q, symbols) /\ ends)
    <3>1. CASE K(i, 1) # "V" /\ K(i, 1) # "("
      BY <1>3, <1>12, <1>20, <3>1
    <3>2. CASE K(i, 1) = "V" /\ K(i, 2) # "("
      BY <1>4, <1>13, <1>20, <3>2
    <3>3. CASE K(i, 1) = "("
      BY <1>5, <1>14, <1>20, <3>3
    <3>4. CASE K(i, 1) = "V" /\ K(i, 2) = "("
      BY <1>6, <1>15, <1>20, <3>4
    <3> QED
      BY <3>1, <3>2, <3>3, <3>4
  <2> QED
    BY <1>9, <2>1, <2>2 DEF LineRight, e, p
<1> QED
  BY <1>16, <1>17, <1>18, <1>19, <1>20

\* yas.c 195-291 and 393-449: pass 2 encodes each line of code as the line says,
\* as step_state reads it (isa.c 644-674, 683-935), and fails on the others.
THEOREM LineEncodes ==
    ASSUME NEW i, Toks(i) \in Seq(Token), Name(i).type = "INSTR",
           Name(i).val \notin {".pos", ".align"},
           NEW symbols, Linked(i, symbols), NEW c, DOMAIN c = 0 .. 9
    PROVE  LineRight(i, symbols, c)
<1> DEFINE n == Name(i).val
<1>1. Name(i) # TOK_ERR
  <2>1. TOK_ERR.type = "ERR"
    BY DEF TOK_ERR, Tok
  <2> QED
    BY <2>1
<1>2. n \in Instr /\ Toks(i)[StatementAt(i)].val = n
  <2>1. StatementAt(i) \in 1 .. Len(Toks(i))
    BY <1>1, Kinds DEF Name
  <2>2. Toks(i)[StatementAt(i)] = Name(i)
    BY <2>1 DEF Name, TokAt
  <2>3. Name(i).val \in Instr
    BY Kinds DEF Name
  <2> QED
    BY <2>2, <2>3
<1>3. n \in Operates \/ n \in Immediates \/ n = "rmmovq" \/ n = "mrmovq"
      \/ n \in Transfers \/ In(n, Allocs) \/ n \in Stacks \/ n \in Lone
  BY <1>2, Classes
<1>4. In(n, Allocs) => n \in Named(Allocs)
  BY DEF In, Named
<1> HIDE DEF n
<1>5. CASE n \in Operates
  BY <1>2, <1>5, RightOperates DEF Written, n
<1>6. CASE n \in Immediates
  BY <1>2, <1>6, RightImmediate DEF Written, n
<1>7. CASE n = "rmmovq"
  BY <1>2, <1>7, RightStore DEF n
<1>8. CASE n = "mrmovq"
  BY <1>2, <1>8, RightLoad DEF n
<1>9. CASE n \in Transfers \/ In(n, Allocs)
  BY <1>2, <1>4, <1>9, RightNumber DEF Written, n
<1>10. CASE n \in Stacks
  BY <1>2, <1>10, RightStack DEF Written, n
<1>11. CASE n \in Lone
  BY <1>2, <1>11, RightLone DEF Written, n
<1> QED
  BY <1>3, <1>5, <1>6, <1>7, <1>8, <1>9, <1>10, <1>11

-----------------------------------------------------------------------------
(* The symbol table.                                                       *)

\* The least member of a set.
Least(f, S) == f \in S /\ \A g \in S : f <= g

\* The least member is the one that First finds.
LEMMA LeastFirst ==
    ASSUME NEW S, S \subseteq Int, NEW f, Least(f, S)
    PROVE  S # {} /\ First(S) = f
<1>1. f \in S /\ f \in Int
  BY DEF Least
<1>2. ASSUME NEW k \in S, \A j \in S : k <= j PROVE k = f
  <2>1. k <= f /\ f <= k /\ k \in Int
    BY <1>1, <1>2 DEF Least
  <2> QED
    BY <1>1, <2>1
<1>3. First(S) \in S /\ \A j \in S : First(S) <= j
  BY DEF First, Least
<1> QED
  BY <1>1, <1>2, <1>3

\* A label is in the table if it is in the lines, and with the address of the
\* first of them.
Placed(labels, symbols, name, at) ==
    \/ labels = {} /\ Defines(symbols, name) = {}
    \/ \E f, d : Least(f, labels) /\ Least(d, Defines(symbols, name)) /\ symbols[d].pos = at[f]

\* An entry of the symbol table.
Symbol == [name : STRING, pos : Int]

\* Addresses of other lines do not matter.
LEMMA PlacedSame ==
    ASSUME NEW labels, NEW symbols, NEW name, NEW at, NEW at2,
           Placed(labels, symbols, name, at), \A j \in labels : at2[j] = at[j]
    PROVE  Placed(labels, symbols, name, at2)
  BY DEF Placed, Least

\* The definitions of a name after one more entry.
LEMMA AppendedAt ==
    ASSUME NEW symbols \in Seq(Symbol), NEW s \in Symbol, NEW name
    PROVE  /\ s.name # name => Defines(Append(symbols, s), name) = Defines(symbols, name)
           /\ s.name = name => Defines(Append(symbols, s), name) = Defines(symbols, name) \cup {Len(symbols) + 1}
           /\ Defines(symbols, name) \subseteq 1 .. Len(symbols)
           /\ \A i \in 1 .. Len(symbols) : Append(symbols, s)[i] = symbols[i]
           /\ Append(symbols, s)[Len(symbols) + 1] = s
           /\ Len(symbols) \in Nat
<1> HIDE DEF Symbol
<1>1. /\ DOMAIN Append(symbols, s) = 1 .. Len(symbols) + 1 /\ DOMAIN symbols = 1 .. Len(symbols)
      /\ Len(symbols) \in Nat
  OBVIOUS
<1>2. \A i \in 1 .. Len(symbols) : Append(symbols, s)[i] = symbols[i]
  OBVIOUS
<1>3. Append(symbols, s)[Len(symbols) + 1] = s
  OBVIOUS
<1> DEFINE a == Append(symbols, s)
           l == Len(symbols)
<1>4. Defines(a, name) = {i \in 1 .. l + 1 : a[i].name = name}
  BY <1>1 DEF Defines
<1>5. Defines(symbols, name) = {i \in 1 .. l : symbols[i].name = name}
  BY <1>1 DEF Defines
<1>6. l \in Nat /\ (\A i \in 1 .. l : a[i] = symbols[i]) /\ a[l + 1] = s
  BY <1>1, <1>2, <1>3
<1> HIDE DEF a, l
<1>7. /\ s.name # name => Defines(a, name) = Defines(symbols, name)
      /\ s.name = name => Defines(a, name) = Defines(symbols, name) \cup {l + 1}
      /\ Defines(symbols, name) \subseteq 1 .. l
  BY <1>4, <1>5, <1>6
<1> QED
  BY <1>6, <1>7 DEF a, l

\* A label added for the next line keeps the table and the lines together.
LEMMA PlacedAppend ==
    ASSUME NEW symbols \in Seq(Symbol), NEW s \in Symbol, NEW name, NEW n \in Nat,
           NEW labels, labels \subseteq 1 .. n - 1, NEW at, Placed(labels, symbols, name, at),
           s.pos = at[n]
    PROVE  /\ s.name = name => Placed(labels \cup {n}, Append(symbols, s), name, at)
           /\ s.name # name => Placed(labels, Append(symbols, s), name, at)
<1> DEFINE a == Append(symbols, s)
           l == Len(symbols)
           D == Defines(symbols, name)
<1>1. /\ s.name # name => Defines(a, name) = D
      /\ s.name = name => Defines(a, name) = D \cup {l + 1}
      /\ D \subseteq 1 .. l /\ (\A i \in 1 .. l : a[i] = symbols[i]) /\ a[l + 1] = s /\ l \in Nat
  BY AppendedAt
<1>2. (labels = {} /\ D = {}) \/ \E f, d : Least(f, labels) /\ Least(d, D) /\ symbols[d].pos = at[f]
  BY DEF Placed
<1> SUFFICES /\ s.name = name => Placed(labels \cup {n}, a, name, at)
             /\ s.name # name => Placed(labels, a, name, at)
  OBVIOUS
<1> HIDE DEF a, l, D
<1>3. ASSUME NEW ls, NEW f, NEW d, Least(f, ls), Least(d, Defines(a, name)), a[d].pos = at[f]
      PROVE  Placed(ls, a, name, at)
  BY <1>3 DEF Placed
<1>4. CASE s.name = name /\ labels = {} /\ D = {}
  <2>1. Least(n, {n}) /\ Least(l + 1, {l + 1}) /\ labels \cup {n} = {n} /\ Defines(a, name) = {l + 1}
    BY <1>1, <1>4 DEF Least
  <2>2. a[l + 1].pos = at[n]
    BY <1>1
  <2> QED
    BY <1>3, <1>4, <2>1, <2>2
<1>5. CASE s.name # name /\ labels = {} /\ D = {}
  <2>1. Defines(a, name) = {}
    BY <1>1, <1>5
  <2> QED
    BY <1>5, <2>1 DEF Placed
<1>6. CASE \E f, d : Least(f, labels) /\ Least(d, D) /\ symbols[d].pos = at[f]
  <2>1. PICK f, d : Least(f, labels) /\ Least(d, D) /\ symbols[d].pos = at[f]
    BY <1>6
  <2>2. d \in 1 .. l /\ a[d].pos = at[f]
    BY <1>1, <2>1 DEF Least
  <2>3. Least(f, labels \cup {n}) /\ Least(d, D \cup {l + 1})
    BY <1>1, <2>1 DEF Least
  <2>4. CASE s.name = name
    <3>1. Defines(a, name) = D \cup {l + 1}
      BY <1>1, <2>4
    <3> QED
      BY <1>3, <2>2, <2>3, <2>4, <3>1
  <2>5. CASE s.name # name
    <3>1. Defines(a, name) = D
      BY <1>1, <2>5
    <3> QED
      BY <1>3, <2>1, <2>2, <2>5, <3>1
  <2> QED
    BY <2>4, <2>5
<1> QED
  BY <1>2, <1>4, <1>5, <1>6

\* The sizes in the table.
LEMMA Bytes ==
    ASSUME NEW n \in Instr, n \notin {".pos", ".align"}
    PROVE  find_instr(n).bytes \in 1 .. 10
<1>1. ASSUME NEW c, NEW b \in 1 .. 10, NEW a1, NEW a2, find_instr(n) = Row(c, b, a1, a2)
      PROVE  find_instr(n).bytes \in 1 .. 10
  BY <1>1 DEF Row
<1>2. n \in Operates \/ n \in Immediates \/ n = "rmmovq" \/ n = "mrmovq"
      \/ n \in Transfers \/ In(n, Allocs) \/ n \in Stacks \/ n \in Lone
  BY Classes
<1>3. 1 \in 1 .. 10 /\ 2 \in 1 .. 10 /\ 9 \in 1 .. 10 /\ 10 \in 1 .. 10 /\ \A b \in 1 .. 8 : b \in 1 .. 10
  OBVIOUS
<1>4. n \in Operates => find_instr(n).bytes \in 1 .. 10
  BY <1>1, <1>3, OperatesRow, Zenon
<1>5. n \in Transfers => find_instr(n).bytes \in 1 .. 10
  BY <1>1, <1>3, TransfersRow, Zenon
<1>6. n \in Immediates => find_instr(n).bytes \in 1 .. 10
  <2>1. n \in Immediates => \E c \in {3, 12} : find_instr(n) = Row(HPACK(c, 0), 10, IArg(2, 8), RArg(1, 0))
    BY OtherRows
  <2> QED
    BY <1>1, <1>3, <2>1, Zenon
<1>7. In(n, Allocs) => find_instr(n).bytes \in 1 .. 10
  <2>1. In(n, Allocs) => \E b \in 1 .. 8 : find_instr(n) = Row(0, b, IArg(0, b), NoArg)
    BY OtherRows
  <2> QED
    BY <1>1, <1>3, <2>1, Zenon
<1>8. n \in Stacks => find_instr(n).bytes \in 1 .. 10
  <2>1. n \in Stacks => \E c \in {10, 11} : find_instr(n) = Row(HPACK(c, 0), 2, RArg(1, 1), NoArg)
    BY OtherRows
  <2> QED
    BY <1>1, <1>3, <2>1, Zenon
<1>9. n \in Lone => find_instr(n).bytes \in 1 .. 10
  <2>1. n \in Lone => \E c \in {0, 1, 9} : find_instr(n) = Row(HPACK(c, 0), 1, NoArg, NoArg)
    BY OtherRows
  <2> QED
    BY <1>1, <1>3, <2>1, Zenon
<1>10. n = "rmmovq" \/ n = "mrmovq" => find_instr(n).bytes \in 1 .. 10
  <2>1. /\ n = "rmmovq" => find_instr(n) = Row(HPACK(4, 0), 10, RArg(1, 1), MArg(1))
        /\ n = "mrmovq" => find_instr(n) = Row(HPACK(5, 0), 10, MArg(1), RArg(1, 1))
    BY OtherRows
  <2> QED
    BY <1>1, <1>3, <2>1, Zenon
<1> QED
  BY <1>2, <1>4, <1>5, <1>6, <1>7, <1>8, <1>9, <1>10

-----------------------------------------------------------------------------
(* Which files have an error: the invariant.                               *)

\* The lines before n that define a label.
Labels(name, n) ==
    {j \in 1 .. n - 1 : src[j].end = "newline" /\ TokAt(Toks(j), 1) = Tok("IDENT", name)}

\* The symbol table holds the labels of the lines before n.
Symbols(n) == \A name \in STRING : Placed(Labels(name, n), symbol_table, name, passone)

\* What the counters and the table hold.
Typed ==
    /\ bytepos \in Int
    /\ \A i \in 1 .. Len(src) + 1 : passone[i] \in Int
    /\ symbol_table \in Seq(Symbol)
    /\ DOMAIN code = 0 .. 9

\* How the last line ends.
LastIs(end) == Len(src) > 0 /\ src[Len(src)].end = end

\* How the lexer comes to the line: a bad character before the end of the
\* file leaves it in its error state for pass 2, which then fails unless that
\* line was the only one.
Lexed ==
    /\ lex \in {"INITIAL", "ERR"}
    /\ pass = 1 => (lex = "ERR" <=> LastIs("bad_eof") /\ lineno = Len(src) + 1)
    /\ pass = 2 => (lex = "ERR" <=> LastIs("bad_eof"))
    /\ pass = 2 /\ lex = "ERR" => lineno = 1 \/ Len(src) = 1

\* What stays in the buffers at the end.
Ends == LastIs("eof") \/ LastIs("bad_eof")

\* What stays in the buffers at the end of the file.
Left ==
    /\ lineno = Len(src) + 1 => tokens = IF Ends THEN Toks(Len(src)) ELSE <<>>
    /\ pass = 2 /\ Ends => Toks(Len(src)) = <<>>
    /\ \A j \in DOMAIN src :
           pass = 2 \/ j < lineno => src[j].end # "bad" /\ src[j].text # "refused"

\* Pass 2 has found the lines before the current one right.
Right == pass = 2 => \A j \in 1 .. lineno - 1 : GoodLine(j) /\ GoodAddress(j)

\* The file has an error.
Wrong == \E i \in DOMAIN src : ~GoodLine(i) \/ (pass = 2 /\ ~GoodAddress(i))

\* What main returns.
Outcome ==
    /\ status \in {"running", "ok", "error", "undefined"}
    /\ status = "error" => hit_error
    /\ status = "ok" => ~hit_error /\ pass = 2 /\ lineno = Len(src) + 1

\* The lines whose labels are in the table.
SymbolsSoFar == Symbols(IF pass = 1 THEN lineno ELSE Len(src) + 1)

\* There was an error exactly if the lines so far have one.
ErrorInv ==
    /\ Outcome
    /\ hit_error => Wrong
    /\ ~hit_error => SymbolsSoFar /\ Typed /\ Lexed /\ Left /\ Right

-----------------------------------------------------------------------------

\* What a line says only depends on the file.
LEMMA LinesSame ==
    ASSUME src' = src
    PROVE  /\ \A i : Toks(i)' = Toks(i) /\ Name(i)' = Name(i) /\ StatementAt(i)' = StatementAt(i)
           /\ \A i : GoodLine(i)' <=> GoodLine(i)
           /\ \A i : passone' = passone => (GoodAddress(i)' <=> GoodAddress(i))
<1>1. \A i : Toks(i)' = Toks(i)
  BY DEF Toks
<1>2. \A i : StatementAt(i)' = StatementAt(i)
  BY <1>1 DEF StatementAt
<1>3. \A i : Name(i)' = Name(i)
  BY <1>1, <1>2 DEF Name
<1>4. \A i, k : Op(i, k)' = Op(i, k)
  BY <1>1, <1>2 DEF Op
<1>5. \A i, shape : Fits(i, shape)' <=> Fits(i, shape)
  BY <1>3, <1>4 DEF Fits
<1>6. \A i, shape : Resolved(i, shape)' <=> Resolved(i, shape)
  BY <1>1, <1>4 DEF Resolved
<1>7. \A i : GoodStatement(i)' <=> GoodStatement(i)
  BY <1>3, <1>4, <1>5, <1>6 DEF GoodStatement
<1>8. \A i : GoodLine(i)' <=> GoodLine(i)
  BY <1>1, <1>3, <1>7 DEF GoodLine
<1>9. \A i : passone' = passone => (GoodAddress(i)' <=> GoodAddress(i))
  BY <1>1, <1>3 DEF GoodAddress
<1> QED
  BY <1>1, <1>2, <1>3, <1>8, <1>9

\* An error stays one.
LEMMA WrongStays ==
    ASSUME Wrong, src' = src, pass = 2 => pass' = 2 /\ passone' = passone
    PROVE  Wrong'
<1>1. PICK i \in DOMAIN src : ~GoodLine(i) \/ (pass = 2 /\ ~GoodAddress(i))
  BY DEF Wrong
<1>2. i \in DOMAIN src'
  BY <1>1
<1>3. CASE ~GoodLine(i)
  BY <1>2, <1>3, LinesSame DEF Wrong
<1>4. CASE pass = 2 /\ ~GoodAddress(i)
  BY <1>2, <1>4, LinesSame DEF Wrong
<1> QED
  BY <1>1, <1>3, <1>4

\* A line without an earlier error is read as it stands in the file.
LEMMA InLine ==
    ASSUME YasInv, ~hit_error, Reading, NEW n, n = lineno
    PROVE  /\ n \in 1 .. Len(src) /\ n \in DOMAIN src /\ Len(src) \in Nat
           /\ Tokens = Toks(n) /\ Toks(n) \in Seq(Token) /\ tokens = <<>>
           /\ (ErrorPending <=> Refused) /\ (Refused <=> src[n].text = "refused")
           /\ bytepos = passone[n]
           /\ Labelled <=> TokAt(Toks(n), 1).type = "IDENT"
           /\ At = StatementAt(n)
           /\ \A name : Is(name) <=> Name(n).type = "INSTR" /\ Name(n).val = name
           /\ TokAt(Tokens, At) = Name(n)
           /\ Argument = Op(n, 1)
           /\ Colon <=> Punct(Toks(n), 2, ":")
           /\ Encoding = Encode(Toks(n), StatementAt(n), symbol_table, code)
           /\ src[n].end \in {"eof", "bad_eof"} => n = Len(src)
<1>0. Counters
  BY DEF YasInv
<1>1. /\ Tokens = Toks(n) /\ tokens = <<>> /\ n \in 1 .. Len(src)
      /\ (ErrorPending <=> Refused) /\ (Refused <=> src[n].text = "refused")
  BY CleanTokens DEF Toks, Refused
<1>2. Toks(n) \in Seq(Token) /\ Len(src) \in Nat /\ n \in DOMAIN src
      /\ (src[n].end \in {"eof", "bad_eof"} => n = Len(src))
  BY <1>0, <1>1, SourceLine DEF Toks
<1>3. bytepos = passone[n]
  BY DEF YasInv, AddressInv
<1>4. (Labelled <=> TokAt(Toks(n), 1).type = "IDENT") /\ (Colon <=> Punct(Toks(n), 2, ":"))
  BY <1>1 DEF Labelled, Colon
<1>5. At = StatementAt(n)
  BY <1>4 DEF At, StatementAt
<1>6. TokAt(Tokens, At) = Name(n) /\ Argument = Op(n, 1)
  BY <1>1, <1>5 DEF Name, Argument, Op
<1>7. \A name : Is(name) <=> Name(n).type = "INSTR" /\ Name(n).val = name
  BY <1>6 DEF Is
<1>8. Encoding = Encode(Toks(n), StatementAt(n), symbol_table, code)
  BY <1>1, <1>5 DEF Encoding
<1> QED
  BY <1>1, <1>2, <1>3, <1>4, <1>5, <1>6, <1>7, <1>8

\* In pass 2 every label is where the first line that starts with it is.
LEMMA LinkedNow ==
    ASSUME YasInv, Symbols(Len(src) + 1), Typed, Left, pass = 2, NEW i \in DOMAIN src,
           \A j \in DOMAIN src : TokAt(Toks(j), 1).type = "IDENT" => src[j].end = "newline"
    PROVE  Linked(i, symbol_table)
<1>0. Counters /\ Len(src) \in Nat /\ DOMAIN src = 1 .. Len(src)
  BY SourceLine DEF YasInv
<1> SUFFICES ASSUME NEW k \in 1 .. 6, Op(i, k).type = "IDENT"
             PROVE  /\ Found(Op(i, k), symbol_table) <=> \E j \in DOMAIN src : TokAt(Toks(j), 1) = Op(i, k)
                    /\ Found(Op(i, k), symbol_table) =>
                           find_symbol(symbol_table, Op(i, k).val) = LabelAt(Op(i, k))
  BY DEF Linked
<1> DEFINE t == Op(i, k)
           L == {j \in DOMAIN src : TokAt(Toks(j), 1) = t}
           D == Defines(symbol_table, t.val)
<1>1. t = Tok("IDENT", t.val) /\ t.val \in STRING
  <2>1. Toks(i) \in Seq(Token)
    BY <1>0, SourceLine DEF Toks
  <2> QED
    BY <2>1, Kinds DEF Op
<1>2. Labels(t.val, Len(src) + 1) = L
  <2>1. \A j \in DOMAIN src : TokAt(Toks(j), 1) = t => src[j].end = "newline"
    OBVIOUS
  <2> QED
    BY <1>0, <1>1, <2>1 DEF Labels
<1>3. Placed(L, symbol_table, t.val, passone)
  BY <1>1, <1>2 DEF Symbols
<1>4. Found(t, symbol_table) <=> D # {}
  BY DEF Found
<1>5. (\E j \in DOMAIN src : TokAt(Toks(j), 1) = t) <=> L # {}
  OBVIOUS
<1>6. L \subseteq Int
  BY <1>0
<1>7. D \subseteq Int
  BY DEF Typed, Defines
<1> HIDE DEF L, D
<1>8. \/ L = {} /\ D = {}
      \/ \E f, d : Least(f, L) /\ Least(d, D) /\ symbol_table[d].pos = passone[f]
  BY <1>3 DEF Placed, D
<1>9. CASE L = {} /\ D = {}
  BY <1>4, <1>5, <1>9
<1>10. CASE \E f, d : Least(f, L) /\ Least(d, D) /\ symbol_table[d].pos = passone[f]
  <2>1. PICK f, d : Least(f, L) /\ Least(d, D) /\ symbol_table[d].pos = passone[f]
    BY <1>10
  <2>2. L # {} /\ First(L) = f /\ D # {} /\ First(D) = d
    BY <1>6, <1>7, <2>1, LeastFirst
  <2>3. LabelAt(t) = passone[f]
    BY <2>2 DEF LabelAt, L
  <2>4. find_symbol(symbol_table, t.val) = symbol_table[d].pos
    BY <2>2 DEF find_symbol, First, D
  <2> QED
    BY <1>4, <1>5, <2>1, <2>2, <2>3, <2>4
<1> QED
  BY <1>8, <1>9, <1>10

\* How a line can end.
LEMMA LineEnd ==
    ASSUME Counters, NEW i \in DOMAIN src
    PROVE  /\ src[i].end \in {"newline", "bad", "eof", "bad_eof"}
           /\ src[i].end \in {"eof", "bad_eof"} => i = Len(src) /\ LastIs(src[i].end)
           /\ src[i].end = "newline" /\ Toks(i) = <<>> => src[i].text # "refused"
<1> DEFINE Line == [toks : Seq(Token), end : {"newline", "bad", "eof", "bad_eof"},
                    text : {"fits", "refused", "overruns"}]
<1>1. /\ src \in Seq(Line)
      /\ \A k \in DOMAIN src : src[k].end \in {"eof", "bad_eof"} => k = Len(src)
      /\ \A k \in DOMAIN src : src[k].end = "newline" /\ src[k].text = "refused" =>
             src[k].toks # <<>>
  BY SourcesAssumption DEF Counters, IsFile
<1>2. src[i] \in Line /\ Len(src) \in Nat /\ DOMAIN src = 1 .. Len(src)
  <2> HIDE DEF Line
  <2> QED
    BY <1>1
<1> QED
  BY <1>1, <1>2 DEF LastIs, Toks

\* In pass 2 a line with a label ends in a newline, and a statement is
\* encoded as it should be.
LEMMA LabelLines ==
    ASSUME YasInv, Left, pass = 2, NEW j \in DOMAIN src, TokAt(Toks(j), 1).type = "IDENT"
    PROVE  src[j].end = "newline"
<1>1. src[j].end \in {"newline", "eof", "bad_eof"}
  BY LineEnd DEF YasInv, Left
<1>2. ASSUME src[j].end \in {"eof", "bad_eof"} PROVE FALSE
  <2>1. j = Len(src) /\ Ends
    BY <1>2, LineEnd DEF YasInv, Ends
  <2>2. Toks(j) = <<>>
    BY <2>1 DEF Left
  <2> QED
    BY <2>2 DEF TokAt, TOK_ERR, Tok
<1> QED
  BY <1>1, <1>2

\* In pass 2 every statement is encoded as its line says, or fails.
LEMMA LineRightNow ==
    ASSUME YasInv, ErrorInv, ~hit_error, pass = 2, NEW i \in DOMAIN src,
           Name(i).type = "INSTR", Name(i).val \notin {".pos", ".align"}
    PROVE  LineRight(i, symbol_table, code)
<1>1. Symbols(Len(src) + 1) /\ Typed /\ Left
  BY DEF ErrorInv, SymbolsSoFar
<1>2. Linked(i, symbol_table)
  BY <1>1, LabelLines, LinkedNow
<1>3. Toks(i) \in Seq(Token)
  BY SourceLine DEF YasInv, Toks
<1>4. DOMAIN code = 0 .. 9
  BY <1>1 DEF Typed
<1> QED
  BY <1>2, <1>3, <1>4, LineEncodes

\* The name and the address of a line with a label only.
LEMMA LabelOnlyLine ==
    ASSUME NEW i, Len(Toks(i)) = 2, Toks(i) \in Seq(Token), TokAt(Toks(i), 1).type = "IDENT"
    PROVE  Name(i) = TOK_ERR /\ Name(i).type # "INSTR" /\ Name(i).val \notin {".pos", ".align"}
<1>1. StatementAt(i) = 3 /\ 3 \notin DOMAIN Toks(i)
  BY DEF StatementAt
<1> QED
  BY <1>1 DEF Name, TokAt, TOK_ERR, Tok

\* A statement that is none of those that a good line may hold.
LEMMA NoGoodStatement ==
    ASSUME NEW i, src[i].end = "newline", Toks(i) # <<>>,
           TokAt(Toks(i), 1).type = "IDENT" => Len(Toks(i)) # 2,
           Name(i).type = "INSTR" => ~GoodStatement(i)
    PROVE  ~GoodLine(i)
  BY DEF GoodLine

\* The address after a directive.
LEMMA DirectiveMoves ==
    ASSUME YasInv, ~hit_error, Statement, IsDirective
    PROVE  After(src[lineno], bytepos) = NewPos
<1>1. /\ Reading /\ src[lineno].end = "newline" /\ Tokens # <<>> /\ (Labelled => Len(Tokens) > 2)
  BY DEF Statement, Complete, Finishing
<1>2. Tokens = src[lineno].toks /\ Len(Tokens) \in Nat
  <2>1. Tokens = Toks(lineno) /\ Toks(lineno) \in Seq(Token)
    BY <1>1, InLine
  <2> QED
    BY <2>1 DEF Toks
<1>3. After(src[lineno], bytepos) =
          IF Is(".pos") THEN ToInt(Argument.val)
          ELSE IF Is(".align") THEN AlignUp(bytepos, ToInt(Argument.val))
          ELSE ToInt(bytepos + find_instr(Tokens[At].val).bytes)
  BY <1>1, <1>2 DEF After, Labelled, At, Is, Argument
<1> QED
  BY <1>3 DEF IsDirective, NewPos

\* What fits in an int is an integer, and so is an address rounded up.
LEMMA IntIs ==
    ASSUME NEW x \in Int
    PROVE  ToInt(x) \in Int
<1>1. 2 * IntHalf \in Nat \ {0} /\ x + IntHalf \in Int /\ IntHalf \in Int
  BY SizesAssumption
<1> DEFINE m == 2 * IntHalf
           y == x + IntHalf
<1>2. m \in Nat \ {0} /\ y \in Int
  BY <1>1
<1>3. y % m \in Int
  <2> HIDE DEF m, y
  <2> QED
    BY <1>2
<1> QED
  BY <1>1, <1>3 DEF ToInt

LEMMA Aligned ==
    ASSUME NEW x \in Int, NEW a \in Int, a > 0
    PROVE  AlignUp(x, a) \in Int
<1> DEFINE s == ToInt(x + a - 1)
<1>1. s \in Int
  BY IntIs
<1>2. (s \div a) * a \in Int /\ ((-s) \div a) * a \in Int
  <2> HIDE DEF s
  <2> QED
    BY <1>1
<1> QED
  BY <1>1, <1>2 DEF AlignUp

\* A directive is a good statement when its argument is.
LEMMA DirectiveRight ==
    ASSUME YasInv, ~hit_error, Statement, IsDirective, NEW n, n = lineno
    PROVE  /\ Name(n).type = "INSTR" /\ Name(n).val \in {".pos", ".align"}
           /\ GoodStatement(n) <=> GoodArgument
<1>1. Reading
  BY DEF Statement, Complete, Finishing
<1>2. Argument = Op(n, 1) /\ \A name : Is(name) <=> Name(n).type = "INSTR" /\ Name(n).val = name
  BY <1>1, InLine
<1>3. CASE Is(".pos")
  <2>1. Name(n).type = "INSTR" /\ Name(n).val = ".pos" /\ ~Is(".align")
    BY <1>2, <1>3
  <2> QED
    BY <1>2, <2>1 DEF GoodStatement, GoodArgument
<1>4. CASE Is(".align")
  <2>1. Name(n).type = "INSTR" /\ Name(n).val = ".align" /\ Is(".align")
    BY <1>2, <1>4
  <2> QED
    BY <1>2, <2>1 DEF GoodStatement, GoodArgument
<1> QED
  BY <1>3, <1>4 DEF IsDirective

\* An instruction is a good statement when its encoding does not fail.
LEMMA InstructionRight ==
    ASSUME YasInv, ErrorInv, ~hit_error, Statement, IsInstruction, NEW n, n = lineno
    PROVE  /\ Name(n).type = "INSTR" /\ Name(n).val \in Instr /\ Name(n).val \notin {".pos", ".align"}
           /\ Tokens[At].val = Name(n).val
           /\ pass = 2 => /\ Encoding.ok = TRUE \/ Encoding.ok = FALSE
                          /\ GoodStatement(n) <=> Encoding.ok = TRUE
                          /\ GoodStatement(n) => Encoding.printed = TRUE /\ DOMAIN Encoding.code = 0 .. 9
<1>1. Reading
  BY DEF Statement, Complete, Finishing
<1>2. /\ n \in DOMAIN src /\ TokAt(Tokens, At) = Name(n) /\ Toks(n) \in Seq(Token)
      /\ Encoding = Encode(Toks(n), StatementAt(n), symbol_table, code)
      /\ \A name : Is(name) <=> Name(n).type = "INSTR" /\ Name(n).val = name
  BY <1>1, InLine
<1>3. Name(n).type = "INSTR" /\ Name(n).val \notin {".pos", ".align"}
  BY <1>2 DEF IsInstruction, IsDirective
<1>4. Name(n).val \in Instr
  BY <1>2, <1>3, Kinds DEF Name
<1>5. Tokens[At].val = Name(n).val
  <2>1. TokAt(Tokens, At) # TOK_ERR
    <3>1. TOK_ERR.type = "ERR"
      BY DEF TOK_ERR, Tok
    <3> QED
      BY <1>2, <1>3, <3>1
  <2> QED
    BY <1>2, <2>1 DEF TokAt
<1>6. ASSUME pass = 2
      PROVE  /\ ~GoodStatement(n) => Encoding.ok = FALSE
             /\ GoodStatement(n) => Encoding.ok = TRUE /\ Encoding.printed = TRUE
                                    /\ DOMAIN Encoding.code = 0 .. 9
  <2>1. LineRight(n, symbol_table, code)
    BY <1>2, <1>3, <1>6, LineRightNow
  <2> QED
    BY <1>2, <2>1 DEF LineRight, Done
<1> QED
  BY <1>3, <1>4, <1>5, <1>6

\* In the middle of a file nothing else happens.
LEMMA ReadingOnly ==
    ASSUME Counters, Reading
    PROVE  ~EndPass1 /\ ~EndPass2 /\ ~LoadLine /\ ~LoadEnds /\ ~Overrun
  BY SourceLine DEF Overrun, Counters, Reading, Input, EndPass1, EndPass2, EndOfFile, LoadLine, LoadEnds

\* The line of a statement.
LEMMA StatementLine ==
    ASSUME YasInv, ~hit_error, Statement, NEW n, n = lineno
    PROVE  /\ src[n].end = "newline" /\ src[n].text # "refused"
           /\ Toks(n) # <<>> /\ lex = "INITIAL"
           /\ TokAt(Toks(n), 1).type = "IDENT" => Len(Toks(n)) # 2 /\ Punct(Toks(n), 2, ":")
<1>1. Reading
  BY DEF Statement, Complete, Finishing
<1>2. /\ Tokens = Toks(n) /\ Toks(n) \in Seq(Token)
      /\ (ErrorPending <=> Refused) /\ (Refused <=> src[n].text = "refused")
      /\ Labelled <=> TokAt(Toks(n), 1).type = "IDENT"
      /\ Colon <=> Punct(Toks(n), 2, ":")
  BY <1>1, InLine
<1>3. Len(Toks(n)) \in Nat
  BY <1>2
<1>4. Labelled => Colon /\ Len(Tokens) > 2
  BY DEF Statement
<1>5. src[n].end = "newline" /\ src[n].text # "refused" /\ Tokens # <<>> /\ lex = "INITIAL"
  BY <1>2 DEF Statement, Complete, Finishing
<1>6. ASSUME TokAt(Toks(n), 1).type = "IDENT" PROVE Len(Toks(n)) # 2 /\ Punct(Toks(n), 2, ":")
  <2>1. Colon /\ Len(Tokens) > 2
    BY <1>2, <1>4, <1>6
  <2>2. Len(Toks(n)) > 2
    BY <1>2, <2>1
  <2>3. \A l \in Nat : l > 2 => l # 2
    OBVIOUS
  <2>4. Len(Toks(n)) # 2
    BY <1>3, <2>2, <2>3, Zenon
  <2> QED
    BY <1>2, <2>1, <2>4
<1> QED
  BY <1>2, <1>5, <1>6

\* A step that reports the first error reports an error of the file.
LEMMA FailsRight ==
    ASSUME YasInv, ErrorInv, Next, Reading, ~hit_error, hit_error',
           NEW n, n = lineno
    PROVE  Wrong
<1>0. Counters /\ Typed /\ Lexed /\ Left /\ Len(src) \in Nat /\ DOMAIN src = 1 .. Len(src)
  BY SourceLine DEF YasInv, ErrorInv
<1>1. /\ n \in 1 .. Len(src) /\ n \in DOMAIN src /\ Tokens = Toks(n) /\ Toks(n) \in Seq(Token)
      /\ (ErrorPending <=> Refused) /\ (Refused <=> src[n].text = "refused")
      /\ bytepos = passone[n]
      /\ Labelled <=> TokAt(Toks(n), 1).type = "IDENT"
      /\ TokAt(Tokens, At) = Name(n) /\ Argument = Op(n, 1)
      /\ Colon <=> Punct(Toks(n), 2, ":")
      /\ src[n].end \in {"eof", "bad_eof"} => n = Len(src)
  BY InLine
<1>2. ~GoodLine(n) => Wrong
  BY <1>1 DEF Wrong
<1>3. pass = 2 /\ ~GoodAddress(n) => Wrong
  BY <1>1 DEF Wrong
<1>4. Statement => /\ src[n].end = "newline" /\ Toks(n) # <<>>
                   /\ TokAt(Toks(n), 1).type = "IDENT" => Len(Toks(n)) # 2
  BY StatementLine
<1>5. bytepos \in Int /\ Limit \in Int /\ passone[n] \in Int /\ passone[n + 1] \in Int
  BY <1>0, <1>1, SizesAssumption DEF Typed
<1>6. CASE InvalidLine
  <2>1. CASE lex = "ERR" /\ src[n].end \in {"newline", "bad"}
    <3>1. LastIs("bad_eof")
      BY <1>0, <2>1 DEF Lexed, YasInv, Counters
    <3>2. n # Len(src) /\ Len(src) \in DOMAIN src /\ Len(src) # 1
      BY <1>0, <1>1, <2>1, <3>1 DEF LastIs
    <3>3. ~GoodLine(Len(src))
      BY <3>1, <3>2 DEF GoodLine, LastIs
    <3> QED
      BY <3>2, <3>3 DEF Wrong
  <2>2. CASE src[n].end = "bad"
    <3>1. ~GoodLine(n)
      BY <2>2 DEF GoodLine
    <3> QED
      BY <1>2, <3>1
  <2> QED
    BY <1>6, <2>1, <2>2 DEF InvalidLine
<1>7. CASE MissingColon
  <2>1. src[n].end = "newline" /\ Labelled /\ ~Colon
    BY <1>7 DEF MissingColon, Complete, Finishing
  <2>2. ~GoodLine(n)
    BY <1>1, <2>1 DEF GoodLine
  <2> QED
    BY <1>2, <2>2
<1>8. CASE BadInstruction
  <2>1. Statement /\ Name(n).type # "INSTR"
    BY <1>1, <1>8 DEF BadInstruction
  <2> QED
    BY <1>2, <1>4, <2>1, NoGoodStatement
<1>9. CASE BadDirective
  <2>1. Statement /\ IsDirective /\ ~GoodArgument
    BY <1>9 DEF BadDirective
  <2>2. ~GoodStatement(n)
    BY <2>1, DirectiveRight
  <2> QED
    BY <1>2, <1>4, <2>1, <2>2, NoGoodStatement
<1>10. CASE Generate
  <2>1. Statement /\ IsInstruction /\ pass = 2 /\ ~Encoding.ok
    BY <1>10 DEF Generate
  <2>2. ~GoodStatement(n)
    BY <2>1, InstructionRight
  <2> QED
    BY <1>2, <1>4, <2>1, <2>2, NoGoodStatement
<1>11. CASE AddressLimit
  <2>0. ASSUME NEW a, pass = 2, TooFar(a), Toks(n) # <<>>,
               a = (IF Name(n).val \in {".pos", ".align"} THEN passone[n + 1] ELSE passone[n])
        PROVE  Wrong
    <3>1. a \in Int /\ a >= Limit
      BY <1>5, <2>0 DEF TooFar
    <3>2. ~(a < Limit)
      BY <1>5, <3>1
    <3>3. ~GoodAddress(n)
      BY <2>0, <3>2 DEF GoodAddress
    <3> QED
      BY <1>3, <2>0, <3>3
  <2>1. CASE Complete /\ Labelled /\ Colon /\ Len(Tokens) = 2 /\ TooFar(bytepos)
    <3>1. Name(n).val \notin {".pos", ".align"}
      BY <1>1, <2>1, LabelOnlyLine
    <3>2. pass = 2 /\ Toks(n) # <<>>
      BY <1>1, <2>1 DEF TooFar, Complete
    <3> QED
      BY <1>1, <2>0, <2>1, <3>1, <3>2
  <2>2. CASE Statement /\ IsDirective /\ GoodArgument /\ TooFar(NewPos)
    <3>1. Name(n).val \in {".pos", ".align"}
      BY <2>2, DirectiveRight
    <3>2. pass = 2 /\ Toks(n) # <<>>
      BY <1>4, <2>2 DEF TooFar
    <3>3. NewPos = passone[n + 1]
      <4>1. After(src[lineno], bytepos) = NewPos
        BY <2>2, DirectiveMoves
      <4>2. Chain(Len(src) + 1) /\ passone[lineno] = bytepos
        BY <3>2 DEF YasInv, AddressInv
      <4> QED
        BY <1>0, <1>1, <4>1, <4>2 DEF Chain
    <3> QED
      BY <2>0, <2>2, <3>1, <3>2, <3>3
  <2>3. CASE Statement /\ IsInstruction /\ Encoding.printed /\ TooFar(bytepos)
    <3>1. Name(n).val \notin {".pos", ".align"}
      BY <2>3, InstructionRight
    <3>2. pass = 2 /\ Toks(n) # <<>>
      BY <1>4, <2>3 DEF TooFar
    <3> QED
      BY <1>1, <2>0, <2>3, <3>1, <3>2
  <2> QED
    BY <1>11, <2>1, <2>2, <2>3 DEF AddressLimit
<1>14. CASE LastLine \/ ErrorLine
  <2>1. src[n].text = "refused"
    BY <1>1, <1>14 DEF LastLine, ErrorLine, fail_if_refused
  <2>2. ~GoodLine(n)
    BY <2>1 DEF GoodLine
  <2> QED
    BY <1>2, <2>2
<1>12. ~EmptyLine /\ ~LabelOnly /\ ~Directive /\ ~Measure
  BY DEF EmptyLine, LabelOnly, Directive, Measure
<1>13. ~EndPass1 /\ ~EndPass2 /\ ~LoadLine /\ ~LoadEnds /\ ~Overrun
  BY <1>0, ReadingOnly
<1> QED
  BY <1>6, <1>7, <1>8, <1>9, <1>10, <1>11, <1>12, <1>13, <1>14 DEF Next, Assemble

\* A step without an error reads a right line, in pass 1 as far as it looks.
LEMMA ReadsRight ==
    ASSUME YasInv, ErrorInv, Next, Reading, ~hit_error, ~hit_error', NEW n, n = lineno
    PROVE  /\ pass = 2 => GoodLine(n) /\ GoodAddress(n)
           /\ bytepos' \in Int
           /\ DOMAIN code' = 0 .. 9
           /\ src[n].end # "bad" /\ src[n].text # "refused"
           /\ IF src[n].end = "newline"
              THEN tokens' = <<>> /\ lex = "INITIAL" /\ lex' = "INITIAL" /\ AddSymbol
              ELSE /\ n = Len(src) /\ Ends /\ symbol_table' = symbol_table
                   /\ IF lex = "ERR" THEN lex' = "ERR" /\ tokens' = tokens
                      ELSE tokens' = Toks(n) /\ lex' = IF src[n].end = "bad_eof" THEN "ERR" ELSE lex
<1>0. Counters /\ Typed /\ Lexed /\ Left /\ Len(src) \in Nat /\ DOMAIN src = 1 .. Len(src)
  BY SourceLine DEF YasInv, ErrorInv
<1>1. /\ n \in 1 .. Len(src) /\ n \in DOMAIN src /\ Tokens = Toks(n) /\ Toks(n) \in Seq(Token)
      /\ (ErrorPending <=> Refused) /\ (Refused <=> src[n].text = "refused")
      /\ tokens = <<>> /\ bytepos = passone[n]
      /\ Labelled <=> TokAt(Toks(n), 1).type = "IDENT"
      /\ TokAt(Tokens, At) = Name(n) /\ Argument = Op(n, 1)
      /\ Colon <=> Punct(Toks(n), 2, ":")
      /\ src[n].end \in {"eof", "bad_eof"} => n = Len(src)
  BY InLine
<1>2. bytepos \in Int /\ Limit \in Int /\ passone[n] \in Int /\ DOMAIN code = 0 .. 9
  BY <1>0, <1>1, SizesAssumption DEF Typed
<1>3. Statement => /\ src[n].end = "newline" /\ src[n].text # "refused"
                   /\ Toks(n) # <<>> /\ lex = "INITIAL"
                   /\ TokAt(Toks(n), 1).type = "IDENT" => Punct(Toks(n), 2, ":")
  BY StatementLine
<1>4. Statement /\ Name(n).type = "INSTR" /\ GoodStatement(n) => GoodLine(n)
  BY <1>3 DEF GoodLine
<1>5. CASE LastLine
  <2>1. /\ src[n].end \in {"eof", "bad_eof"} /\ bytepos' = bytepos /\ code' = code
        /\ symbol_table' = symbol_table
        /\ IF lex = "ERR" THEN UNCHANGED <<lex, line>>
           ELSE tokens' = Tokens /\ lex' = (IF src[n].end = "bad_eof" THEN "ERR" ELSE lex)
    BY <1>5 DEF LastLine
  <2>r. src[n].text # "refused"
    <3>1. CASE pass = 2
      BY <1>0, <1>1, <3>1 DEF Left
    <3>2. CASE pass = 1
      <4>1. lex # "ERR"
        BY <1>0, <1>1, <3>2 DEF Lexed
      <4> QED
        BY <1>1, <1>5, <4>1 DEF LastLine, fail_if_refused
    <3> QED
      BY <1>0, <3>1, <3>2 DEF Counters
  <2>2. n = Len(src) /\ Ends
    <3>1. n = Len(src) /\ LastIs(src[n].end)
      BY <1>0, <1>1, <2>1, LineEnd
    <3> QED
      BY <2>1, <3>1 DEF Ends
  <2>3. ASSUME pass = 2 PROVE GoodLine(n) /\ GoodAddress(n)
    <3>1. Toks(n) = <<>>
      BY <2>2, <2>3 DEF Left, ErrorInv
    <3>2. src[n].end = "bad_eof" => n = 1
      <4>1. src[n].end = "bad_eof" => lex = "ERR"
        BY <1>0, <1>1, <2>2, <2>3 DEF Lexed, LastIs
      <4> QED
        BY <1>0, <2>2, <2>3, <4>1 DEF Lexed
    <3>3. GoodLine(n)
      BY <2>1, <2>r, <3>1, <3>2 DEF GoodLine
    <3> QED
      BY <3>1, <3>3 DEF GoodAddress
  <2> QED
    BY <1>1, <1>2, <2>1, <2>2, <2>3, <2>r DEF line
<1>6. CASE EmptyLine
  <2>1. /\ src[n].end = "newline" /\ Toks(n) = <<>> /\ tokens' = <<>> /\ bytepos' = bytepos
        /\ code' = code /\ symbol_table' = symbol_table /\ lex = "INITIAL" /\ lex' = lex
    BY <1>1, <1>6 DEF EmptyLine, Finishing, start_line
  <2>2. TokAt(Toks(n), 1).type # "IDENT"
    BY <2>1 DEF TokAt, TOK_ERR, Tok
  <2>r. src[n].text # "refused"
    BY <1>0, <1>1, <2>1, LineEnd
  <2>3. GoodLine(n) /\ GoodAddress(n)
    BY <2>1, <2>2, <2>r DEF GoodLine, GoodAddress
  <2> QED
    BY <1>1, <1>2, <2>1, <2>2, <2>3, <2>r DEF AddSymbol
<1>7. CASE LabelOnly
  <2>1. /\ src[n].end = "newline" /\ tokens' = <<>> /\ bytepos' = bytepos
        /\ code' = code /\ AddSymbol /\ lex = "INITIAL" /\ lex' = lex
        /\ Labelled /\ Colon /\ Len(Tokens) = 2 /\ ~TooFar(bytepos) /\ src[n].text # "refused"
    BY <1>1, <1>7 DEF LabelOnly, Complete, Finishing, start_line
  <2>2. Name(n).val \notin {".pos", ".align"}
    BY <1>1, <2>1, LabelOnlyLine
  <2>3. GoodLine(n)
    BY <1>1, <2>1 DEF GoodLine
  <2>4. pass = 2 => GoodAddress(n)
    BY <1>1, <1>2, <2>1, <2>2 DEF GoodAddress, TooFar
  <2> QED
    BY <1>2, <2>1, <2>3, <2>4
<1>8. CASE Directive
  <2>1. /\ Statement /\ IsDirective /\ GoodArgument /\ ~TooFar(NewPos) /\ bytepos' = NewPos
        /\ tokens' = <<>> /\ code' = code /\ AddSymbol /\ lex' = lex
    BY <1>8 DEF Directive, start_line
  <2>2. Name(n).type = "INSTR" /\ Name(n).val \in {".pos", ".align"} /\ GoodStatement(n)
    BY <2>1, DirectiveRight
  <2>3. NewPos \in Int
    <3>1. Op(n, 1).type = "NUM"
      BY <1>1, <2>1 DEF GoodArgument
    <3>2. Argument.val \in Int
      BY <1>1, <3>1, Kinds DEF Op
    <3>3. Is(".align") => ToInt(Argument.val) > 0
      BY <2>1 DEF GoodArgument
    <3>4. Is(".align") => AlignUp(bytepos, ToInt(Argument.val)) \in Int
      BY <1>2, <3>2, <3>3, IntIs, Aligned
    <3> QED
      BY <2>1, <3>2, <3>4, IntIs DEF NewPos, IsDirective
  <2>4. pass = 2 => GoodAddress(n)
    <3>1. After(src[lineno], bytepos) = NewPos
      BY <2>1, DirectiveMoves
    <3>2. pass = 2 => Chain(Len(src) + 1) /\ passone[lineno] = bytepos
      BY DEF YasInv, AddressInv
    <3>3. pass = 2 => passone[n + 1] = NewPos
      BY <1>0, <1>1, <3>1, <3>2 DEF Chain
    <3>4. pass = 2 => NewPos < Limit
      BY <1>2, <2>1, <2>3 DEF TooFar
    <3> QED
      BY <2>2, <3>3, <3>4 DEF GoodAddress
  <2> QED
    BY <1>2, <1>3, <1>4, <2>1, <2>2, <2>3, <2>4
<1>9. ASSUME Statement, IsInstruction, bytepos' = ToInt(bytepos + size) PROVE bytepos' \in Int
  <2>1. Tokens[At].val = Name(n).val /\ Name(n).val \in Instr /\ Name(n).val \notin {".pos", ".align"}
    BY <1>9, InstructionRight
  <2>2. size \in 1 .. 10
    BY <2>1, Bytes DEF size
  <2> QED
    BY <1>2, <1>9, <2>2, IntIs
<1>10. CASE Measure
  <2>1. /\ Statement /\ IsInstruction /\ pass = 1 /\ bytepos' = ToInt(bytepos + size)
        /\ tokens' = <<>> /\ code' = code /\ AddSymbol /\ lex' = lex
    BY <1>10 DEF Measure, start_line
  <2> QED
    BY <1>2, <1>3, <1>9, <2>1
<1>11. CASE Generate
  <2>1. /\ Statement /\ IsInstruction /\ pass = 2 /\ bytepos' = ToInt(bytepos + size)
        /\ tokens' = <<>> /\ code' = Encoding.code /\ AddSymbol /\ lex' = lex
        /\ Encoding.printed => ~TooFar(bytepos)
    BY <1>11 DEF Generate, start_line
  <2>2. Encoding.ok
    BY <1>11 DEF Generate
  <2>3. /\ Name(n).type = "INSTR" /\ Name(n).val \notin {".pos", ".align"}
        /\ GoodStatement(n) /\ Encoding.printed = TRUE /\ DOMAIN Encoding.code = 0 .. 9
    BY <2>1, <2>2, InstructionRight
  <2>4. GoodAddress(n)
    BY <1>1, <1>2, <2>1, <2>3 DEF GoodAddress, TooFar
  <2> QED
    BY <1>3, <1>4, <1>9, <2>1, <2>3, <2>4
<1>12. ~ErrorLine
  BY <1>1 DEF ErrorLine, fail_if_refused
<1>13. ~InvalidLine /\ ~MissingColon /\ ~BadInstruction /\ ~BadDirective /\ ~AddressLimit
  BY DEF InvalidLine, MissingColon, BadInstruction, BadDirective, AddressLimit, fail
<1>14. ~EndPass1 /\ ~EndPass2 /\ ~LoadLine /\ ~LoadEnds /\ ~Overrun
  BY <1>0, ReadingOnly
<1> QED
  BY <1>5, <1>6, <1>7, <1>8, <1>10, <1>11, <1>12, <1>13, <1>14 DEF Next, Assemble

\* The labels of the lines up to n.
LEMMA LabelsTo ==
    ASSUME NEW name, NEW n \in Nat
    PROVE  Labels(name, n + 1) =
               {j \in 1 .. n : src[j].end = "newline" /\ TokAt(Toks(j), 1) = Tok("IDENT", name)}
<1>1. Labels(name, n + 1) =
          {j \in 1 .. (n + 1) - 1 : src[j].end = "newline" /\ TokAt(Toks(j), 1) = Tok("IDENT", name)}
  BY DEF Labels
<1>2. (n + 1) - 1 = n
  OBVIOUS
<1> QED
  BY <1>1, <1>2

\* A step in a line that adds no error keeps the symbols those of the lines.
LEMMA SymbolsGrow ==
    ASSUME YasInv, ErrorInv, Next, Reading, ~hit_error, ~hit_error', NEW n, n = lineno
    PROVE  SymbolsSoFar' /\ symbol_table' \in Seq(Symbol)
<1> DEFINE label == src[n].end = "newline" /\ TokAt(Toks(n), 1).type = "IDENT"
           s == [name |-> TokAt(Toks(n), 1).val, pos |-> passone[n]]
<1>0. Counters /\ Typed /\ SymbolsSoFar /\ Len(src) \in Nat /\ DOMAIN src = 1 .. Len(src)
  BY SourceLine DEF YasInv, ErrorInv
<1>1. /\ n \in 1 .. Len(src) /\ Tokens = Toks(n) /\ Toks(n) \in Seq(Token) /\ bytepos = passone[n]
      /\ Labelled <=> TokAt(Toks(n), 1).type = "IDENT"
  BY InLine
<1>2. /\ src' = src /\ pass' = pass /\ lineno' = n + 1
      /\ passone' = (IF pass = 1 THEN [passone EXCEPT ![n + 1] = bytepos'] ELSE passone)
  BY ReadingMoves DEF NextLine
<1>3. symbol_table' = (IF pass = 1 /\ label THEN Append(symbol_table, s) ELSE symbol_table)
  <2>1. IF src[n].end = "newline" THEN AddSymbol ELSE symbol_table' = symbol_table
    BY ReadsRight
  <2>2. Labelled => TokAt(Toks(n), 1) = Tokens[1]
    BY <1>1 DEF TokAt, TOK_ERR, Tok
  <2> QED
    BY <1>1, <2>1, <2>2 DEF AddSymbol
<1>4. label => s \in Symbol /\ TokAt(Toks(n), 1) = Tok("IDENT", s.name)
  <2>1. ASSUME label PROVE TokAt(Toks(n), 1).val \in STRING
                           /\ TokAt(Toks(n), 1) = Tok("IDENT", TokAt(Toks(n), 1).val)
    BY <1>1, <2>1, Kinds
  <2>2. passone[n] \in Int
    BY <1>0, <1>1 DEF Typed
  <2> QED
    BY <2>1, <2>2 DEF Symbol
<1>5. symbol_table \in Seq(Symbol)
  BY <1>0 DEF Typed
<1>6. \A i : Toks(i)' = Toks(i)
  BY <1>2, LinesSame
<1> HIDE DEF label, s
<1>7. symbol_table' \in Seq(Symbol)
  <2> HIDE DEF Symbol
  <2> QED
    BY <1>3, <1>4, <1>5
<1>8. CASE pass = 2
  <2>1. passone' = passone /\ symbol_table' = symbol_table
    BY <1>2, <1>3, <1>8
  <2>2. \A name : Labels(name, Len(src) + 1)' = Labels(name, Len(src) + 1)
    BY <1>2, <1>6 DEF Labels
  <2>3. Symbols(Len(src) + 1)
    BY <1>0, <1>8 DEF SymbolsSoFar
  <2>4. Symbols(Len(src) + 1)'
    BY <2>1, <2>2, <2>3 DEF Symbols
  <2> QED
    BY <1>2, <1>7, <1>8, <2>4 DEF SymbolsSoFar
<1>9. CASE pass = 1
  <2>1. Symbols(n)
    BY <1>0, <1>9 DEF SymbolsSoFar
  <2>2. \A j \in 1 .. n : passone'[j] = passone[j]
    BY <1>0, <1>1, <1>2, <1>9 DEF Counters
  <2>3. ASSUME NEW name \in STRING
        PROVE  Placed(Labels(name, n + 1)', symbol_table', name, passone')
    <3> DEFINE L == Labels(name, n)
               L1 == Labels(name, n + 1)'
    <3>1. L \subseteq 1 .. n - 1 /\ n \in Nat
      BY <1>1 DEF Labels
    <3>2. L1 = {j \in 1 .. n : src[j].end = "newline" /\ TokAt(Toks(j), 1) = Tok("IDENT", name)}
      <4>1. L1 = Labels(name, n + 1)
        BY <1>2, <1>6 DEF Labels
      <4> QED
        BY <3>1, <4>1, LabelsTo
    <3>3. label /\ s.name = name => L1 = L \cup {n}
      BY <1>1, <1>4, <3>1, <3>2 DEF label, Labels
    <3>4. ~(label /\ s.name = name) => L1 = L
      <4>1. ASSUME ~(label /\ s.name = name)
            PROVE  ~(src[n].end = "newline" /\ TokAt(Toks(n), 1) = Tok("IDENT", name))
        BY <4>1 DEF label, s, Tok
      <4> QED
        BY <1>1, <3>1, <3>2, <4>1 DEF Labels
    <3>5. Placed(L, symbol_table, name, passone)
      BY <2>1 DEF Symbols
    <3>6. s.pos = passone[n]
      BY DEF s
    <3> HIDE DEF L, L1
    <3>7. Placed(L1, symbol_table', name, passone)
      <4>1. CASE label
        <5>1. symbol_table' = Append(symbol_table, s) /\ s \in Symbol
          BY <1>3, <1>4, <1>9, <4>1
        <5>2. /\ s.name = name => Placed(L \cup {n}, Append(symbol_table, s), name, passone)
              /\ s.name # name => Placed(L, Append(symbol_table, s), name, passone)
          BY <1>5, <3>1, <3>5, <3>6, <5>1, PlacedAppend
        <5> QED
          BY <3>3, <3>4, <4>1, <5>1, <5>2
      <4>2. CASE ~label
        BY <1>3, <3>4, <3>5, <4>2
      <4> QED
        BY <4>1, <4>2
    <3>8. \A j \in L1 : passone'[j] = passone[j]
      BY <2>2, <3>2
    <3>9. Placed(L1, symbol_table', name, passone')
      BY <3>7, <3>8, PlacedSame
    <3> QED
      BY <3>9 DEF L1
  <2>4. Symbols(n + 1)'
    BY <2>3 DEF Symbols
  <2>5. (IF pass = 1 THEN lineno ELSE Len(src) + 1)' = n + 1
    BY <1>2, <1>9
  <2> QED
    BY <1>7, <2>4, <2>5 DEF SymbolsSoFar
<1> QED
  BY <1>0, <1>8, <1>9 DEF Counters

-----------------------------------------------------------------------------
(* The invariant is inductive.                                             *)

\* ErrorInv holds at first.
LEMMA InitErrors == Init => ErrorInv
<1> SUFFICES ASSUME Init PROVE ErrorInv
  OBVIOUS
<1>1. YasInv /\ Counters
  BY InitEstablishes DEF YasInv
<1>2. Len(src) \in Nat /\ DOMAIN src = 1 .. Len(src)
  BY <1>1, SourceLine
<1>3. Outcome /\ ~hit_error
  BY DEF Init, Outcome
<1>4. SymbolsSoFar
  <2>1. ASSUME NEW name PROVE Placed(Labels(name, 1), symbol_table, name, passone)
    <3>1. Labels(name, 1) = {}
      BY DEF Labels
    <3>2. Defines(symbol_table, name) = {}
      BY DEF Init, Defines
    <3> QED
      BY <3>1, <3>2 DEF Placed
  <2>2. Symbols(1)
    BY <2>1 DEF Symbols
  <2> QED
    BY <2>2 DEF Init, SymbolsSoFar
<1>5. Typed
  <2>1. symbol_table \in Seq(Symbol)
    BY DEF Init
  <2> QED
    BY <1>2, <2>1 DEF Init, Typed
<1>6. Lexed
  BY <1>2 DEF Init, Lexed, LastIs
<1>7. Left
  BY <1>2 DEF Init, Left, Ends, LastIs
<1>8. Right
  BY DEF Init, Right
<1> QED
  BY <1>3, <1>4, <1>5, <1>6, <1>7, <1>8 DEF ErrorInv

\* A step in a line.
LEMMA ReadingErrors ==
    ASSUME YasInv, ErrorInv, Next, Reading, ~hit_error, ~hit_error', NEW n, n = lineno
    PROVE  ErrorInv'
<1>0. /\ Counters /\ Outcome /\ Typed /\ Lexed /\ Left /\ Right
      /\ Len(src) \in Nat /\ DOMAIN src = 1 .. Len(src)
  BY SourceLine DEF YasInv, ErrorInv
<1>1. n \in 1 .. Len(src) /\ tokens = <<>> /\ (src[n].end \in {"eof", "bad_eof"} => n = Len(src))
  BY InLine
<1>n. n \in Nat /\ 1 <= n /\ n <= Len(src) /\ Len(src) \in Nat
  <2>1. n \in 1 .. Len(src)
    BY <1>1
  <2>2. Len(src) \in Nat
    BY <1>0
  <2> QED
    BY <2>1, <2>2
<1>2. /\ src' = src /\ pass' = pass /\ lineno' = n + 1 /\ status' = status
      /\ passone' = (IF pass = 1 THEN [passone EXCEPT ![n + 1] = bytepos'] ELSE passone)
      /\ status = "running"
  BY ReadingMoves DEF NextLine, Reading, Input
<1>3. SymbolsSoFar' /\ symbol_table' \in Seq(Symbol)
  BY SymbolsGrow
<1>4. /\ pass = 2 => GoodLine(n) /\ GoodAddress(n)
      /\ bytepos' \in Int
      /\ DOMAIN code' = 0 .. 9
      /\ src[n].end # "bad" /\ src[n].text # "refused"
      /\ src[n].end = "newline" => tokens' = <<>> /\ lex = "INITIAL" /\ lex' = "INITIAL"
      /\ src[n].end # "newline" =>
            /\ n = Len(src) /\ Ends
            /\ lex = "ERR" => lex' = "ERR" /\ tokens' = tokens
            /\ lex # "ERR" => tokens' = Toks(n) /\ lex' = IF src[n].end = "bad_eof" THEN "ERR" ELSE lex
  BY ReadsRight
<1>e. src[n].end # "newline" => n = Len(src)
  BY <1>4
<1>5. pass \in {1, 2}
  BY <1>0 DEF Counters
<1>6. LastIs("bad_eof")' = LastIs("bad_eof") /\ Ends' = Ends
  BY <1>2 DEF LastIs, Ends
<1>7. Outcome'
  BY <1>2 DEF Outcome
<1>8. Typed'
  <2>1. \A i \in 1 .. Len(src) + 1 : passone'[i] \in Int
    BY <1>0, <1>2, <1>4 DEF Typed, Counters
  <2> QED
    BY <1>2, <1>3, <1>4, <2>1 DEF Typed
<1>9. Lexed'
  <2>1. src[n].end = "newline" /\ n = Len(src) => ~LastIs("bad_eof")
    BY DEF LastIs
  <2>2. src[n].end # "newline" => (LastIs("bad_eof") <=> src[n].end = "bad_eof")
    BY <1>n, <1>e DEF LastIs
  <2>3. lex' \in {"INITIAL", "ERR"}
    BY <1>0, <1>4 DEF Lexed
  <2>4. CASE pass = 1
    <3>1. lex = "INITIAL"
      BY <1>0, <1>n, <2>4 DEF Lexed
    <3>2. lex' = "ERR" <=> LastIs("bad_eof") /\ n + 1 = Len(src) + 1
      <4>1. CASE src[n].end = "newline"
        <5>1. lex' = "INITIAL"
          BY <1>4, <4>1
        <5>2. n + 1 = Len(src) + 1 => n = Len(src)
          BY <1>n
        <5> QED
          BY <2>1, <4>1, <5>1, <5>2
      <4>2. CASE src[n].end # "newline"
        BY <1>0, <1>1, <1>4, <2>2, <3>1, <4>2
      <4> QED
        BY <4>1, <4>2
    <3> QED
      BY <1>2, <1>6, <2>3, <2>4, <3>2 DEF Lexed
  <2>5. CASE pass = 2
    <3>1. (lex = "ERR" <=> LastIs("bad_eof")) /\ (lex = "ERR" => n = 1 \/ Len(src) = 1)
      BY <1>0, <2>5 DEF Lexed
    <3>2. lex' = "ERR" <=> lex = "ERR"
      <4>1. CASE src[n].end = "newline"
        BY <1>4, <4>1
      <4>2. CASE src[n].end # "newline"
        BY <1>4, <2>2, <3>1, <4>2
      <4> QED
        BY <4>1, <4>2
    <3>3. lex' = "ERR" => Len(src) = 1
      <4>1. lex' = "ERR" => src[n].end # "newline"
        BY <1>4
      <4> QED
        BY <1>4, <3>1, <3>2, <4>1
    <3> QED
      BY <1>2, <1>6, <2>3, <2>5, <3>1, <3>2, <3>3 DEF Lexed
  <2> QED
    BY <1>5, <2>4, <2>5
<1>10. Left'
  <2>1. Toks(Len(src))' = Toks(Len(src))
    BY <1>2, LinesSame
  <2>2. n + 1 = Len(src) + 1 => tokens' = IF Ends THEN Toks(Len(src)) ELSE <<>>
    <3> SUFFICES ASSUME n = Len(src) PROVE tokens' = IF Ends THEN Toks(Len(src)) ELSE <<>>
      <4>1. n + 1 = Len(src) + 1 => n = Len(src)
        BY <1>n
      <4> QED
        BY <4>1
    <3>1. CASE src[n].end = "newline"
      <4>1. ~Ends
        BY <3>1 DEF Ends, LastIs
      <4> QED
        BY <1>4, <3>1, <4>1
    <3>2. CASE src[n].end # "newline" /\ lex # "ERR"
      BY <1>4, <3>2
    <3>3. CASE src[n].end # "newline" /\ lex = "ERR"
      <4>1. pass = 2
        BY <1>0, <1>1, <1>5, <3>3 DEF Lexed
      <4> QED
        BY <1>0, <1>1, <1>4, <3>3, <4>1 DEF Left
    <3> QED
      BY <3>1, <3>2, <3>3
  <2>3. pass = 2 /\ Ends => Toks(Len(src)) = <<>>
    BY <1>0 DEF Left
  <2>4. \A j \in DOMAIN src :
           pass = 2 \/ j < n + 1 => src[j].end # "bad" /\ src[j].text # "refused"
    <3>1. ASSUME NEW j \in DOMAIN src, pass = 2 \/ j < n + 1
          PROVE  src[j].end # "bad" /\ src[j].text # "refused"
      <4>1. j = n \/ j < n \/ pass = 2
        BY <1>n, <3>1
      <4> QED
        BY <1>0, <1>4, <4>1 DEF Left
    <3> QED
      BY <3>1
  <2> QED
    BY <1>2, <1>6, <2>1, <2>2, <2>3, <2>4 DEF Left
<1>11. Right'
  <2>1. ASSUME pass = 2, NEW j \in 1 .. n PROVE GoodLine(j)' /\ GoodAddress(j)'
    <3>1. passone' = passone
      BY <1>2, <2>1
    <3>2. GoodLine(j) /\ GoodAddress(j)
      <4>1. j = n \/ j \in 1 .. n - 1
        BY <1>1
      <4> QED
        BY <1>0, <1>4, <2>1, <4>1 DEF Right
    <3> QED
      BY <1>2, <3>1, <3>2, LinesSame
  <2>2. \A l : l = n + 1 => l - 1 = n
    BY <1>n
  <2>3. lineno' - 1 = n
    <3>1. lineno' = n + 1
      BY <1>2
    <3> QED
      BY <2>2, <3>1, Zenon
  <2> QED
    BY <1>2, <2>1, <2>3 DEF Right
<1> QED
  BY <1>3, <1>7, <1>8, <1>9, <1>10, <1>11 DEF ErrorInv

\* The end of pass 1.
LEMMA TurnErrors ==
    ASSUME YasInv, ErrorInv, EndPass1, ~hit_error
    PROVE  ErrorInv'
<1>0. /\ Counters /\ Outcome /\ Typed /\ Lexed /\ Left /\ SymbolsSoFar
      /\ Len(src) \in Nat /\ DOMAIN src = 1 .. Len(src)
  BY SourceLine DEF YasInv, ErrorInv
<1>1. lineno = Len(src) + 1 /\ pass = 1 /\ status = "running"
  <2>1. lineno > Len(src) /\ lineno \in 1 .. Len(src) + 1
    BY <1>0 DEF EndPass1, EndOfFile, Counters
  <2> QED
    BY <1>0, <2>1 DEF EndPass1, EndOfFile
<1>2. tokens = IF Ends THEN Toks(Len(src)) ELSE <<>>
  BY <1>0, <1>1 DEF Left
<1>3. UNCHANGED <<src, tokens, lex, symbol_table, code, passone>>
  BY DEF EndPass1
<1>4. /\ \A i : Toks(i)' = Toks(i)
      /\ LastIs("bad_eof")' = LastIs("bad_eof") /\ Ends' = Ends
  BY <1>3, LinesSame DEF LastIs, Ends
<1>5. CASE tokens # <<>>
  <2>1. hit_error' /\ status' = "error" /\ pass' = pass /\ lineno' = lineno
    BY <1>5 DEF EndPass1, Wrapped
  <2>2. Ends /\ Toks(Len(src)) # <<>>
    BY <1>2, <1>5
  <2>3. ~GoodLine(Len(src)) /\ Len(src) \in DOMAIN src
    BY <1>0, <2>2 DEF GoodLine, Ends, LastIs
  <2>4. Wrong'
    BY <1>3, <1>1, <2>1, <2>3, WrongStays DEF Wrong
  <2>5. Outcome'
    BY <2>1 DEF Outcome
  <2> QED
    BY <2>1, <2>4, <2>5 DEF ErrorInv
<1>6. CASE tokens = <<>>
  <2>1. ~hit_error' /\ status' = "running" /\ pass' = 2 /\ lineno' = 1 /\ bytepos' = 0
    BY <1>1, <1>6 DEF EndPass1, Wrapped
  <2>2. Outcome'
    BY <2>1 DEF Outcome
  <2>3. Typed'
    BY <1>0, <1>3, <2>1 DEF Typed
  <2>4. SymbolsSoFar'
    <3>1. Symbols(Len(src) + 1)
      BY <1>0, <1>1 DEF SymbolsSoFar
    <3>2. \A name : Labels(name, Len(src) + 1)' = Labels(name, Len(src) + 1)
      BY <1>3, <1>4 DEF Labels
    <3>3. Symbols(Len(src) + 1)'
      BY <1>3, <3>1, <3>2 DEF Symbols
    <3> QED
      BY <1>3, <2>1, <3>3 DEF SymbolsSoFar
  <2>5. Lexed'
    BY <1>0, <1>1, <1>3, <1>4, <2>1 DEF Lexed
  <2>6. Left'
    <3>1. Ends => Toks(Len(src)) = <<>>
      BY <1>2, <1>6
    <3>2. tokens' = IF Ends THEN Toks(Len(src)) ELSE <<>>
      BY <1>2, <1>3
    <3>3. \A j \in DOMAIN src : src[j].end # "bad" /\ src[j].text # "refused"
      BY <1>0, <1>1 DEF Left
    <3> QED
      BY <1>3, <1>4, <3>1, <3>2, <3>3 DEF Left
  <2>7. Right'
    BY <2>1 DEF Right
  <2> QED
    BY <2>1, <2>2, <2>3, <2>4, <2>5, <2>6, <2>7 DEF ErrorInv
<1> QED
  BY <1>5, <1>6

\* ErrorInv holds after every step.
LEMMA ErrorsKeep == YasInv /\ ErrorInv /\ [Next]_vars => ErrorInv'
<1> SUFFICES ASSUME YasInv, ErrorInv, [Next]_vars PROVE ErrorInv'
  OBVIOUS
<1>0. Counters /\ Outcome /\ Len(src) \in Nat /\ DOMAIN src = 1 .. Len(src)
  BY SourceLine DEF YasInv, ErrorInv
<1>1. ASSUME UNCHANGED <<src, pass, lineno, bytepos, tokens, lex, symbol_table, code, passone>>,
             hit_error' <=> hit_error, Outcome'
      PROVE  ErrorInv'
  <2>1. /\ \A i : Toks(i)' = Toks(i)
        /\ \A i : (GoodLine(i)' <=> GoodLine(i)) /\ (GoodAddress(i)' <=> GoodAddress(i))
    BY <1>1, LinesSame
  <2>2. hit_error => Wrong'
    BY <1>1, WrongStays DEF ErrorInv
  <2>3. SymbolsSoFar' <=> SymbolsSoFar
    <3>1. \A name, n : Labels(name, n)' = Labels(name, n)
      BY <1>1, <2>1 DEF Labels
    <3>2. \A n : Symbols(n)' <=> Symbols(n)
      BY <1>1, <3>1 DEF Symbols
    <3> QED
      BY <1>1, <3>2 DEF SymbolsSoFar
  <2>4. Typed' <=> Typed
    BY <1>1 DEF Typed
  <2>5. Lexed' <=> Lexed
    BY <1>1 DEF Lexed, LastIs
  <2>6. Left' <=> Left
    <3>1. Ends' <=> Ends
      BY <1>1 DEF Ends, LastIs
    <3> QED
      BY <1>1, <2>1, <3>1 DEF Left
  <2>7. Right' <=> Right
    BY <1>1, <2>1 DEF Right
  <2> QED
    BY <1>1, <2>2, <2>3, <2>4, <2>5, <2>6, <2>7 DEF ErrorInv
<1>2. CASE UNCHANGED vars
  <2>1. UNCHANGED <<src, pass, lineno, bytepos, tokens, lex, hit_error, symbol_table, code, passone, status>>
    BY <1>2 DEF vars, line
  <2>2. Outcome'
    BY <1>0, <2>1 DEF Outcome
  <2> QED
    BY <1>1, <2>1, <2>2
<1>3. ASSUME hit_error', src' = src, pass = 2 => pass' = 2 /\ passone' = passone, Wrong, Outcome'
      PROVE  ErrorInv'
  BY <1>3, WrongStays DEF ErrorInv
<1>4. CASE Next /\ Reading
  <2>1. NextLine \/ AddressLimit
    BY <1>0, <1>4, ReadingSteps
  <2>2. src' = src /\ (pass = 2 => pass' = 2 /\ passone' = passone)
    BY <2>1 DEF NextLine, AddressLimit
  <2>3. Outcome'
    <3>1. CASE NextLine
      BY <1>4, <3>1 DEF NextLine, Outcome, Reading, Input
    <3>2. CASE AddressLimit
      BY <3>2 DEF AddressLimit, Outcome
    <3> QED
      BY <2>1, <3>1, <3>2
  <2>4. CASE hit_error'
    <3>1. Wrong
      <4>1. CASE hit_error
        BY <4>1 DEF ErrorInv
      <4>2. CASE ~hit_error
        BY <1>4, <2>4, <4>2, FailsRight
      <4> QED
        BY <4>1, <4>2
    <3> QED
      BY <1>3, <2>2, <2>3, <2>4, <3>1
  <2>5. CASE ~hit_error'
    <3>1. ~hit_error
      BY <1>0, <1>4, <2>5, ReadingSteps
    <3> QED
      BY <1>4, <2>5, <3>1, ReadingErrors
  <2> QED
    BY <2>4, <2>5
<1>5. CASE EndPass1
  <2>1. CASE ~hit_error
    BY <1>5, <2>1, TurnErrors
  <2>2. CASE hit_error
    <3>1. hit_error' /\ status' = "error" /\ UNCHANGED <<src, pass, passone>>
      BY <1>5, <2>2 DEF EndPass1, Wrapped
    <3>2. Outcome' /\ Wrong
      BY <2>2, <3>1 DEF Outcome, ErrorInv
    <3> QED
      BY <1>3, <3>1, <3>2
  <2> QED
    BY <2>1, <2>2
<1>6. CASE EndPass2
  <2>1. CASE hit_error
    <3>1. hit_error' /\ status' = "error" /\ UNCHANGED <<src, pass, passone>>
      BY <1>6, <2>1 DEF EndPass2, Wrapped
    <3>2. Outcome' /\ Wrong
      BY <2>1, <3>1 DEF Outcome, ErrorInv
    <3> QED
      BY <1>3, <3>1, <3>2
  <2>2. CASE ~hit_error
    <3>1. lineno = Len(src) + 1 /\ pass = 2
      <4>1. lineno > Len(src) /\ lineno \in 1 .. Len(src) + 1 /\ Len(src) \in Nat
        BY <1>0, <1>6 DEF EndPass2, EndOfFile, Counters
      <4> QED
        BY <1>6, <4>1 DEF EndPass2
    <3>2. tokens = <<>>
      BY <2>2, <3>1 DEF ErrorInv, Left
    <3>3. ~hit_error' /\ status' = "ok" /\ UNCHANGED <<src, pass, lineno, bytepos, tokens, lex, symbol_table, code, passone>>
      BY <1>6, <2>2, <3>2 DEF EndPass2, Wrapped, line
    <3>4. Outcome'
      BY <2>2, <3>1, <3>3 DEF Outcome
    <3>5. hit_error' <=> hit_error
      BY <2>2, <3>3
    <3> QED
      BY <1>1, <3>3, <3>4, <3>5
  <2> QED
    BY <2>1, <2>2
<1>7. CASE LoadLine \/ LoadEnds
  <2>1. UNCHANGED <<src, pass, lineno, bytepos, tokens, lex, hit_error, symbol_table, code, passone, status>>
    BY <1>7 DEF LoadLine, LoadEnds, line
  <2>2. Outcome'
    BY <1>0, <2>1 DEF Outcome
  <2> QED
    BY <1>1, <2>1, <2>2
<1>8. CASE Overrun
  <2>1. /\ UNCHANGED <<src, pass, lineno, bytepos, tokens, lex, hit_error, symbol_table, code, passone>>
        /\ status' = "undefined"
    BY <1>8 DEF Overrun, line
  <2>2. Outcome'
    BY <2>1 DEF Outcome
  <2> QED
    BY <1>1, <2>1, <2>2
<1> QED
  BY <1>2, <1>4, <1>5, <1>6, <1>7, <1>8 DEF Next, Assemble, InvalidLine, LastLine, EmptyLine, ErrorLine,
     MissingColon, LabelOnly, BadInstruction, BadDirective, Directive, Measure, Generate,
     AddressLimit, Complete, Finishing, Statement

\* yas.c 192-201, 293-348, 445-468, 524-529: for every file, when yas returns
\* and no buffer was overrun, it returns success exactly when every line is
\* right, and in pass 2 at an address that print_code can write.
THEOREM ErrorsAlwaysExact == Spec => []ErrorsExact
<1>1. YasInv /\ ErrorInv => ErrorsExact
  <2> SUFFICES ASSUME YasInv, ErrorInv, status \in {"ok", "error"}
               PROVE  status = "ok" <=> \A i \in DOMAIN src : GoodLine(i) /\ (pass = 2 => GoodAddress(i))
    BY DEF ErrorsExact
  <2>1. CASE status = "ok"
    <3>1. ~hit_error /\ pass = 2 /\ lineno = Len(src) + 1
      BY <2>1 DEF ErrorInv, Outcome
    <3>2. \A j \in 1 .. lineno - 1 : GoodLine(j) /\ GoodAddress(j)
      BY <3>1 DEF ErrorInv, Right
    <3>3. DOMAIN src = 1 .. lineno - 1
      <4>1. Len(src) \in Nat /\ DOMAIN src = 1 .. Len(src)
        BY SourceLine DEF YasInv
      <4> QED
        BY <3>1, <4>1
    <3> QED
      BY <2>1, <3>2, <3>3
  <2>2. CASE status = "error"
    <3>1. Wrong
      BY <2>2 DEF ErrorInv, Outcome
    <3> QED
      BY <2>2, <3>1 DEF Wrong
  <2> QED
    BY <2>1, <2>2 DEF ErrorInv, Outcome
<1>2. Init => YasInv /\ ErrorInv
  BY InitEstablishes, InitErrors
<1>3. YasInv /\ ErrorInv /\ [Next]_vars => (YasInv /\ ErrorInv)'
  BY NextKeeps, ErrorsKeep
<1> QED
  BY <1>1, <1>2, <1>3, PTL DEF Spec

-----------------------------------------------------------------------------
(* The .yo file and the memory: the invariant.                             *)

\* The bytes of a line in the .yo file.
SizeOf(i) == find_instr(Name(i).val).bytes

Entry(o, i) ==
    \E b : /\ b = [x \in 0 .. SizeOf(i) - 1 |-> b[x]]
           /\ Says(i, b)
           /\ o = [pos |-> hexstuff(passone[i]), bytes |-> [x \in 1 .. SizeOf(i) |-> b[x - 1]]]

\* The lines of code before n are in the file, and after each of them only
\* later ones.
Recorded(n) ==
    \A i \in CodeLines : i < n =>
        \E k \in 1 .. Len(outfile) :
            /\ Entry(outfile[k], i)
            /\ \A k2 \in 1 .. Len(outfile) : k2 > k /\ outfile[k2].bytes # <<>> =>
                   \E j \in CodeLines : j > i /\ j < n /\ Entry(outfile[k2], j)

\* A line of the .yo file, and the addresses that it fills.
IsOut(o) == o.pos \in Nat /\ Len(o.bytes) \in Nat

IsOutfile == (\E S : outfile \in Seq(S)) /\ \A k \in 1 .. Len(outfile) : IsOut(outfile[k])

Fills(o) == o.pos .. o.pos + Len(o.bytes) - 1

\* The memory holds the lines of the .yo file before n, the later over the
\* earlier.
Holds(n) ==
    \A k \in 1 .. n - 1 :
        /\ Fills(outfile[k]) \subseteq 0 .. MemLen - 1
        /\ \A a \in Fills(outfile[k]) :
               (\A k2 \in k + 1 .. n - 1 : a \notin Fills(outfile[k2])) =>
                   mem[a] = outfile[k].bytes[a - outfile[k].pos + 1]

\* load_mem starts when main has returned, and goes through the file.
LoadInv ==
    /\ DOMAIN mem = 0 .. MemLen - 1
    /\ status # "ok" => next = 1 /\ loaded = "no"
    /\ status = "ok" => next \in 1 .. Len(outfile) + 1
    /\ status = "ok" /\ loaded # "bad" => Holds(next)
    /\ loaded = "yes" => next = Len(outfile) + 1

\* What is in the .yo file, without an error.
OutputInv ==
    ~hit_error =>
        /\ IsOutfile
        /\ pass = 1 => outfile = <<>>
        /\ pass = 2 => Recorded(lineno)

\* The file and the memory hold the lines of code.
FetchInv == OutputInv /\ LoadInv

-----------------------------------------------------------------------------

\* print_code writes an address that fits as it is.
LEMMA Hex ==
    ASSUME NEW p \in Int
    PROVE  hexstuff(p) \in Nat /\ (0 <= p /\ p < Limit => hexstuff(p) = p)
<1> DEFINE m == IF p >= Short THEN Limit ELSE Short
<1>1. m \in Nat /\ m > 0 /\ (0 <= p /\ p < Limit => p < m)
  BY SizesAssumption
<1>2. hexstuff(p) = p % m
  BY DEF hexstuff
<1>3. \A q \in Nat \ {0} : p % q \in Nat /\ (0 <= p /\ p < q => p % q = p)
  OBVIOUS
<1> HIDE DEF m
<1> QED
  BY <1>1, <1>2, <1>3

\* What a line says only depends on the file and the addresses of pass 1.
LEMMA SaysSame ==
    ASSUME src' = src, passone' = passone
    PROVE  /\ \A i, b : Says(i, b)' <=> Says(i, b)
           /\ CodeLines' = CodeLines
           /\ \A i : SizeOf(i)' = SizeOf(i)
           /\ \A o, i : Entry(o, i)' <=> Entry(o, i)
<1>1. \A i : Toks(i)' = Toks(i) /\ Name(i)' = Name(i) /\ StatementAt(i)' = StatementAt(i)
  BY LinesSame
<1>2. \A i, k : Op(i, k)' = Op(i, k)
  BY <1>1 DEF Op
<1>3. \A i, shape : Fits(i, shape)' <=> Fits(i, shape)
  BY <1>1, <1>2 DEF Fits
<1>4. \A i : Shape(i)' = Shape(i)
  BY <1>1, <1>3 DEF Shape
<1>5. \A i, kind : Places(i, kind)' = Places(i, kind)
  BY <1>4 DEF Places
<1>6. \A i : RegistersOf(i)' = RegistersOf(i)
  BY <1>1, <1>2, <1>5 DEF RegistersOf
<1>7. \A t : LabelAt(t)' = LabelAt(t)
  BY <1>1 DEF LabelAt
<1>8. \A i : Number(i)' = Number(i)
  BY <1>2, <1>5, <1>7 DEF Number
<1>9. \A i, b : Says(i, b)' <=> Says(i, b)
  BY <1>1, <1>6, <1>8 DEF Says, DataIs, FetchIs
<1>10. CodeLines' = CodeLines
  BY <1>1 DEF CodeLines
<1>11. \A i : SizeOf(i)' = SizeOf(i)
  BY <1>1 DEF SizeOf
<1>12. \A o, i : Entry(o, i)' <=> Entry(o, i)
  BY <1>9, <1>11 DEF Entry
<1> QED
  BY <1>9, <1>10, <1>11, <1>12

\* One more line of the .yo file.
LEMMA OneMore ==
    ASSUME NEW f, \E S : f \in Seq(S), NEW o
    PROVE  /\ \E S : Append(f, o) \in Seq(S)
           /\ Len(f) \in Nat /\ Len(Append(f, o)) = Len(f) + 1
           /\ \A k \in 1 .. Len(f) : Append(f, o)[k] = f[k]
           /\ Append(f, o)[Len(f) + 1] = o
<1>1. PICK S : f \in Seq(S)
  OBVIOUS
<1> DEFINE T == S \cup {o}
<1>2. f \in Seq(T) /\ o \in T
  BY <1>1
<1> HIDE DEF T
<1>3. Append(f, o) \in Seq(T)
  BY <1>2
<1>4. /\ Len(f) \in Nat /\ Len(Append(f, o)) = Len(f) + 1
      /\ \A k \in 1 .. Len(f) : Append(f, o)[k] = f[k]
      /\ Append(f, o)[Len(f) + 1] = o
  BY <1>2
<1> QED
  BY <1>3, <1>4

\* The bytes of a line of code.
LEMMA EntryIs ==
    ASSUME NEW o, NEW i, SizeOf(i) \in 1 .. 10, passone[i] \in Int, Entry(o, i)
    PROVE  /\ IsOut(o) /\ Len(o.bytes) = SizeOf(i) /\ o.pos = hexstuff(passone[i])
           /\ Fills(o) = Covers(i)
           /\ o.bytes # <<>>
<1>1. PICK b : /\ b = [x \in 0 .. SizeOf(i) - 1 |-> b[x]]
               /\ o = [pos |-> hexstuff(passone[i]), bytes |-> [x \in 1 .. SizeOf(i) |-> b[x - 1]]]
  BY DEF Entry
<1> DEFINE n == SizeOf(i)
           s == [x \in 1 .. n |-> b[x - 1]]
<1>2. o.pos = hexstuff(passone[i]) /\ o.bytes = s
  BY <1>1
<1>3. hexstuff(passone[i]) \in Nat
  BY Hex
<1>4. n \in Nat /\ n >= 1
  OBVIOUS
<1> HIDE DEF n
<1>5. Len(s) = n
  <2> DEFINE S == {b[x - 1] : x \in 1 .. n}
  <2>1. \A x \in 1 .. n : b[x - 1] \in S
    OBVIOUS
  <2> HIDE DEF S
  <2>2. s \in [1 .. n -> S]
    BY <2>1
  <2>3. s \in Seq(S) /\ DOMAIN s = 1 .. n
    BY <1>4, <2>2
  <2> HIDE DEF s
  <2> QED
    BY <1>4, <2>3
<1>6. s # <<>>
  BY <1>4, <1>5
<1> HIDE DEF s
<1>7. IsOut(o) /\ Len(o.bytes) = n
  BY <1>2, <1>3, <1>4, <1>5 DEF IsOut
<1>8. Fills(o) = Covers(i)
  BY <1>2, <1>5 DEF Fills, Covers, n, SizeOf
<1> QED
  BY <1>2, <1>6, <1>7, <1>8 DEF n

\* A line of the .yo file with an address only.
NoBytes(o) == o.pos \in Nat /\ o.bytes = <<>>

\* What a step in a line without an error writes: in pass 2 the bytes of the
\* line if it has some, otherwise at most an address.
LEMMA Writes ==
    ASSUME YasInv, ErrorInv, Next, Reading, ~hit_error, ~hit_error', NEW n, n = lineno
    PROVE  /\ pass = 1 => outfile' = outfile
           /\ pass = 2 /\ n \in CodeLines =>
                  \E o : Entry(o, n) /\ outfile' = Append(outfile, o)
           /\ pass = 2 /\ n \notin CodeLines =>
                  outfile' = outfile \/ \E o : NoBytes(o) /\ outfile' = Append(outfile, o)
<1>0. Counters /\ Typed /\ Len(src) \in Nat /\ DOMAIN src = 1 .. Len(src)
  BY SourceLine DEF YasInv, ErrorInv
<1>1. /\ n \in 1 .. Len(src) /\ n \in DOMAIN src /\ Tokens = Toks(n) /\ Toks(n) \in Seq(Token)
      /\ (ErrorPending <=> Refused) /\ (Refused <=> src[n].text = "refused")
      /\ bytepos = passone[n]
      /\ Labelled <=> TokAt(Toks(n), 1).type = "IDENT"
  BY InLine
<1>2. bytepos \in Int
  BY <1>0 DEF Typed
<1>3. ASSUME NEW p \in Int, outfile' = print_code(p, <<>>)
      PROVE  \E o : NoBytes(o) /\ outfile' = Append(outfile, o)
  <2> DEFINE o == [pos |-> hexstuff(p), bytes |-> <<>>]
  <2>1. NoBytes(o)
    BY Hex DEF NoBytes
  <2>2. outfile' = Append(outfile, o)
    BY <1>3 DEF print_code
  <2> QED
    BY <2>1, <2>2
<1>4. Toks(n) = <<>> => n \notin CodeLines
  <2>1. TOK_ERR.type = "ERR"
    BY DEF TOK_ERR, Tok
  <2>2. Toks(n) = <<>> => Name(n) = TOK_ERR
    BY DEF Name, TokAt
  <2> QED
    BY <2>1, <2>2 DEF CodeLines
<1>5. CASE LastLine
  <2>1. outfile' = outfile /\ src[n].end \in {"eof", "bad_eof"}
    BY <1>5 DEF LastLine
  <2>2. ASSUME pass = 2 PROVE Toks(n) = <<>>
    <3>1. GoodLine(n)
      BY <2>2, ReadsRight
    <3> QED
      BY <2>1, <3>1 DEF GoodLine
  <2> QED
    BY <1>4, <2>1, <2>2
<1>6. CASE EmptyLine
  <2>1. outfile' = outfile /\ Toks(n) = <<>>
    BY <1>1, <1>6 DEF EmptyLine
  <2> QED
    BY <1>4, <2>1
<1>7. CASE LabelOnly
  <2>1. /\ Labelled /\ Len(Tokens) = 2
        /\ outfile' = (IF pass = 2 THEN print_code(bytepos, <<>>) ELSE outfile)
    BY <1>7 DEF LabelOnly
  <2>2. n \notin CodeLines
    BY <1>1, <2>1, LabelOnlyLine DEF CodeLines
  <2> QED
    BY <1>2, <1>3, <2>1, <2>2
<1>8. CASE Directive
  <2>1. /\ Statement /\ IsDirective /\ bytepos' = NewPos
        /\ outfile' = (IF pass = 2 THEN print_code(NewPos, <<>>) ELSE outfile)
    BY <1>8 DEF Directive
  <2>2. n \notin CodeLines
    BY <2>1, DirectiveRight DEF CodeLines
  <2>3. NewPos \in Int
    BY <2>1, ReadsRight
  <2> QED
    BY <1>3, <2>1, <2>2, <2>3
<1>9. CASE Measure
  BY <1>9 DEF Measure
<1>10. CASE Generate
  <2>1. /\ Statement /\ IsInstruction /\ pass = 2 /\ Encoding.ok
        /\ outfile' = (IF Encoding.printed
                       THEN print_code(bytepos, [i \in 1 .. size |-> Encoding.code[i - 1]])
                       ELSE outfile)
    BY <1>10 DEF Generate
  <2>2. /\ Name(n).type = "INSTR" /\ Name(n).val \in Instr /\ Name(n).val \notin {".pos", ".align"}
        /\ Tokens[At].val = Name(n).val
        /\ GoodStatement(n) /\ Encoding.printed = TRUE
    BY <2>1, InstructionRight
  <2>3. n \in CodeLines
    BY <1>1, <2>2 DEF CodeLines
  <2>4. Encoding = Encode(Toks(n), StatementAt(n), symbol_table, code)
    BY InLine
  <2>5. LineRight(n, symbol_table, code)
    BY <1>1, <2>1, <2>2, LineRightNow
  <2> DEFINE b == [k \in 0 .. SizeOf(n) - 1 |-> Encoding.code[k]]
             o == [pos |-> hexstuff(passone[n]), bytes |-> [x \in 1 .. SizeOf(n) |-> b[x - 1]]]
  <2>6. Says(n, b)
    BY <2>2, <2>4, <2>5 DEF LineRight, SizeOf
  <2>7. b = [x \in 0 .. SizeOf(n) - 1 |-> b[x]]
    OBVIOUS
  <2>8. Entry(o, n)
    <3> HIDE DEF b
    <3> QED
      BY <2>6, <2>7 DEF Entry
  <2>9. outfile' = Append(outfile, o)
    <3>1. size = SizeOf(n) /\ SizeOf(n) \in 1 .. 10
      BY <2>2, Bytes DEF size, SizeOf
    <3>2. \A x \in 1 .. SizeOf(n) : b[x - 1] = Encoding.code[x - 1]
      BY <3>1
    <3>3. [i \in 1 .. size |-> Encoding.code[i - 1]] = [x \in 1 .. SizeOf(n) |-> b[x - 1]]
      <4> HIDE DEF b
      <4> QED
        BY <3>1, <3>2
    <3> HIDE DEF b
    <3> QED
      BY <1>1, <2>1, <2>2, <3>3 DEF print_code
  <2>10. \E q : Entry(q, n) /\ outfile' = Append(outfile, q)
    <3> HIDE DEF o
    <3> QED
      BY <2>8, <2>9
  <2>11. pass = 2
    BY <2>1
  <2> QED
    BY <2>3, <2>10, <2>11
<1>11. ~ErrorLine
  BY <1>1 DEF ErrorLine, fail_if_refused
<1>12. ~InvalidLine /\ ~MissingColon /\ ~BadInstruction /\ ~BadDirective /\ ~AddressLimit
  BY DEF InvalidLine, MissingColon, BadInstruction, BadDirective, AddressLimit, fail
<1>13. ~EndPass1 /\ ~EndPass2 /\ ~LoadLine /\ ~LoadEnds /\ ~Overrun
  BY <1>0, ReadingOnly
<1> QED
  BY <1>5, <1>6, <1>7, <1>8, <1>9, <1>10, <1>11, <1>12, <1>13 DEF Next, Assemble

\* The sizes and addresses of the lines of code, without an error.
LEMMA CodeLine ==
    ASSUME YasInv, ErrorInv, ~hit_error, NEW i \in CodeLines
    PROVE  SizeOf(i) \in 1 .. 10 /\ passone[i] \in Int /\ Toks(i) # <<>>
<1>1. Len(src) \in Nat /\ DOMAIN src = 1 .. Len(src)
  BY SourceLine DEF YasInv
<1>2. i \in 1 .. Len(src) /\ Name(i).type = "INSTR" /\ Name(i).val \notin {".pos", ".align"}
  BY <1>1 DEF CodeLines
<1>3. Toks(i) \in Seq(Token)
  BY <1>2, SourceLine DEF YasInv, Toks
<1>4. Name(i).val \in Instr
  BY <1>2, <1>3, Kinds DEF Name
<1>5. SizeOf(i) \in 1 .. 10
  BY <1>2, <1>4, Bytes DEF SizeOf
<1>6. passone[i] \in Int
  BY <1>1, <1>2 DEF ErrorInv, Typed
<1>7. Toks(i) # <<>>
  <2>1. TOK_ERR.type = "ERR"
    BY DEF TOK_ERR, Tok
  <2>2. Toks(i) = <<>> => Name(i) = TOK_ERR
    BY DEF Name, TokAt
  <2> QED
    BY <1>2, <2>1, <2>2
<1> QED
  BY <1>5, <1>6, <1>7

\* A line adds its bytes to the .yo file, or none.
LEMMA OutputGrows ==
    ASSUME YasInv, ErrorInv, OutputInv, Next, Reading, ~hit_error, ~hit_error', NEW n, n = lineno
    PROVE  OutputInv'
<1>0. /\ IsOutfile /\ (pass = 1 => outfile = <<>>) /\ (pass = 2 => Recorded(n))
      /\ pass \in {1, 2}
  BY DEF OutputInv, YasInv, Counters
<1>1. src' = src /\ pass' = pass /\ lineno' = n + 1 /\ (pass = 2 => passone' = passone)
  BY ReadingMoves DEF NextLine
<1>2. CASE pass = 1
  <2>1. outfile' = outfile
    BY <1>2, Writes
  <2>2. IsOutfile'
    BY <1>0, <2>1 DEF IsOutfile
  <2> QED
    BY <1>0, <1>1, <1>2, <2>1, <2>2 DEF OutputInv
<1>3. CASE pass = 2
  <2>1. /\ CodeLines' = CodeLines
        /\ \A o, i : Entry(o, i)' <=> Entry(o, i)
    BY <1>1, <1>3, SaysSame
  <2> DEFINE f == outfile'
             Later(i, o) == \E j \in CodeLines : j > i /\ j < n + 1 /\ Entry(o, j)
  <2>n. n \in Nat
    BY SourceLine DEF YasInv, Counters
  <2>2. \A i \in CodeLines : i \in Nat
    <3>1. DOMAIN src = 1 .. Len(src) /\ Len(src) \in Nat
      BY SourceLine DEF YasInv
    <3> QED
      BY <3>1 DEF CodeLines
  <2>3. \A i \in CodeLines : i < n => \E k \in 1 .. Len(outfile) :
            /\ Entry(outfile[k], i)
            /\ \A k2 \in 1 .. Len(outfile) : k2 > k /\ outfile[k2].bytes # <<>> => Later(i, outfile[k2])
    <3> SUFFICES ASSUME NEW i \in CodeLines, i < n
                 PROVE  \E k \in 1 .. Len(outfile) :
                            /\ Entry(outfile[k], i)
                            /\ \A k2 \in 1 .. Len(outfile) : k2 > k /\ outfile[k2].bytes # <<>> => Later(i, outfile[k2])
      OBVIOUS
    <3>1. PICK k \in 1 .. Len(outfile) :
            /\ Entry(outfile[k], i)
            /\ \A k2 \in 1 .. Len(outfile) : k2 > k /\ outfile[k2].bytes # <<>> =>
                   \E j \in CodeLines : j > i /\ j < n /\ Entry(outfile[k2], j)
      BY <1>0, <1>3 DEF Recorded
    <3>2. \A j \in CodeLines : j < n => j < n + 1
      BY <2>2, <2>n
    <3> QED
      BY <3>1, <3>2
  <2>5. CASE f = outfile /\ n \notin CodeLines
    <3>1. \A i \in CodeLines : i < n + 1 => i < n
      BY <2>2, <2>5, <2>n
    <3>2. \A i \in CodeLines : i < n + 1 => \E k \in 1 .. Len(f) :
            /\ Entry(f[k], i)
            /\ \A k2 \in 1 .. Len(f) : k2 > k /\ f[k2].bytes # <<>> => Later(i, f[k2])
      BY <2>3, <2>5, <3>1
    <3>3. Recorded(n + 1)'
      BY <2>1, <3>2 DEF Recorded
    <3>4. IsOutfile'
      BY <1>0, <2>5 DEF IsOutfile
    <3> QED
      BY <1>1, <1>3, <3>3, <3>4 DEF OutputInv
  <2>6. ASSUME NEW o, f = Append(outfile, o), IsOut(o),
               \/ n \in CodeLines /\ Entry(o, n) /\ o.bytes # <<>>
               \/ n \notin CodeLines /\ o.bytes = <<>>
        PROVE  OutputInv'
    <3> DEFINE m == Len(outfile)
    <3>1. /\ \E S : f \in Seq(S)
          /\ m \in Nat /\ Len(f) = m + 1 /\ (\A k \in 1 .. m : f[k] = outfile[k]) /\ f[m + 1] = o
      <4> DEFINE a == Append(outfile, o)
      <4>1. \E S : outfile \in Seq(S)
        BY <1>0 DEF IsOutfile
      <4>2. /\ \E S : a \in Seq(S)
            /\ m \in Nat /\ Len(a) = m + 1 /\ (\A k \in 1 .. m : a[k] = outfile[k]) /\ a[m + 1] = o
        BY <4>1, OneMore
      <4>3. f = a
        BY <2>6
      <4> HIDE DEF a, f, m
      <4> QED
        BY <4>2, <4>3
    <3>2. IsOutfile'
      <4>1. \A k \in 1 .. m : IsOut(f[k])
        BY <1>0, <3>1 DEF IsOutfile
      <4>2. \A k \in 1 .. m + 1 : IsOut(f[k])
        <5> TAKE k \in 1 .. m + 1
        <5>1. k = m + 1 \/ k \in 1 .. m
          BY <3>1
        <5> QED
          BY <2>6, <3>1, <4>1, <5>1
      <4> HIDE DEF m
      <4> QED
        BY <3>1, <4>2 DEF IsOutfile
    <3>3. ASSUME NEW i \in CodeLines, i < n + 1
          PROVE  \E k \in 1 .. m + 1 :
                     /\ Entry(f[k], i)
                     /\ \A k2 \in 1 .. m + 1 : k2 > k /\ f[k2].bytes # <<>> => Later(i, f[k2])
      <4>1. CASE i = n
        <5>1. Entry(f[m + 1], i) /\ m + 1 \in 1 .. m + 1
          BY <2>6, <3>1, <4>1
        <5>2. \A k2 \in 1 .. m + 1 : ~(k2 > m + 1)
          BY <3>1
        <5> QED
          BY <5>1, <5>2
      <4>2. CASE i # n
        <5>1. i < n
          BY <2>2, <2>n, <3>3, <4>2
        <5>2. PICK k \in 1 .. m :
            /\ Entry(outfile[k], i)
            /\ \A k2 \in 1 .. m : k2 > k /\ outfile[k2].bytes # <<>> => Later(i, outfile[k2])
          BY <2>3, <5>1
        <5>3. k \in 1 .. m + 1 /\ Entry(f[k], i)
          BY <3>1, <5>2
        <5>4. ASSUME NEW k2 \in 1 .. m + 1, k2 > k, f[k2].bytes # <<>> PROVE Later(i, f[k2])
          <6>1. CASE k2 \in 1 .. m
            <7>1. f[k2] = outfile[k2]
              BY <3>1, <6>1
            <7> QED
              BY <5>2, <5>4, <6>1, <7>1
          <6>2. CASE k2 = m + 1
            <7>1. f[k2] = o /\ n \in CodeLines /\ Entry(o, n)
              BY <2>6, <3>1, <5>4, <6>2
            <7>2. n > i /\ n < n + 1
              BY <2>2, <2>n, <5>1
            <7> QED
              BY <7>1, <7>2
          <6>3. k2 \in 1 .. m \/ k2 = m + 1
            BY <3>1
          <6> QED
            BY <6>1, <6>2, <6>3
        <5> HIDE DEF Later
        <5> QED
          BY <5>3, <5>4
      <4> QED
        BY <4>1, <4>2
    <3>4. Recorded(n + 1)'
      <4>1. \A i \in CodeLines : i < n + 1 => \E k \in 1 .. Len(f) :
                     /\ Entry(f[k], i)
                     /\ \A k2 \in 1 .. Len(f) : k2 > k /\ f[k2].bytes # <<>> => Later(i, f[k2])
        <5> HIDE DEF Later, m, f
        <5> QED
          BY <3>1, <3>3
      <4> QED
        BY <2>1, <4>1 DEF Recorded
    <3> QED
      BY <1>1, <1>3, <3>2, <3>4 DEF OutputInv
  <2>7. CASE n \in CodeLines
    <3>1. PICK o : Entry(o, n) /\ f = Append(outfile, o)
      BY <1>3, <2>7, Writes
    <3>2. IsOut(o) /\ o.bytes # <<>>
      BY <2>7, <3>1, CodeLine, EntryIs
    <3> QED
      BY <2>6, <2>7, <3>1, <3>2
  <2>8. CASE n \notin CodeLines
    <3>1. f = outfile \/ \E o : NoBytes(o) /\ f = Append(outfile, o)
      BY <1>3, <2>8, Writes
    <3>2. ASSUME NEW o, NoBytes(o) PROVE IsOut(o) /\ o.bytes = <<>>
      BY <3>2 DEF NoBytes, IsOut
    <3> QED
      BY <2>5, <2>6, <2>8, <3>1, <3>2
  <2> QED
    BY <2>7, <2>8
<1> QED
  BY <1>0, <1>2, <1>3

\* FetchInv holds at first.
LEMMA InitFetch == Init => FetchInv
<1> SUFFICES ASSUME Init PROVE FetchInv
  OBVIOUS
<1>1. outfile = <<>> /\ pass = 1 /\ status = "running" /\ next = 1 /\ loaded = "no"
      /\ mem = [a \in 0 .. MemLen - 1 |-> 0]
  BY DEF Init
<1>2. IsOutfile
  <2>1. <<>> \in Seq({}) /\ Len(<<>>) = 0
    OBVIOUS
  <2> QED
    BY <1>1, <2>1 DEF IsOutfile
<1>3. OutputInv
  BY <1>1, <1>2 DEF OutputInv
<1>4. LoadInv
  BY <1>1 DEF LoadInv
<1> QED
  BY <1>3, <1>4 DEF FetchInv

\* One more line in the memory.
LEMMA HoldsMore ==
    ASSUME LoadInv, IsOutfile, LoadLine, loaded' # "bad"
    PROVE  Holds(next)'
<1>0. /\ DOMAIN mem = 0 .. MemLen - 1 /\ next \in 1 .. Len(outfile) /\ Holds(next)
      /\ Len(outfile) \in Nat /\ MemLen \in Nat /\ outfile' = outfile
  <2>1. status = "ok" /\ loaded = "no" /\ next <= Len(outfile) /\ outfile' = outfile
    BY DEF LoadLine
  <2>2. Len(outfile) \in Nat
    BY OneMore DEF IsOutfile
  <2>3. DOMAIN mem = 0 .. MemLen - 1 /\ next \in 1 .. Len(outfile) + 1 /\ Holds(next)
    BY <2>1 DEF LoadInv
  <2> QED
    BY <2>1, <2>2, <2>3, SizesAssumption
<1> DEFINE o == outfile[next]
           last == o.pos + Len(o.bytes) - 1
<1>1. mem' = [a \in DOMAIN mem |-> IF a \in o.pos .. last THEN o.bytes[a - o.pos + 1] ELSE mem[a]]
  BY DEF LoadLine
<1>2. o.bytes = <<>> \/ ~(last >= MemLen)
  BY DEF LoadLine
<1>3. IsOut(o)
  BY <1>0 DEF IsOutfile
<1>4. Fills(o) = o.pos .. last
  BY DEF Fills
<1>5. Fills(o) \subseteq 0 .. MemLen - 1
  <2>1. CASE o.bytes = <<>>
    <3>1. Len(o.bytes) = 0
      BY <2>1
    <3>2. Fills(o) = {}
      BY <1>3, <3>1 DEF Fills, IsOut
    <3> QED
      BY <3>2
  <2>2. CASE ~(last >= MemLen)
    <3>1. o.pos \in Nat /\ Len(o.bytes) \in Nat
      BY <1>3 DEF IsOut
    <3> QED
      BY <1>0, <1>4, <2>2, <3>1
  <2> QED
    BY <1>2, <2>1, <2>2
<1>6. /\ \A a \in Fills(o) : mem'[a] = o.bytes[a - o.pos + 1]
      /\ \A a \in 0 .. MemLen - 1 : a \notin Fills(o) => mem'[a] = mem[a]
  BY <1>0, <1>1, <1>4, <1>5
<1> HIDE DEF o
<1>n. next \in Nat /\ next >= 1
  BY <1>0
<1>7. ASSUME NEW k \in 1 .. next
      PROVE  /\ Fills(outfile[k]) \subseteq 0 .. MemLen - 1
             /\ \A a \in Fills(outfile[k]) :
                    (\A k2 \in k + 1 .. next : a \notin Fills(outfile[k2])) =>
                        mem'[a] = outfile[k].bytes[a - outfile[k].pos + 1]
  <2>1. CASE k = next
    <3>1. outfile[k] = o
      BY <2>1 DEF o
    <3> QED
      BY <1>5, <1>6, <3>1
  <2>2. CASE k # next
    <3>1. k \in 1 .. next - 1
      BY <1>n, <2>2
    <3>2. /\ Fills(outfile[k]) \subseteq 0 .. MemLen - 1
          /\ \A a \in Fills(outfile[k]) :
                 (\A k2 \in k + 1 .. next - 1 : a \notin Fills(outfile[k2])) =>
                     mem[a] = outfile[k].bytes[a - outfile[k].pos + 1]
      BY <1>0, <3>1 DEF Holds
    <3>3. ASSUME NEW a \in Fills(outfile[k]), \A k2 \in k + 1 .. next : a \notin Fills(outfile[k2])
          PROVE  mem'[a] = outfile[k].bytes[a - outfile[k].pos + 1]
      <4>1. next \in k + 1 .. next /\ \A k2 \in k + 1 .. next - 1 : k2 \in k + 1 .. next
        BY <1>n, <3>1
      <4>2. a \notin Fills(o)
        BY <3>3, <4>1 DEF o
      <4>3. mem'[a] = mem[a]
        BY <1>6, <3>2, <4>2
      <4> QED
        BY <3>2, <3>3, <4>1, <4>3
    <3> QED
      BY <3>2, <3>3
  <2> QED
    BY <2>1, <2>2
<1>8. next' = next + 1
  BY DEF LoadLine
<1>9. next' - 1 = next
  BY <1>8, <1>n
<1> QED
  BY <1>0, <1>7, <1>9 DEF Holds, Fills

\* The end of the passes and load_mem leave the .yo file alone.
LEMMA OutputSame ==
    ASSUME OutputInv, UNCHANGED <<src, pass, lineno, outfile, passone>>, ~hit_error' => ~hit_error
    PROVE  OutputInv'
<1>1. /\ CodeLines' = CodeLines
      /\ \A o, i : Entry(o, i)' <=> Entry(o, i)
  BY SaysSame
<1>2. \A n : Recorded(n)' <=> Recorded(n)
  BY <1>1 DEF Recorded
<1>3. IsOutfile' <=> IsOutfile
  BY DEF IsOutfile
<1> QED
  BY <1>2, <1>3 DEF OutputInv

\* FetchInv holds after every step.
LEMMA FetchKeeps == YasInv /\ ErrorInv /\ FetchInv /\ [Next]_vars => FetchInv'
<1> SUFFICES ASSUME YasInv, ErrorInv, FetchInv, [Next]_vars PROVE FetchInv'
  OBVIOUS
<1>0. Counters /\ Outcome /\ OutputInv /\ LoadInv /\ Len(src) \in Nat /\ DOMAIN src = 1 .. Len(src)
  BY SourceLine DEF YasInv, ErrorInv, FetchInv
<1>1. CASE UNCHANGED vars
  <2>1. UNCHANGED <<src, pass, lineno, outfile, passone, hit_error, status, mem, next, loaded>>
    BY <1>1 DEF vars, load
  <2>2. OutputInv'
    BY <1>0, <2>1, OutputSame
  <2>3. LoadInv'
    BY <1>0, <2>1 DEF LoadInv, Holds
  <2> QED
    BY <2>2, <2>3 DEF FetchInv
<1>2. ASSUME status # "ok", status' # "ok", UNCHANGED load PROVE LoadInv'
  <2>1. UNCHANGED <<mem, next, loaded>>
    BY <1>2 DEF load
  <2>2. DOMAIN mem = 0 .. MemLen - 1 /\ next = 1 /\ loaded = "no"
    BY <1>0, <1>2 DEF LoadInv
  <2> QED
    BY <1>2, <2>1, <2>2 DEF LoadInv
<1>3. CASE Next /\ Reading
  <2>1. NextLine \/ AddressLimit
    BY <1>0, <1>3, ReadingSteps
  <2>2. LoadInv'
    BY <1>2, <1>3, <2>1 DEF NextLine, AddressLimit, Reading, Input
  <2>3. CASE hit_error'
    BY <2>2, <2>3 DEF FetchInv, OutputInv
  <2>4. CASE ~hit_error'
    <3>1. ~hit_error
      BY <1>0, <1>3, <2>4, ReadingSteps
    <3>2. PICK n : n = lineno
      OBVIOUS
    <3>3. OutputInv'
      BY <1>0, <1>3, <2>4, <3>1, <3>2, OutputGrows
    <3> QED
      BY <2>2, <3>3 DEF FetchInv
  <2> QED
    BY <2>3, <2>4
<1>4. CASE EndPass1
  <2>1. LoadInv'
    <3>1. status = "running" /\ status' \in {"running", "error"} /\ UNCHANGED load
      BY <1>4 DEF EndPass1, EndOfFile
    <3> QED
      BY <1>2, <3>1
  <2>2. CASE hit_error'
    BY <2>1, <2>2 DEF FetchInv, OutputInv
  <2>3. CASE ~hit_error'
    <3>1. ~hit_error /\ pass = 1 /\ pass' = 2 /\ lineno' = 1 /\ UNCHANGED <<src, outfile, passone>>
      BY <1>4, <2>3 DEF EndPass1, Wrapped
    <3>2. IsOutfile'
      BY <1>0, <3>1 DEF OutputInv, IsOutfile
    <3>3. CodeLines' = CodeLines
      BY <3>1, SaysSame
    <3>4. \A i \in CodeLines : ~(i < 1)
      BY <1>0 DEF CodeLines
    <3>5. Recorded(lineno)'
      BY <3>1, <3>3, <3>4 DEF Recorded
    <3>6. OutputInv'
      BY <3>1, <3>2, <3>5 DEF OutputInv
    <3> QED
      BY <2>1, <3>6 DEF FetchInv
  <2> QED
    BY <2>2, <2>3
<1>5. CASE EndPass2
  <2>1. /\ status = "running" /\ UNCHANGED <<src, pass, lineno, outfile, passone, mem, next, loaded>>
        /\ ~hit_error' => ~hit_error
        /\ status' = IF Wrapped THEN "error" ELSE "ok"
        /\ status' = "ok" => ~hit_error
    BY <1>5 DEF EndPass2, EndOfFile, Wrapped, load
  <2>2. OutputInv'
    BY <1>0, <2>1, OutputSame
  <2>3. CASE status' # "ok"
    BY <1>2, <2>1, <2>2, <2>3 DEF FetchInv, load
  <2>4. CASE status' = "ok"
    <3>1. IsOutfile
      BY <1>0, <2>1, <2>4 DEF OutputInv
    <3>2. Len(outfile) \in Nat
      BY <3>1, OneMore DEF IsOutfile
    <3>3. DOMAIN mem = 0 .. MemLen - 1 /\ next = 1 /\ loaded = "no"
      BY <1>0, <2>1 DEF LoadInv
    <3>4. Holds(next)'
      BY <2>1, <3>3 DEF Holds
    <3>5. next' \in 1 .. Len(outfile') + 1
      BY <2>1, <3>2, <3>3
    <3>6. LoadInv'
      BY <2>1, <2>4, <3>3, <3>4, <3>5 DEF LoadInv
    <3> QED
      BY <2>2, <3>6 DEF FetchInv
  <2> QED
    BY <2>3, <2>4
<1>6. CASE LoadLine \/ LoadEnds
  <2>1. /\ UNCHANGED <<src, pass, lineno, outfile, passone, hit_error, status>>
        /\ status = "ok"
    BY <1>6 DEF LoadLine, LoadEnds
  <2>2. OutputInv'
    BY <1>0, <2>1, OutputSame
  <2>3. ~hit_error /\ IsOutfile /\ Len(outfile) \in Nat
    <3>1. ~hit_error /\ IsOutfile
      BY <1>0, <2>1 DEF Outcome, OutputInv
    <3> QED
      BY <3>1, OneMore DEF IsOutfile
  <2>4. DOMAIN mem = 0 .. MemLen - 1 /\ next \in 1 .. Len(outfile) + 1
    BY <1>0, <2>1 DEF LoadInv
  <2>5. CASE LoadLine
    <3>1. /\ loaded' \in {"bad", "no"} /\ next' = next + 1 /\ next <= Len(outfile)
          /\ DOMAIN mem' = DOMAIN mem
      BY <2>5 DEF LoadLine
    <3>2. next' \in 1 .. Len(outfile) + 1
      BY <2>3, <2>4, <3>1
    <3>3. loaded' # "bad" => Holds(next)'
      BY <1>0, <2>3, <2>5, HoldsMore
    <3>4. LoadInv'
      BY <2>1, <2>4, <3>1, <3>2, <3>3 DEF LoadInv
    <3> QED
      BY <2>2, <3>4 DEF FetchInv
  <2>6. CASE LoadEnds
    <3>1. /\ loaded = "no" /\ loaded' = "yes" /\ UNCHANGED <<mem, next>> /\ next > Len(outfile)
      BY <2>6 DEF LoadEnds
    <3>2. next = Len(outfile) + 1
      BY <2>3, <2>4, <3>1
    <3>3. Holds(next)
      BY <1>0, <2>1, <3>1 DEF LoadInv
    <3>4. Holds(next)'
      BY <2>1, <3>1, <3>3 DEF Holds
    <3>5. LoadInv'
      BY <2>1, <2>4, <3>1, <3>2, <3>4 DEF LoadInv
    <3> QED
      BY <2>2, <3>5 DEF FetchInv
  <2> QED
    BY <1>6, <2>5, <2>6
<1>7. CASE Overrun
  <2>1. /\ UNCHANGED <<src, pass, lineno, outfile, passone, hit_error>> /\ UNCHANGED load
        /\ status = "running" /\ status' = "undefined"
    BY <1>7 DEF Overrun, Input
  <2>2. OutputInv'
    BY <1>0, <2>1, OutputSame
  <2> QED
    BY <1>2, <2>1, <2>2 DEF FetchInv
<1> QED
  BY <1>1, <1>3, <1>4, <1>5, <1>6, <1>7 DEF Next, Assemble, InvalidLine, LastLine, EmptyLine, ErrorLine,
     MissingColon, LabelOnly, BadInstruction, BadDirective, Directive, Measure, Generate,
     AddressLimit, Complete, Finishing, Statement

\* isa.c 276-348, 644-674 and 683-935, yas.c 195-291: for every file that yas
\* accepts, the simulators fetch from the loaded memory what each line says.
THEOREM FetchAlwaysRecovers == Spec => []FetchRecoversSource
<1>1. YasInv /\ ErrorInv /\ FetchInv => FetchRecoversSource
  <2> SUFFICES ASSUME YasInv, ErrorInv, FetchInv, loaded = "yes", NEW i \in CodeLines,
                      passone[i] >= 0, \A j \in CodeLines : j > i => Covers(i) \cap Covers(j) = {}
               PROVE  Says(i, [k \in 0 .. find_instr(Name(i).val).bytes - 1 |-> mem[passone[i] + k]])
    BY DEF FetchRecoversSource
  <2>0. Len(src) \in Nat /\ DOMAIN src = 1 .. Len(src)
    BY SourceLine DEF YasInv
  <2>1. status = "ok" /\ next = Len(outfile) + 1 /\ Holds(next)
    BY DEF FetchInv, LoadInv
  <2>2. ~hit_error /\ pass = 2 /\ lineno = Len(src) + 1
    BY <2>1 DEF ErrorInv, Outcome
  <2>3. Recorded(Len(src) + 1) /\ IsOutfile /\ Len(outfile) \in Nat
    <3>1. Recorded(Len(src) + 1) /\ IsOutfile
      BY <2>2 DEF FetchInv, OutputInv
    <3> QED
      BY <3>1, OneMore DEF IsOutfile
  <2>4. i \in 1 .. Len(src)
    BY <2>0 DEF CodeLines
  <2>5. i < Len(src) + 1
    BY <2>0, <2>4
  <2>6. PICK k \in 1 .. Len(outfile) :
            /\ Entry(outfile[k], i)
            /\ \A k2 \in 1 .. Len(outfile) : k2 > k /\ outfile[k2].bytes # <<>> =>
                   \E j \in CodeLines : j > i /\ j < Len(src) + 1 /\ Entry(outfile[k2], j)
    BY <2>3, <2>5 DEF Recorded
  <2>7. SizeOf(i) \in 1 .. 10 /\ passone[i] \in Int /\ Toks(i) # <<>>
    BY <2>2, CodeLine
  <2>8. hexstuff(passone[i]) = passone[i]
    <3>1. GoodAddress(i)
      <4>1. i \in 1 .. lineno - 1
        BY <2>0, <2>2, <2>4
      <4> QED
        BY <2>2, <4>1 DEF ErrorInv, Right
    <3>2. passone[i] < Limit
      BY <2>7, <3>1 DEF GoodAddress, CodeLines
    <3> QED
      BY <2>7, <3>2, Hex
  <2> DEFINE o == outfile[k]
  <2>9. Fills(o) = Covers(i) /\ o.pos = passone[i] /\ Len(o.bytes) = SizeOf(i)
    BY <2>6, <2>7, <2>8, EntryIs
  <2>10. ASSUME NEW a \in Fills(o), NEW k2 \in k + 1 .. Len(outfile) PROVE a \notin Fills(outfile[k2])
    <3>1. k2 \in 1 .. Len(outfile) /\ k2 > k
      BY <2>3, <2>6, <2>10
    <3>2. CASE outfile[k2].bytes = <<>>
      <4>1. Len(outfile[k2].bytes) = 0
        BY <3>2
      <4>2. outfile[k2].pos \in Nat
        BY <2>3, <3>1 DEF IsOutfile, IsOut
      <4> QED
        BY <4>1, <4>2 DEF Fills
    <3>3. CASE outfile[k2].bytes # <<>>
      <4>1. PICK j \in CodeLines : j > i /\ Entry(outfile[k2], j)
        BY <2>6, <3>1, <3>3
      <4>2. SizeOf(j) \in 1 .. 10 /\ passone[j] \in Int
        BY <2>2, CodeLine
      <4>3. Fills(outfile[k2]) = Covers(j)
        BY <4>1, <4>2, EntryIs
      <4> QED
        BY <2>9, <2>10, <4>1, <4>3
    <3> QED
      BY <3>2, <3>3
  <2>11. \A a \in Fills(o) : mem[a] = o.bytes[a - o.pos + 1]
    <3>1. next - 1 = Len(outfile)
      BY <2>1, <2>3
    <3>2. \A a \in Fills(outfile[k]) :
               (\A k2 \in k + 1 .. Len(outfile) : a \notin Fills(outfile[k2])) =>
                   mem[a] = outfile[k].bytes[a - outfile[k].pos + 1]
      BY <2>1, <2>6, <3>1 DEF Holds
    <3> QED
      BY <2>10, <3>2
  <2>12. PICK b : /\ b = [x \in 0 .. SizeOf(i) - 1 |-> b[x]]
                  /\ Says(i, b)
                  /\ o = [pos |-> hexstuff(passone[i]), bytes |-> [x \in 1 .. SizeOf(i) |-> b[x - 1]]]
    BY <2>6 DEF Entry
  <2> HIDE DEF o
  <2>13. ASSUME NEW x \in 0 .. SizeOf(i) - 1 PROVE mem[passone[i] + x] = b[x]
    <3>1. o.bytes = [y \in 1 .. SizeOf(i) |-> b[y - 1]]
      BY <2>12
    <3>2. passone[i] + x \in Fills(o) /\ (passone[i] + x) - o.pos + 1 = x + 1
      BY <2>7, <2>9 DEF Fills
    <3>3. x + 1 \in 1 .. SizeOf(i) /\ (x + 1) - 1 = x
      BY <2>7
    <3>4. mem[passone[i] + x] = o.bytes[x + 1]
      BY <2>11, <3>2
    <3> QED
      BY <3>1, <3>3, <3>4
  <2>14. [x \in 0 .. SizeOf(i) - 1 |-> mem[passone[i] + x]] = b
    BY <2>12, <2>13
  <2> QED
    BY <2>12, <2>14 DEF SizeOf
<1>2. Init => YasInv /\ ErrorInv /\ FetchInv
  BY InitEstablishes, InitErrors, InitFetch
<1>3. YasInv /\ ErrorInv /\ FetchInv /\ [Next]_vars => (YasInv /\ ErrorInv /\ FetchInv)'
  BY NextKeeps, ErrorsKeep, FetchKeeps
<1> QED
  BY <1>1, <1>2, <1>3, PTL DEF Spec
=============================================================================
