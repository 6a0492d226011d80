-------------------------------- MODULE Yas ---------------------------------
(***************************************************************************)
(* The assembler yas (misc/yas.c with yas-grammar.lex): two passes over    *)
(* the lines of a .ys file, the first for the addresses of the labels, the *)
(* second for the code, and load_mem (misc/isa.c), with which yis, ssim    *)
(* and psim read the .yo file it writes.                                   *)
(*                                                                         *)
(* A line is its tokens and how the lexer leaves it: at a newline or a     *)
(* comment ("newline"), at a character no rule matches ("bad"), or at the  *)
(* end of the file, after such a character or not ("bad_eof", "eof").  It  *)
(* fits in the buffers, or strbuf refuses some of its tokens ("refused"),  *)
(* or it is longer than input_line ("overruns").                           *)
(* One action is one path through finish_line, with the tokens before it.  *)
(***************************************************************************)
EXTENDS YasEncode

CONSTANTS
    Sources,   \* the files to assemble, sequences of lines
    Short,     \* addresses that print_code writes with the fewest digits (0x1000)
    Limit,     \* addresses it can write at all (0x10000)
    MemLen,    \* bytes in the memory that load_mem fills
    IntHalf,   \* an int goes from -IntHalf to IntHalf - 1 (0x80000000)
    TOK_PER_LINE, STAB   \* room for tokens (12) and for labels (1000)

\* What the lexer can give: only a last line has no newline, save_line sees
\* only the others, and strbuf has room for the first string of those.  The
\* tokens of a line are those that strbuf took.
IsFile(f) ==
    /\ f \in Seq([toks : Seq(Token), end : {"newline", "bad", "eof", "bad_eof"},
                  text : {"fits", "refused", "overruns"}])
    /\ \A i \in DOMAIN f :
           IF f[i].end \in {"eof", "bad_eof"} THEN i = Len(f) /\ f[i].text # "overruns"
           ELSE f[i].text = "refused" => f[i].toks # <<>>

ASSUME SourcesAssumption == \A f \in Sources : IsFile(f)

ASSUME SizesAssumption ==
    /\ Short \in Nat \ {0} /\ Limit \in Nat \ {0} /\ MemLen \in Nat
    /\ IntHalf \in Nat \ {0} /\ TOK_PER_LINE \in Nat /\ STAB \in Nat

VARIABLES
    src,
    pass,          \* 1 or 2
    lineno,        \* the line to read
    bytepos,       \* address of the current instruction
    tokens,        \* tokens of the line so far (tcount is their number)
    lex,           \* start condition of the lexer: "INITIAL" or "ERR"
    error_mode,    \* finishing off a line with an error
    hit_error,     \* an error so far
    symbol_table,
    code,          \* encoding of the current instruction
    outfile,       \* the .yo file: addresses and bytes
    status,        \* "running", what main returns ("ok" or "error"), or "undefined"
    passone,       \* history: bytepos before each line in pass 1
    mem, next, loaded   \* load_mem: memory, next line of the .yo file, outcome

line == <<tokens, error_mode>>
load == <<mem, next, loaded>>
vars == <<src, pass, lineno, bytepos, tokens, lex, error_mode, hit_error, symbol_table, code,
          outfile, status, passone, load>>

Init ==
    /\ src \in Sources
    /\ pass = 1 /\ lineno = 1 /\ bytepos = 0
    /\ tokens = <<>> /\ lex = "INITIAL"
    /\ error_mode = FALSE /\ hit_error = FALSE
    /\ symbol_table = <<>>
    /\ code = [i \in 0 .. 9 |-> 0]
    /\ outfile = <<>>
    /\ status = "running"
    /\ passone = [i \in 1 .. Len(src) + 1 |-> 0]
    /\ mem = [a \in 0 .. MemLen - 1 |-> 0] /\ next = 1 /\ loaded = "no"

-----------------------------------------------------------------------------
(* Reading a line.                                                         *)

Input == status = "running" /\ lineno <= Len(src)

\* The tokens when the line ends: those of a line that a bad character cut
\* are still there.  The first token of an empty buffer calls start_line.
Tokens == tokens \o src[lineno].toks

\* A token that strbuf has no room for is left out and the line is wrong;
\* the test of tpos never fires, it is 0 while a line is read.
Refused == src[lineno].text = "refused"

ErrorPending == Refused \/ (error_mode /\ (tokens # <<>> \/ src[lineno].toks = <<>>))

Labelled == TokAt(Tokens, 1).type = "IDENT"

Colon == Punct(Tokens, 2, ":")

AddsLabel == pass = 1 /\ src[lineno].end = "newline" /\ ~ErrorPending /\ Labelled /\ Colon

\* Nothing keeps a line from going past the end of input_line, the tokens
\* past that of tokens (with those of cut lines before it), or the labels
\* past that of symbol_table: what follows is undefined (yas.c 64-73,
\* 445-468, 505-512).
Overruns ==
    \/ src[lineno].text = "overruns"
    \/ Len(Tokens) > TOK_PER_LINE
    \/ AddsLabel /\ Len(symbol_table) >= STAB

Overrun ==
    /\ Input /\ lex = "INITIAL" /\ Overruns
    /\ status' = "undefined"
    /\ UNCHANGED <<src, pass, lineno, bytepos, line, lex, hit_error, symbol_table, code, outfile,
                   passone, load>>

Reading == Input /\ (lex = "INITIAL" => ~Overruns)

start_line == tokens' = <<>> /\ error_mode' = FALSE

fail == hit_error' = TRUE

fail_if_refused == hit_error' = (hit_error \/ Refused)

NextLine ==
    /\ lineno' = lineno + 1
    /\ passone' = (IF pass = 1 THEN [passone EXCEPT ![lineno + 1] = bytepos'] ELSE passone)
    /\ UNCHANGED <<src, pass, status, load>>

\* The rest of the line after a character no rule matches, up to the newline.
\* finish_line is not called, so the tokens stay.
InvalidLine ==
    /\ Reading
    /\ \/ lex = "ERR" /\ src[lineno].end \in {"newline", "bad"} /\ UNCHANGED tokens
       \/ lex = "INITIAL" /\ src[lineno].end = "bad" /\ tokens' = Tokens
    /\ lex' = "INITIAL"
    /\ error_mode' = TRUE
    /\ fail
    /\ UNCHANGED <<bytepos, symbol_table, code, outfile>>
    /\ NextLine

\* A last line without a newline: no rule calls finish_line, and the lexer
\* stays where it is.
LastLine ==
    /\ Reading
    /\ src[lineno].end \in {"eof", "bad_eof"}
    /\ IF lex = "ERR" THEN UNCHANGED <<lex, line, hit_error>>
       ELSE /\ tokens' = Tokens
            /\ error_mode' = ErrorPending
            /\ fail_if_refused
            /\ lex' = (IF src[lineno].end = "bad_eof" THEN "ERR" ELSE lex)
    /\ UNCHANGED <<bytepos, symbol_table, code, outfile>>
    /\ NextLine

-----------------------------------------------------------------------------
(* finish_line.                                                            *)

Finishing == Reading /\ lex = "INITIAL" /\ src[lineno].end = "newline"

EmptyLine ==
    /\ Finishing /\ Tokens = <<>>
    /\ start_line
    /\ UNCHANGED <<bytepos, lex, hit_error, symbol_table, code, outfile>>
    /\ NextLine

\* Completion of an erroneous line.
ErrorLine ==
    /\ Finishing /\ Tokens # <<>> /\ ErrorPending
    /\ fail_if_refused /\ start_line
    /\ UNCHANGED <<bytepos, lex, symbol_table, code, outfile>>
    /\ NextLine

Complete == Finishing /\ Tokens # <<>> /\ ~ErrorPending

MissingColon ==
    /\ Complete /\ Labelled /\ ~Colon
    /\ fail /\ start_line
    /\ UNCHANGED <<bytepos, lex, symbol_table, code, outfile>>
    /\ NextLine

\* A label takes the address the line starts at, in pass 1.
AddSymbol ==
    symbol_table' = (IF pass = 1 /\ Labelled
                     THEN Append(symbol_table, [name |-> Tokens[1].val, pos |-> bytepos])
                     ELSE symbol_table)

\* The three low hex digits of an address up to 0xfff, also of a negative
\* one, and four from there on.
hexstuff(pos) == pos % (IF pos >= Short THEN Limit ELSE Short)

print_code(pos, bytes) == Append(outfile, [pos |-> hexstuff(pos), bytes |-> bytes])

\* print_code exits when the address has too many digits.
TooFar(pos) == pass = 2 /\ pos >= Limit

LabelOnly ==
    /\ Complete /\ Labelled /\ Colon /\ Len(Tokens) = 2
    /\ ~TooFar(bytepos)
    /\ AddSymbol
    /\ outfile' = (IF pass = 2 THEN print_code(bytepos, <<>>) ELSE outfile)
    /\ start_line
    /\ UNCHANGED <<bytepos, lex, hit_error, code>>
    /\ NextLine

\* The statement of the line, after its label.
Statement ==
    /\ Complete
    /\ Labelled => Colon /\ Len(Tokens) > 2

At == IF Labelled THEN 3 ELSE 1

Is(name) == TokAt(Tokens, At).type = "INSTR" /\ TokAt(Tokens, At).val = name

BadInstruction ==
    /\ Statement
    /\ AddSymbol
    /\ TokAt(Tokens, At).type # "INSTR"
    /\ fail /\ start_line
    /\ UNCHANGED <<bytepos, lex, code, outfile>>
    /\ NextLine

Argument == TokAt(Tokens, At + 1)

IsDirective == Is(".pos") \/ Is(".align")

\* A number is 64 bits wide; its low half goes into an int.  Where the sum
\* of two ints overflows, the build wraps.
ToInt(x) == ((x + IntHalf) % (2 * IntHalf)) - IntHalf

GoodArgument == Argument.type = "NUM" /\ (Is(".align") => ToInt(Argument.val) > 0)

BadDirective ==
    /\ Statement /\ IsDirective /\ ~GoodArgument
    /\ AddSymbol
    /\ fail /\ start_line
    /\ UNCHANGED <<bytepos, lex, code, outfile>>
    /\ NextLine

\* The division is C's: .pos can make the address negative.
AlignUp(n, a) ==
    LET s == ToInt(n + a - 1)
    IN IF s >= 0 THEN (s \div a) * a ELSE -((-s) \div a) * a

\* The address that the directive on the line sets.
NewPos == IF Is(".pos") THEN ToInt(Argument.val) ELSE AlignUp(bytepos, ToInt(Argument.val))

Directive ==
    /\ Statement /\ IsDirective /\ GoodArgument
    /\ AddSymbol
    /\ ~TooFar(NewPos)
    /\ bytepos' = NewPos
    /\ outfile' = (IF pass = 2 THEN print_code(NewPos, <<>>) ELSE outfile)
    /\ start_line
    /\ UNCHANGED <<lex, hit_error, code>>
    /\ NextLine

IsInstruction == TokAt(Tokens, At).type = "INSTR" /\ ~IsDirective

size == find_instr(Tokens[At].val).bytes

\* Pass 1 only needs the size.
Measure ==
    /\ Statement /\ IsInstruction /\ pass = 1
    /\ AddSymbol
    /\ bytepos' = ToInt(bytepos + size)
    /\ start_line
    /\ UNCHANGED <<lex, hit_error, code, outfile>>
    /\ NextLine

Encoding == Encode(Tokens, At, symbol_table, code)

\* Mutant: a good line forgets the error of an earlier one.
Generate_forgets ==
    /\ Statement /\ IsInstruction /\ pass = 2
    /\ AddSymbol
    /\ Encoding.printed => ~TooFar(bytepos)
    /\ bytepos' = ToInt(bytepos + size)
    /\ code' = Encoding.code
    /\ hit_error' = ~Encoding.ok
    /\ outfile' = (IF Encoding.printed
                   THEN print_code(bytepos, [i \in 1 .. size |-> Encoding.code[i - 1]])
                   ELSE outfile)
    /\ start_line
    /\ UNCHANGED lex
    /\ NextLine

\* Pass 2 encodes; a wrong operand is printed all the same.
Generate ==
    /\ Statement /\ IsInstruction /\ pass = 2
    /\ AddSymbol
    /\ Encoding.printed => ~TooFar(bytepos)
    /\ bytepos' = ToInt(bytepos + size)
    /\ code' = Encoding.code
    /\ hit_error' = (hit_error \/ ~Encoding.ok)
    /\ outfile' = (IF Encoding.printed
                   THEN print_code(bytepos, [i \in 1 .. size |-> Encoding.code[i - 1]])
                   ELSE outfile)
    /\ start_line
    /\ UNCHANGED lex
    /\ NextLine

\* "Code address limit exceeded": exit(1) in the middle of pass 2.
AddressLimit ==
    /\ \/ Complete /\ Labelled /\ Colon /\ Len(Tokens) = 2 /\ TooFar(bytepos)
       \/ Statement /\ IsDirective /\ GoodArgument /\ TooFar(NewPos)
       \/ Statement /\ IsInstruction /\ Encoding.printed /\ TooFar(bytepos)
    /\ hit_error' = TRUE /\ status' = "error"
    /\ UNCHANGED <<src, pass, lineno, bytepos, line, lex, symbol_table, code, outfile, passone,
                   load>>

-----------------------------------------------------------------------------
(* yywrap and main.                                                        *)

EndOfFile == status = "running" /\ lineno > Len(src)

\* "Missing end-of-line on final line".
Wrapped == hit_error \/ tokens # <<>>

\* Mutant: pass 2 goes on from the last address of pass 1.
EndPass1_continue ==
    /\ EndOfFile /\ pass = 1
    /\ hit_error' = Wrapped
    /\ IF Wrapped
       THEN /\ status' = "error"
            /\ UNCHANGED <<pass, lineno, error_mode>>
       ELSE /\ pass' = 2 /\ lineno' = 1 /\ error_mode' = FALSE
            /\ UNCHANGED status
    /\ UNCHANGED <<src, bytepos, tokens, lex, symbol_table, code, outfile, passone, load>>

EndPass1 ==
    /\ EndOfFile /\ pass = 1
    /\ hit_error' = Wrapped
    /\ IF Wrapped
       THEN /\ status' = "error"
            /\ UNCHANGED <<pass, lineno, error_mode, bytepos>>
       ELSE /\ pass' = 2 /\ lineno' = 1 /\ error_mode' = FALSE /\ bytepos' = 0
            /\ UNCHANGED status
    /\ UNCHANGED <<src, tokens, lex, symbol_table, code, outfile, passone, load>>

EndPass2 ==
    /\ EndOfFile /\ pass = 2
    /\ hit_error' = Wrapped
    /\ status' = (IF Wrapped THEN "error" ELSE "ok")
    /\ UNCHANGED <<src, pass, lineno, bytepos, line, lex, symbol_table, code, outfile, passone,
                   load>>

Assemble ==
    \/ Overrun
    \/ InvalidLine \/ LastLine
    \/ EmptyLine \/ ErrorLine \/ MissingColon \/ LabelOnly
    \/ BadInstruction \/ BadDirective \/ Directive \/ Measure \/ Generate
    \/ AddressLimit \/ EndPass1 \/ EndPass2

-----------------------------------------------------------------------------
(* load_mem: one line of the .yo file at a time, until a byte is outside.  *)

LoadLine ==
    /\ status = "ok" /\ loaded = "no" /\ next <= Len(outfile)
    /\ LET o == outfile[next]
           last == o.pos + Len(o.bytes) - 1
       IN /\ mem' = [a \in DOMAIN mem |->
                        IF a \in o.pos .. last THEN o.bytes[a - o.pos + 1] ELSE mem[a]]
          /\ loaded' = (IF o.bytes # <<>> /\ last >= MemLen THEN "bad" ELSE "no")
    /\ next' = next + 1
    /\ UNCHANGED <<src, pass, lineno, bytepos, line, lex, hit_error, symbol_table, code, outfile,
                   status, passone>>

LoadEnds ==
    /\ status = "ok" /\ loaded = "no" /\ next > Len(outfile)
    /\ loaded' = "yes"
    /\ UNCHANGED <<src, pass, lineno, bytepos, line, lex, hit_error, symbol_table, code, outfile,
                   status, passone, mem, next>>

Next == Assemble \/ LoadLine \/ LoadEnds

Spec == Init /\ [][Next]_vars

-----------------------------------------------------------------------------

\* Without an error, pass 2 comes to every line with the address that pass 1
\* came to it with, so a label that the first pass placed is the address of
\* what the second pass puts after it (yas.c 305-443, 602-613).
PassesAgree ==
    pass = 2 /\ ~hit_error /\ lineno <= Len(src) => bytepos = passone[lineno]

\* The tokens of a line, its statement, and the k-th token after that.
Toks(i) == src[i].toks

StatementAt(i) == IF TokAt(Toks(i), 1).type = "IDENT" THEN 3 ELSE 1

Name(i) == TokAt(Toks(i), StatementAt(i))

Op(i, k) == TokAt(Toks(i), StatementAt(i) + k)

\* Lines of the source that hold an instruction or data, and the addresses
\* that they are loaded to.
CodeLines == {i \in DOMAIN src : Name(i).type = "INSTR" /\ Name(i).val \notin {".pos", ".align"}}

Covers(i) == LET a == hexstuff(passone[i]) IN a .. a + find_instr(Name(i).val).bytes - 1

\* The operands that each statement takes.
Kind(t) == IF t.type = "PUNCT" THEN t.val ELSE IF IsValue(t) THEN "V" ELSE t.type

Shapes(name) ==
    CASE In(name, Moves) \/ In(name, Alus) -> {<<"REG", ",", "REG">>}
      [] name \in {"irmovq", "iaddq"} -> {<<"V", ",", "REG">>}
      [] name = "rmmovq" -> {<<"REG", ",">>, <<"REG", ",", "V">>, <<"REG", ",", "(", "REG", ")">>,
                             <<"REG", ",", "V", "(", "REG", ")">>}
      [] name = "mrmovq" -> {<<",", "REG">>, <<"V", ",", "REG">>, <<"(", "REG", ")", ",", "REG">>,
                             <<"V", "(", "REG", ")", ",", "REG">>}
      [] In(name, Jumps) \/ In(name, Allocs) \/ name = "call" -> {<<"V">>}
      [] name \in {"pushq", "popq"} -> {<<"REG">>}
      [] OTHER -> {<<>>}

\* What follows complete operands is not read, but a memory operand goes as
\* far as it can.
Fits(i, shape) ==
    LET last == shape[Len(shape)]
        next_kind == Kind(Op(i, Len(shape) + 1))
    IN /\ \A k \in DOMAIN shape : Kind(Op(i, k)) = shape[k]
       /\ Name(i).val = "rmmovq" /\ last # ")" => next_kind # "("
       /\ Name(i).val = "rmmovq" /\ last = "," => next_kind # "V"

\* The operands of a line, and where a token of one kind is among them.
Shape(i) == CHOOSE shape \in Shapes(Name(i).val) : Fits(i, shape)

Places(i, kind) == {k \in DOMAIN Shape(i) : Shape(i)[k] = kind}

First(S) == CHOOSE k \in S : \A j \in S : k <= j

Last(S) == CHOOSE k \in S : \A j \in S : j <= k

\* The register bytes that step_state must find (rA, rB): the registers in
\* order, by the roles that it gives them (isa.c 683-935).
RegistersOf(i) ==
    LET at == Places(i, "REG")
        first == find_register(Op(i, First(at)).val)
        last == find_register(Op(i, Last(at)).val)
        only == First(at) = Last(at)
    IN CASE Name(i).val \in {"irmovq", "iaddq"} -> <<REG_NONE, last>>
         [] Name(i).val \in {"pushq", "popq"} -> <<first, REG_NONE>>
         [] Name(i).val = "mrmovq" -> <<last, IF only THEN REG_NONE ELSE first>>
         [] OTHER -> <<first, IF only THEN REG_NONE ELSE last>>

\* The address of a label: that of the first line that starts with it.
LabelAt(t) == passone[First({j \in DOMAIN src : TokAt(Toks(j), 1) = t})]

Number(i) ==
    IF Places(i, "V") = {} THEN 0
    ELSE LET t == Op(i, First(Places(i, "V")))
         IN IF t.type = "NUM" THEN t.val ELSE LabelAt(t)

\* What the fetch of step_state reads (isa.c 644-674) from the bytes b.
WordIs(b, p, v) == \A k \in 0 .. 7 : b[p + k] = Byte(v, k)

FetchIs(i, b) ==
    LET icode == b[0] \div 16
        regids == icode \in {2, 3, 4, 5, 6, 10, 11, 12}
        imm == icode \in {3, 4, 5, 7, 8, 12}
    IN /\ b[0] = find_instr(Name(i).val).code
       /\ regids => <<b[1] \div 16, b[1] % 16>> = RegistersOf(i)
       /\ imm => WordIs(b, IF regids THEN 2 ELSE 1, Number(i))

DataIs(i, b) == \A k \in DOMAIN b : b[k] = Byte(Number(i), k)

Says(i, b) == IF In(Name(i).val, Allocs) THEN DataIs(i, b) ELSE FetchIs(i, b)

\* In the memory that load_mem fills from the .yo file the simulators find,
\* at the address that pass 1 gave a line, the instruction that the line
\* says, registers and number (or the address of the label) in the places
\* where step_state looks for them, or its data, unless a later line was put
\* over it (.pos may go back) or .pos has made the address negative.
FetchRecoversSource ==
    loaded = "yes" =>
        \A i \in CodeLines :
            /\ passone[i] >= 0
            /\ \A j \in CodeLines : j > i => Covers(i) \cap Covers(j) = {}
            => Says(i, [k \in 0 .. find_instr(Name(i).val).bytes - 1 |-> mem[passone[i] + k]])

-----------------------------------------------------------------------------
(* Which files have an error.                                              *)

Resolved(i, shape) ==
    \A k \in DOMAIN shape : Op(i, k).type = "IDENT" =>
        \E j \in DOMAIN src : TokAt(Toks(j), 1) = Op(i, k)

GoodStatement(i) ==
    CASE Name(i).val = ".pos" -> Op(i, 1).type = "NUM"
      [] Name(i).val = ".align" -> Op(i, 1).type = "NUM" /\ ToInt(Op(i, 1).val) > 0
      [] OTHER -> \E shape \in Shapes(Name(i).val) : Fits(i, shape) /\ Resolved(i, shape)

\* A last line cut by a bad character leaves the lexer in its error state,
\* and pass 2 then loses the first line.
GoodLine(i) ==
    /\ src[i].text # "refused"
    /\ CASE src[i].end = "bad" -> FALSE
         [] src[i].end = "eof" -> Toks(i) = <<>>
         [] src[i].end = "bad_eof" -> Toks(i) = <<>> /\ i = 1
         [] OTHER -> /\ TokAt(Toks(i), 1).type = "IDENT" => Punct(Toks(i), 2, ":")
                     /\ \/ Toks(i) = <<>>
                        \/ TokAt(Toks(i), 1).type = "IDENT" /\ Len(Toks(i)) = 2
                        \/ Name(i).type = "INSTR" /\ GoodStatement(i)

\* print_code can write the address of the line.
GoodAddress(i) ==
    LET a == IF Name(i).val \in {".pos", ".align"} THEN passone[i + 1] ELSE passone[i]
    IN Toks(i) # <<>> => a < Limit

\* When it ends with no buffer overrun, yas reports success exactly when
\* every line is right: the error of one line is never forgotten when the
\* next one resets error_mode, and what one line leaves in the buffers never
\* makes an error of the next (yas.c 192-201, 293-348, 445-468, 524-529).
ErrorsExact ==
    status \in {"ok", "error"} =>
        (status = "ok" <=> \A i \in DOMAIN src : GoodLine(i) /\ (pass = 2 => GoodAddress(i)))
=============================================================================
