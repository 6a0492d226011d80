------------------------------- MODULE MCYas --------------------------------
(***************************************************************************)
(* yas on every file of up to three lines from a pool of right and wrong   *)
(* ones, and on longer files of right lines.                               *)
(***************************************************************************)
EXTENDS Yas

I(n) == Tok("INSTR", n)
R(n) == Tok("REG", n)
N(n) == Tok("NUM", n)
L(n) == Tok("IDENT", n)
P(c) == Tok("PUNCT", c)

Long(toks, end, text) == [toks |-> toks, end |-> end, text |-> text]

Cut(toks, end) == Long(toks, end, "fits")

Ln(toks) == Cut(toks, "newline")

Right == {
    Ln(<<L("a"), P(":")>>),
    Ln(<<L("b"), P(":"), I("ret")>>),
    Ln(<<I("jle"), L("a")>>),
    Ln(<<I("irmovq"), L("b"), P(","), R("rdx")>>),
    Ln(<<L("a"), P(":"), I("rmmovq"), R("rax"), P(","), L("a"), P("("), R("rbx"), P(")")>>),
    Ln(<<I("mrmovq"), N(-4), P("("), R("rbp"), P(")"), P(","), R("r14")>>),
    Ln(<<I("xorq"), R("rcx"), P(","), R("rsi")>>),
    Ln(<<I(".align"), N(8)>>),
    Ln(<<I(".quad"), L("a")>>)}

Odd == {
    Ln(<<>>),
    Ln(<<I("popq"), R("r8"), P(","), R("rcx")>>),       \* more than it takes
    Ln(<<L("b"), P(":"), I(".word"), N(-3)>>),
    Ln(<<I("mrmovq"), P("("), R("rbp"), P(")"), P(","), R("r14")>>),
    Ln(<<I("mrmovq"), P(","), R("rcx")>>),
    Ln(<<I(".pos"), N(260)>>),                          \* 4 in an int of the model
    Ln(<<I(".pos"), N(12)>>),
    Ln(<<I(".align"), N(100)>>),                        \* the sum may wrap
    Ln(<<I(".pos"), N(60)>>),
    Ln(<<I(".pos"), N(-6)>>),
    Ln(<<I("rmmovq"), R("rcx"), P(","), N(4), R("rbx")>>),    \* no parenthesis
    Ln(<<I("ret"), P("(")>>),
    Cut(<<>>, "bad")}

Wrong == {
    Ln(<<L("a"), I("nop")>>),
    Ln(<<L("a"), P(":"), R("rax")>>),
    Ln(<<I(".pos"), L("a")>>),
    Ln(<<L("b"), P(":"), I(".align"), N(0)>>),
    Ln(<<I(".align"), N(256)>>),                        \* 0 in an int
    Ln(<<I("addq"), R("rax")>>),
    Ln(<<I("addq"), N(5), P(","), R("rax")>>),
    Ln(<<I("pushq"), N(5)>>),
    Ln(<<I("call"), R("rax")>>),
    Ln(<<I("mrmovq"), N(4), P("("), R("rbp"), P(","), R("r14")>>),
    Ln(<<I("rmmovq"), R("rcx"), P(","), N(4), P("("), N(1), P(")")>>),
    Cut(<<L("b"), P(":")>>, "bad"),
    Cut(<<I("ret")>>, "eof"),
    Cut(<<>>, "bad_eof"),
    Long(<<L("b"), P(":")>>, "newline", "refused"),
    Long(<<>>, "eof", "refused"),
    Long(<<>>, "newline", "overruns"),
    Ln(<<I("halt")>> \o [k \in 1 .. 10 |-> P(",")])}    \* too many after a cut line

MCSources ==
    {f \in UNION {[1 .. n -> Right \cup Odd \cup Wrong] : n \in 1 .. 2}
           \cup [1 .. 3 -> (Right \cup Odd)]
           \cup [1 .. 4 -> Right] : IsFile(f)}
    \cup {f \in {<<x, y, z>> : x \in Wrong, y \in Wrong, z \in Right \cup Wrong} : IsFile(f)}
=============================================================================
