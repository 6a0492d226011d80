------------------------------ MODULE MCBtest -------------------------------
(***************************************************************************)
(* btest on the solutions of bits.c, on words of 8 bits with floats of a   *)
(* 4-bit exponent, and on puzzles that are wrong or do not return.         *)
(***************************************************************************)
EXTENDS Btest

Project1 == INSTANCE Arith WITH W <- 4

MCSolution(name, x) ==
    CASE name = "bitXor" -> bitXor(x[1], x[2])
      [] name = "tmin" -> tmin
      [] name = "isTmax" -> isTmax(x[1])
      [] name = "allOddBits" -> allOddBits(x[1])
      [] name = "negate" -> negate(x[1])
      [] name = "isAsciiDigit" -> isAsciiDigit(x[1])
      [] name = "conditional" -> conditional(x[1], x[2], x[3])
      [] name = "isLessOrEqual" -> isLessOrEqual(x[1], x[2])
      [] name = "logicalNeg" -> logicalNeg(x[1])
      [] name = "howManyBits" -> howManyBits(x[1])
      [] name = "floatScale2" -> floatScale2(x[1])
      [] name = "floatFloat2Int" -> floatFloat2Int(x[1])
      [] name = "floatPower2" -> floatPower2(x[1])
      [] name = "isTmaxWrong" -> Lnot(Inv(Add(x[1], 1)) ^^ x[1])
      [] name = "endless" -> IF x[1] > 2 THEN Loop ELSE 0

MCTest(name, x) ==
    CASE name = "bitXor" -> test_bitXor(x[1], x[2])
      [] name = "tmin" -> test_tmin
      [] name \in {"isTmax", "isTmaxWrong"} -> test_isTmax(x[1])
      [] name = "allOddBits" -> test_allOddBits(x[1])
      [] name = "negate" -> test_negate(x[1])
      [] name = "isAsciiDigit" -> test_isAsciiDigit(x[1])
      [] name = "conditional" -> test_conditional(x[1], x[2], x[3])
      [] name = "isLessOrEqual" -> test_isLessOrEqual(x[1], x[2])
      [] name = "logicalNeg" -> test_logicalNeg(x[1])
      [] name = "howManyBits" -> test_howManyBits(x[1])
      [] name = "floatScale2" -> test_floatScale2(x[1])
      [] name = "floatFloat2Int" -> test_floatFloat2Int(x[1])
      [] name = "floatPower2" -> test_floatPower2(x[1])
      [] name = "endless" -> 0

puzzle(name, args, stars) ==
    [name |-> name, args |-> args, rating |-> stars, min |-> -(2^(W - 1)), max |-> 2^(W - 1) - 1]

float(name) == [name |-> name, args |-> 1, rating |-> 4, min |-> 1, max |-> 1]

endless == puzzle("endless", 1, 2)

\* All of decl.c, in groups, some among puzzles that do not return.
MCTestSets ==
    {<<puzzle("tmin", 0, 1), endless, puzzle("isTmaxWrong", 1, 1), puzzle("isTmax", 1, 1)>>,
     <<endless, puzzle("bitXor", 2, 1), endless>>,
     <<puzzle("allOddBits", 1, 2), puzzle("negate", 1, 2), puzzle("isAsciiDigit", 1, 3)>>,
     <<puzzle("conditional", 3, 3), endless>>,
     <<puzzle("isLessOrEqual", 2, 3), puzzle("logicalNeg", 1, 4), puzzle("howManyBits", 1, 4)>>,
     <<float("floatFloat2Int"), float("floatPower2")>>}

ScaleTestSets == {<<float("floatScale2")>>}

number(n) == [isfloat |-> FALSE, whole |-> TRUE, fits |-> TRUE, val |-> n]
arg(k, text) == [opt |-> "arg", place |-> k, text |-> text]

MCCommandLines ==
    {<< >>, <<[opt |-> "r", n |-> 3]>>, <<[opt |-> "r", n |-> -1]>>, <<[opt |-> "h"]>>,
     <<[opt |-> "f", name |-> "isTmax"]>>,
     <<[opt |-> "T", n |-> 0], [opt |-> "f", name |-> "negate"]>>,
     <<[opt |-> "f", name |-> "conditional"], arg(1, number(5)), arg(3, number(250))>>,
     <<arg(1, number(5)), arg(1, number(7))>>,
     <<arg(1, [isfloat |-> TRUE, whole |-> FALSE, fits |-> TRUE, val |-> 3])>>,
     <<arg(2, [isfloat |-> FALSE, whole |-> FALSE, fits |-> FALSE, val |-> 3])>>}

Edges == {0, 1, 127, 128, 170}

\* Is a puzzle right on every word?  The second and third arguments are tried
\* at the edges only.
Right(p) ==
    LET rest(a) == IF p.args >= a THEN Edges ELSE {0}
        agree(x) == MCSolution(p.name, x) = MCTest(p.name, x)
    IN  \A x \in Word, y \in rest(2), z \in rest(3) : agree(<<x, y, z>>)

\* The values that gen_vals chooses catch every mistake there is in the
\* puzzles: one that passes is right on every word, and not only on those.
PassMeansRight ==
    pc = "exit0" /\ ~fixed /\ options.global_rating = 0 => \A n \in passed : Right(test_set[n])

\* The puzzles of bits.c lose no points for an answer, whatever alarms come
\* late, and with the limit off none to an alarm.
SolutionsPass ==
    \A k \in DOMAIN verdicts :
        /\ verdicts[k].cause = "answer" => test_set[verdicts[k].test].name = "isTmaxWrong"
        /\ verdicts[k].cause \in {"alarm", "stray"} => options.timeout_limit > 0

\* btest's verdicts: whatever passes is right, and what is right passes.
VerdictsRight == PassMeansRight /\ SolutionsPass

\* Project 1's arithmetic is that of C, on all pairs of 4-bit words: a fact of
\* no state, and looked at in a few.
ArithExact == pc = "exit1" => Project1!AllExact
=============================================================================
