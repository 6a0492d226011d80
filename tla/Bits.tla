-------------------------------- MODULE Bits --------------------------------
(***************************************************************************)
(* The puzzles of the Data Lab (bits.c), each beside the function that     *)
(* btest compares it with (tests.c), on words of W bits.                   *)
(*                                                                         *)
(* An int or unsigned is its bit pattern, a natural below 2^W.  Signed     *)
(* additions wrap: so they do in the builds of the Makefile, although C    *)
(* leaves an overflow undefined.                                           *)
(***************************************************************************)
EXTENDS Integers, SequencesExt, Bitwise

CONSTANTS
    W,       \* bits of a word, a power of 2 (32 in the program)
    EXP      \* bits of the exponent of a float (8 in the program)

ASSUME WordAssumption == W \in 8..16 /\ EXP \in 2..(W - 2)

Word == 0..(2^W - 1)

\* The int that a pattern stands for, and the pattern of an integer.
Int32(x) == IF x >= 2^(W - 1) THEN x - 2^W ELSE x
Pattern(n) == n % 2^W

\* ~x, !x, x + y, x << k, and x >> k of an int and of an unsigned.
Inv(x) == 2^W - 1 - x
Lnot(x) == IF x = 0 THEN 1 ELSE 0
Add(x, y) == Pattern(x + y)
Shl(x, k) == Pattern(x * 2^k)
Sar(x, k) == Pattern(Int32(x) \div 2^k)
Shr(x, k) == x \div 2^k

\* The shifts of a function that doubles or halves what it looks at.
Halves == SelectSeq(<<16, 8, 4, 2, 1>>, LAMBDA s : 2 * s <= W)

-----------------------------------------------------------------------------
(* bits.c: the integer puzzles.                                            *)

bitXor(x, y) == Inv(Inv(x) & Inv(y)) & Inv(x & y)

tmin == Shl(1, W - 1)

\* Mutant: -1 also equals the inverse of its successor.
isTmax_any(x) == Lnot(Inv(Add(x, 1)) ^^ x)

isTmax(x) == Lnot(Inv(Add(x, 1)) ^^ x) & Lnot(Lnot(Add(x, 1)))

\* 0xAA, doubled until it fills the word.
allOddBits(x) ==
    LET c == FoldRight(LAMBDA s, mask : IF s < 8 THEN mask ELSE Shl(mask, s) | mask, Halves, 170)
    IN  Lnot((x & c) ^^ c)

negate(x) == Add(Inv(x), 1)

isAsciiDigit(x) == Lnot((Sar(x, 4) ^^ 3) | Sar((x & 15) + 6, 4))

conditional(x, y, z) ==
    LET mask == Add(Inv(Lnot(Lnot(x))), 1)
    IN  (y & mask) | (z & Inv(mask))

isLessOrEqual(x, y) ==
    LET signx == Sar(x, W - 1) & 1
        signy == Sar(y, W - 1) & 1
        diff == signx ^^ signy
    IN  (diff & signx) | (Lnot(diff) & Lnot(Sar(Add(y, Add(Inv(x), 1)), W - 1)))

logicalNeg(x) == Add(Sar(x | Add(Inv(x), 1), W - 1), 1)

\* b16 to b0: the position of the highest bit that differs from the sign.
howManyBits(x) ==
    LET halve(s, r) ==
            LET b == Lnot(Lnot(Sar(r.x, s))) * s
            IN  [x |-> Sar(r.x, b), bits |-> r.bits + b]
        r == FoldLeft(LAMBDA acc, s : halve(s, acc),
                      [x |-> x ^^ Sar(x, W - 1), bits |-> 0], Halves)
    IN  r.bits + r.x + 1

-----------------------------------------------------------------------------
(* bits.c: the floating point puzzles.                                     *)

FRAC == W - 1 - EXP
EXP_MASK == 2^EXP - 1
BIAS == 2^(EXP - 1) - 1

sign(uf) == Shr(uf, W - 1)
exp(uf) == Shr(uf, FRAC) & EXP_MASK
frac(uf) == uf & (2^FRAC - 1)

Float(s, e, f) == Shl(s, W - 1) | Shl(e, FRAC) | f

\* A denormalized fraction may grow into the exponent.
floatScale2(uf) ==
    IF exp(uf) = EXP_MASK THEN uf
    ELSE IF exp(uf) = 0 THEN Float(sign(uf), 0, Shl(frac(uf), 1))
    ELSE Float(sign(uf), exp(uf) + 1, frac(uf))

floatFloat2Int(uf) ==
    LET E == exp(uf) - BIAS
        M == 2^FRAC | frac(uf)
        abs == IF E >= FRAC THEN Shl(M, E - FRAC) ELSE Shr(M, FRAC - E)
    IN  IF E < 0 THEN 0
        ELSE IF E >= W - 1 THEN tmin
        ELSE IF sign(uf) = 1 THEN Pattern(-abs) ELSE abs

\* 149, 127 and 126 follow from the sizes of the fields.
floatPower2(x) ==
    LET n == Int32(x) IN
    IF n < 1 - BIAS - FRAC THEN 0
    ELSE IF n > BIAS THEN Float(0, EXP_MASK, 0)
    ELSE IF n >= 1 - BIAS THEN Float(0, n + BIAS, 0)
    ELSE 2^(n + BIAS + FRAC - 1)

-----------------------------------------------------------------------------
(* tests.c.                                                                *)

test_bitXor(x, y) == x ^^ y
test_tmin == 2^(W - 1)
test_isTmax(x) == IF x = 2^(W - 1) - 1 THEN 1 ELSE 0
test_allOddBits(x) == IF \A i \in 0..(W \div 2 - 1) : Shr(x, 2 * i + 1) % 2 = 1 THEN 1 ELSE 0
test_negate(x) == Pattern(-Int32(x))
test_isAsciiDigit(x) == IF Int32(x) \in 48..57 THEN 1 ELSE 0
test_conditional(x, y, z) == IF x # 0 THEN y ELSE z
test_isLessOrEqual(x, y) == IF Int32(x) <= Int32(y) THEN 1 ELSE 0
test_logicalNeg(x) == IF x = 0 THEN 1 ELSE 0

test_howManyBits(x) ==
    LET a == IF Int32(x) < 0 THEN -Int32(x) - 1 ELSE x
    IN  1 + CHOOSE cnt \in 0..W : 2^cnt > a /\ (cnt = 0 \/ 2^(cnt - 1) <= a)

(* Floating point arithmetic: the value of a float in units of the least   *)
(* positive one, and the float of a value that is exact or out of range.   *)

isnan(uf) == exp(uf) = EXP_MASK /\ frac(uf) # 0
isinf(uf) == exp(uf) = EXP_MASK /\ frac(uf) = 0

Units(uf) == IF exp(uf) = 0 THEN frac(uf) ELSE (2^FRAC + frac(uf)) * 2^(exp(uf) - 1)

OfUnits(s, n) ==
    LET fits == {uf \in Word : sign(uf) = s /\ exp(uf) # EXP_MASK /\ Units(uf) = n}
    IN  IF fits = {} THEN Float(s, EXP_MASK, 0) ELSE CHOOSE uf \in fits : TRUE

test_floatScale2(uf) ==
    IF isnan(uf) \/ isinf(uf) THEN uf ELSE OfUnits(sign(uf), 2 * Units(uf))

\* The conversion of the processor gives the least int for what has no int.
test_floatFloat2Int(uf) ==
    LET abs == Units(uf) \div 2^(BIAS + FRAC - 1)
        n == IF sign(uf) = 1 THEN -abs ELSE abs
    IN  IF exp(uf) = EXP_MASK \/ n \notin -(2^(W - 1))..(2^(W - 1) - 1) THEN tmin ELSE Pattern(n)

\* Powers of two below the least positive float round to zero.
test_floatPower2(x) ==
    LET n == Int32(x) + BIAS + FRAC - 1
    IN  IF n < 0 THEN 0
        ELSE IF Int32(x) > BIAS THEN Float(0, EXP_MASK, 0)
        ELSE OfUnits(0, 2^n)
=============================================================================
