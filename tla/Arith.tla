------------------------------- MODULE Arith --------------------------------
(***************************************************************************)
(* Project 1 (data_lab.cpp): arithmetic out of bitwise operations, on      *)
(* words of W bits.                                                        *)
(***************************************************************************)
EXTENDS Integers, SequencesExt, Bitwise

CONSTANT W   \* bits of a word, 2 to 32 (32 in the program)

LOCAL Word == 0..(2^W - 1)
LOCAL Signed(x) == IF x >= 2^(W - 1) THEN x - 2^W ELSE x
LOCAL Pattern(n) == n % 2^W
LOCAL Inv(x) == 2^W - 1 - x
LOCAL Negative(x) == x >= 2^(W - 1)
LOCAL Shl(x, k) == Pattern(x * 2^k)
LOCAL Shr(x, k) == x \div 2^k

Distances == SelectSeq(<<1, 2, 4, 8, 16>>, LAMBDA s : s < W)

\* Carry look-ahead: g the carries out of each bit, p what passes them on,
\* over distances that double.
add(a, b) ==
    LET spread(gp, s) == [g |-> gp.g | (gp.p & Shl(gp.g, s)), p |-> gp.p & Shl(gp.p, s)]
        g == FoldLeft(spread, [g |-> a & b, p |-> a ^^ b], Distances).g
    IN  (a ^^ b) ^^ Shl(g, 1)

subtract(a, b) == add(a, add(Inv(b), 1))

magnitude(a) == IF Negative(a) THEN subtract(0, a) ELSE a

withSign(a, b, res) == IF Negative(a) # Negative(b) THEN subtract(0, res) ELSE res

\* Shift and add, lowest bit first.
multiply(a, b) ==
    LET tmpa == magnitude(a)
        tmpb == magnitude(b)
        partial(res, i) == IF Shr(tmpb, i) % 2 = 1 THEN add(res, Shl(tmpa, i)) ELSE res
    IN  withSign(a, b, FoldLeft(partial, 0, [i \in 1..W |-> i - 1]))

\* Mutant: the quotient loses its highest bit.
divide_short(a, b) ==
    LET tmpb == magnitude(b)
        digit(r, i) ==
            IF Negative(subtract(Shr(r.rest, i), tmpb)) THEN r
            ELSE [rest |-> subtract(r.rest, Shl(tmpb, i)), quot |-> r.quot | 2^i]
    IN  withSign(a, b, FoldLeft(digit, [rest |-> magnitude(a), quot |-> 0],
                                [i \in 1..(W - 1) |-> W - 1 - i]).quot)

\* Long division, highest bit first.
divide(a, b) ==
    LET tmpb == magnitude(b)
        digit(r, i) ==
            IF Negative(subtract(Shr(r.rest, i), tmpb)) THEN r
            ELSE [rest |-> subtract(r.rest, Shl(tmpb, i)), quot |-> r.quot | 2^i]
    IN  withSign(a, b, FoldLeft(digit, [rest |-> magnitude(a), quot |-> 0],
                                [i \in 1..W |-> W - i]).quot)

modulo(a, b) == subtract(a, multiply(b, divide(a, b)))

-----------------------------------------------------------------------------

abs(n) == IF n < 0 THEN -n ELSE n

\* Every result is that of the C operator, which rounds a quotient towards
\* zero; the least integer divided by -1 wraps.
Exact(a, b) ==
    LET x == Signed(a)
        y == Signed(b)
        quot == IF (x < 0) # (y < 0) THEN -(abs(x) \div abs(y)) ELSE abs(x) \div abs(y)
    IN  /\ add(a, b) = Pattern(x + y)
        /\ subtract(a, b) = Pattern(x - y)
        /\ multiply(a, b) = Pattern(x * y)
        /\ b # 0 => divide(a, b) = Pattern(quot) /\ modulo(a, b) = Pattern(x - y * quot)

AllExact == \A a, b \in Word : Exact(a, b)
=============================================================================
