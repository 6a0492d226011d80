------------------------------ MODULE Y86Proof ------------------------------
(***************************************************************************)
(* Lemmas about the operators of Y86, for every word size, memory and      *)
(* register file.                                                          *)
(***************************************************************************)
EXTENDS Y86, TLAPS

(***************************************************************************)
(* The operators of Y86 stay within the word.                              *)
(***************************************************************************)

\* Wrapping an integer gives a word.
LEMMA WrapType == ASSUME NEW x \in Int PROVE Wrap(x) \in Word
<1>1. (x + HalfRange) % (2 * HalfRange) \in 0 .. 2 * HalfRange - 1
  BY WordAssumption DEF WordBytes
<1> QED
  BY <1>1, WordAssumption DEF Wrap, Word, WordBytes

\* The literals of the HCL are words, and so is every address.
LEMMA SmallWords ==
    /\ 0 \in Word /\ WordBytes \in Word /\ -WordBytes \in Word
    /\ Addr \subseteq Word /\ Word \subseteq Int
BY WordAssumption DEF Word, Addr, WordBytes

\* Whatever the function code, the ALU produces a word.
LEMMA AluType ==
    ASSUME NEW op, NEW a \in Word, NEW b \in Word
    PROVE  compute_alu(op, a, b) \in Word
<1>1. Wrap(a + b) \in Word /\ Wrap(b - a) \in Word
  BY WrapType, SmallWords
<1>2. AndW(a, b) \in Word /\ XorW(a, b) \in Word /\ 0 \in Word
  BY BitwiseAssumption, SmallWords
<1>3. CASE op = A_ADD BY <1>1, <1>3 DEF compute_alu, A_ADD, A_SUB, A_AND, A_XOR
<1>4. CASE op = A_SUB BY <1>1, <1>4 DEF compute_alu, A_ADD, A_SUB, A_AND, A_XOR
<1>5. CASE op = A_AND BY <1>2, <1>5 DEF compute_alu, A_ADD, A_SUB, A_AND, A_XOR
<1>6. CASE op = A_XOR BY <1>2, <1>6 DEF compute_alu, A_ADD, A_SUB, A_AND, A_XOR
<1>7. CASE op \notin {A_ADD, A_SUB, A_AND, A_XOR}
  BY <1>2, <1>7 DEF compute_alu
<1> QED
  BY <1>3, <1>4, <1>5, <1>6, <1>7

LEMMA CcType == \A op, a, b : compute_cc(op, a, b) \in CC
<1> SUFFICES ASSUME NEW op, NEW a, NEW b
             PROVE  compute_cc(op, a, b) \in CC
  OBVIOUS
<1> DEFINE val == compute_alu(op, a, b)
<1>1. overflow(op, a, b, val) \in BOOLEAN
  BY DEF overflow, A_ADD, A_SUB
<1> HIDE DEF val
<1>2. (val = 0) \in BOOLEAN /\ (val < 0) \in BOOLEAN
  OBVIOUS
<1> QED
  BY <1>1, <1>2 DEF compute_cc, CC, val

LEMMA CondType == \A c \in CC, k \in Ifun : cond_holds(c, k) \in BOOLEAN
BY DEF cond_holds, CC

\* The accessors keep the register file and the memory well typed.
LEMMA AccessTypes ==
    ASSUME NEW r \in [RegId -> Word], NEW m \in [Addr -> Word],
           NEW val \in Word
    PROVE  /\ \A id : get_reg_val(r, id) \in Word
           /\ \A id : set_reg_val(r, id, val) \in [RegId -> Word]
           /\ \A pos \in Word : get_word_val(m, pos) \in Word
           /\ \A pos \in Word : set_word_val(m, pos, val) \in [Addr -> Word]
<1>1. \A pos \in Word : word_ok(pos) => pos \in Addr
  BY WordAssumption DEF word_ok, Addr, Word, WordBytes
<1> QED
  BY <1>1, SmallWords DEF get_reg_val, set_reg_val, get_word_val, set_word_val

\* Wrapping changes no word.
LEMMA WrapWord == \A x \in Word : Wrap(x) = x
<1> SUFFICES ASSUME NEW x \in Word PROVE Wrap(x) = x
  OBVIOUS
<1>1. x + HalfRange \in 0 .. 2 * HalfRange - 1
  BY WordAssumption DEF Word
<1>2. (x + HalfRange) % (2 * HalfRange) = x + HalfRange
  BY <1>1, WordAssumption
<1> QED
  BY <1>2, WordAssumption DEF Wrap, Word

\* Adding zero, which is how the hardware moves a value through the ALU.
LEMMA AluPass == \A a \in Word : compute_alu(A_ADD, a, 0) = a
<1> SUFFICES ASSUME NEW a \in Word PROVE compute_alu(A_ADD, a, 0) = a
  OBVIOUS
<1>1. Wrap(a + 0) = a
  BY WrapWord, SmallWords
<1> QED
  BY <1>1 DEF compute_alu, A_ADD, A_SUB, A_AND, A_XOR

\* The ALU adds by default.
LEMMA AluAdd == \A a, b : compute_alu(A_ADD, a, b) = Wrap(a + b)
<1> SUFFICES ASSUME NEW a, NEW b PROVE compute_alu(A_ADD, a, b) = Wrap(a + b)
  OBVIOUS
<1> QED
  BY DEF compute_alu, A_ADD, A_SUB, A_AND, A_XOR

\* REG_NONE reads as zero and ignores a write.
LEMMA NoneInert ==
    /\ \A r : get_reg_val(r, RNONE) = 0
    /\ \A r, val : set_reg_val(r, RNONE, val) = r
BY RegAssumption DEF get_reg_val, set_reg_val

\* It adds in either order, and moves the stack pointer one word.
LEMMA AluStack ==
    ASSUME NEW a \in Word, NEW b \in Word
    PROVE  /\ compute_alu(A_ADD, a, b) = Wrap(b + a)
           /\ compute_alu(A_ADD, -WordBytes, b) = Wrap(b - WordBytes)
           /\ compute_alu(A_ADD, WordBytes, b) = Wrap(b + WordBytes)
<1>1. a \in Int /\ b \in Int /\ WordBytes \in Int
  BY SmallWords
<1>2. a + b = b + a /\ -WordBytes + b = b - WordBytes /\ WordBytes + b = b + WordBytes
  BY <1>1
<1> QED
  BY <1>2, AluAdd

(***************************************************************************)
(* The condition codes mean what a conditional jump takes them for.        *)
(***************************************************************************)

\* Wrapping a sum or a difference of two words shifts it by at most one range.
LEMMA WrapShift ==
    ASSUME NEW x \in -(2 * HalfRange) .. 2 * HalfRange
    PROVE  /\ x \in Word => Wrap(x) = x
           /\ x >= HalfRange => Wrap(x) = x - 2 * HalfRange
           /\ x < -HalfRange => Wrap(x) = x + 2 * HalfRange
<1> DEFINE n == 2 * HalfRange
<1>1. HalfRange \in Nat /\ HalfRange > 0 /\ x \in Int
  BY WordAssumption DEF WordBytes
<1>2. \A y \in Int : 0 <= y /\ y < n => y % n = y
  BY <1>1
<1>3. CASE x >= HalfRange
  <2>1. (x + HalfRange) % n = x + HalfRange - n
    BY <1>1, <1>3
  <2> QED
    BY <1>1, <1>3, <2>1 DEF Wrap, Word
<1>4. CASE x < -HalfRange
  <2>1. (x + HalfRange) % n = x + HalfRange + n
    BY <1>1, <1>4
  <2> QED
    BY <1>1, <1>4, <2>1 DEF Wrap, Word
<1>5. CASE x \in Word
  BY <1>1, <1>5, WrapWord DEF Word
<1> QED
  BY <1>1, <1>3, <1>4, <1>5

\* The overflow flag of an addition or a subtraction is set exactly when the
\* true result is no word, although compute_cc tests argA > 0, not argA >= 0.
THEOREM OverflowExact ==
    ASSUME NEW a \in Word, NEW b \in Word
    PROVE  /\ compute_cc(A_ADD, a, b).o <=> a + b \notin Word
           /\ compute_cc(A_SUB, a, b).o <=> b - a \notin Word
<1>1. HalfRange \in Nat /\ HalfRange > 0 /\ a \in Int /\ b \in Int
  BY WordAssumption, SmallWords DEF WordBytes
<1>2. compute_cc(A_ADD, a, b).o <=> overflow(A_ADD, a, b, Wrap(a + b))
  BY AluAdd DEF compute_cc
<1>3. compute_alu(A_SUB, a, b) = Wrap(b - a)
  BY DEF compute_alu, A_ADD, A_SUB, A_AND, A_XOR
<1>4. compute_cc(A_SUB, a, b).o <=> overflow(A_SUB, a, b, Wrap(b - a))
  BY <1>3 DEF compute_cc
<1>5. /\ a + b \in -(2 * HalfRange) .. 2 * HalfRange
      /\ b - a \in -(2 * HalfRange) .. 2 * HalfRange
  BY <1>1 DEF Word
<1>6. overflow(A_ADD, a, b, Wrap(a + b)) <=> a + b \notin Word
  BY <1>1, <1>5, WrapShift DEF overflow, Word, A_ADD, A_SUB
<1>7. overflow(A_SUB, a, b, Wrap(b - a)) <=> b - a \notin Word
  BY <1>1, <1>5, WrapShift DEF overflow, Word, A_ADD, A_SUB
<1> QED
  BY <1>2, <1>4, <1>6, <1>7

\* After subq rA, rB the six conditions compare rB with rA as signed words,
\* overflow or not.
THEOREM SignedCompare ==
    ASSUME NEW a \in Word, NEW b \in Word
    PROVE  LET c == compute_cc(A_SUB, a, b)
           IN  /\ cond_holds(c, 1) <=> b <= a
               /\ cond_holds(c, 2) <=> b < a
               /\ cond_holds(c, 3) <=> b = a
               /\ cond_holds(c, 4) <=> b # a
               /\ cond_holds(c, 5) <=> b >= a
               /\ cond_holds(c, 6) <=> b > a
<1> DEFINE c == compute_cc(A_SUB, a, b)
<1>1. HalfRange \in Nat /\ HalfRange > 0 /\ a \in Int /\ b \in Int
  BY WordAssumption, SmallWords DEF WordBytes
<1>2. compute_alu(A_SUB, a, b) = Wrap(b - a)
  BY DEF compute_alu, A_ADD, A_SUB, A_AND, A_XOR
<1>3. (c.z <=> Wrap(b - a) = 0) /\ (c.s <=> Wrap(b - a) < 0)
  BY <1>2 DEF compute_cc
<1>4. c.o <=> b - a \notin Word
  BY OverflowExact
<1>5. b - a \in -(2 * HalfRange) .. 2 * HalfRange
  BY <1>1 DEF Word
<1>6. c.z <=> b = a
  BY <1>1, <1>3, <1>5, WrapShift DEF Word
<1>7. ~(c.s <=> c.o) <=> b < a
  BY <1>1, <1>3, <1>4, <1>5, WrapShift DEF Word
<1> HIDE DEF c
<1> QED
  BY <1>1, <1>6, <1>7 DEF cond_holds, c
=============================================================================
