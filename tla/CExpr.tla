------------------------------- MODULE CExpr -------------------------------
(***************************************************************************)
(* The value of a C expression given as its tokens: the part of the C      *)
(* grammar that generated HCL functions use, with C's precedences.         *)
(***************************************************************************)
EXTENDS Integers, Sequences

\* The binary operators, from the loosest to the tightest.
Levels == << {"||"}, {"|"}, {"&"}, {"==", "!="}, {"<", "<=", ">", ">="} >>

LOCAL truth(cond) == IF cond THEN 1 ELSE 0

\* Bitwise operators get the values 0 and 1 only.
Binary(op, a, b) ==
    CASE op = "||" -> truth(a # 0 \/ b # 0)
      [] op = "|" -> truth(a # 0 \/ b # 0)
      [] op = "&" -> truth(a # 0 /\ b # 0)
      [] op = "==" -> truth(a = b) [] op = "!=" -> truth(a # b)
      [] op = "<" -> truth(a < b) [] op = "<=" -> truth(a <= b)
      [] op = ">" -> truth(a > b) [] op = ">=" -> truth(a >= b)

\* Each nonterminal, read at position i of t, gives its value and the
\* position behind it; env gives the value of every number and name.
RECURSIVE Conditional(_, _, _), Operands(_, _, _, _), More(_, _, _, _), Unary(_, _, _)

Unary(t, env, i) ==
    CASE t[i] = "!" ->
            LET r == Unary(t, env, i + 1) IN [val |-> truth(r.val = 0), next |-> r.next]
      [] t[i] = "(" ->
            LET r == Conditional(t, env, i + 1) IN [val |-> r.val, next |-> r.next + 1]
      [] OTHER -> [val |-> env[t[i]], next |-> i + 1]

Operands(t, env, i, level) ==
    IF level > Len(Levels) THEN Unary(t, env, i)
    ELSE More(t, env, Operands(t, env, i, level + 1), level)

More(t, env, left, level) ==
    IF left.next <= Len(t) /\ t[left.next] \in Levels[level]
    THEN LET right == Operands(t, env, left.next + 1, level + 1)
         IN  More(t, env, [val |-> Binary(t[left.next], left.val, right.val),
                           next |-> right.next], level)
    ELSE left

Conditional(t, env, i) ==
    LET test == Operands(t, env, i, 1)
        yes == Conditional(t, env, test.next + 1)
        no == Conditional(t, env, yes.next + 1)
    IN  IF test.next <= Len(t) /\ t[test.next] = "?"
        THEN [val |-> IF test.val # 0 THEN yes.val ELSE no.val, next |-> no.next]
        ELSE test

\* A C expression that is all of t.
Value(t, env) == Conditional(t, env, 1).val
=============================================================================
