-------------------------------- MODULE Hcl --------------------------------
(***************************************************************************)
(* hcl2c: the translator that makes the C functions of the simulators out  *)
(* of the HCL files of their control logic (misc/node.c and hcl.y).        *)
(*                                                                         *)
(* yacc builds a parse tree bottom-up with the make_* functions, which     *)
(* check types as they go, and gen_expr prints the tree as a C expression. *)
(* A node_ptr is here the chain of nodes it points to along `next`: a case *)
(* expression and a set are chains, NULL is the empty one.                 *)
(***************************************************************************)
EXTENDS Integers, SequencesExt, CExpr

CONSTANTS
    Programs,   \* the HCL files: sequences of statements
    SYM_LIM,    \* the size of the symbol table
    ERRLIM,     \* errors that do not stop the translation
    Words       \* the values that a word signal is tried with

ASSUME LimitsAssumption == SYM_LIM \in Nat /\ ERRLIM \in Nat

VARIABLES
    statements,  \* the statements yyparse has not read yet
    read,        \* those it has read
    sym_tab,     \* the symbols: name, quoted C text, and is it Boolean?
    errcnt,      \* calls of yyerror
    functions,   \* the gen_ functions printed, each with what it is to mean
    status       \* of the process: "running", "crash", or its exit code

vars == <<statements, read, sym_tab, errcnt, functions, status>>

-----------------------------------------------------------------------------
(* The source language, as the grammar reads it.                           *)

Var(name) == [op |-> "var", name |-> name]
Num(text) == [op |-> "num", text |-> text]
Not(e) == [op |-> "not", arg |-> e]
And(e1, e2) == [op |-> "and", left |-> e1, right |-> e2]
Or(e1, e2) == [op |-> "or", left |-> e1, right |-> e2]
Comp(sign, e1, e2) == [op |-> "comp", sign |-> sign, left |-> e1, right |-> e2]
In(e, set) == [op |-> "in", left |-> e, set |-> set]
Case(cases) == [op |-> "case", cases |-> cases]

Signal(name, text, isbool) == [kind |-> "signal", name |-> name, text |-> text, isbool |-> isbool]
Function(name, expr, isbool) == [kind |-> "function", name |-> name, expr |-> expr, isbool |-> isbool]

-----------------------------------------------------------------------------
(* The symbol table.                                                       *)

NotFound == [isbool |-> FALSE, text |-> ""]

\* The first of several declarations counts.
find_symbol(name) ==
    LET at == SelectInSeq(sym_tab, LAMBDA sym : sym.name = name)
    IN  IF at = 0 THEN NotFound ELSE sym_tab[at]

declared(name) == \E i \in DOMAIN sym_tab : sym_tab[i].name = name

-----------------------------------------------------------------------------
(* The parse tree.                                                         *)

NULL == << >>

new_node(type, isbool, sval, a1, a2) ==
    <<[type |-> type, isbool |-> isbool, sval |-> sval, arg1 |-> a1, arg2 |-> a2]>>

\* Mutant: a number may stand for any Boolean.
check_arg_num(arg, wantbool) ==
    IF arg = NULL THEN 1
    ELSE LET n == Head(arg) IN
        CASE n.type = "N_VAR" ->
                IF ~declared(n.sval) THEN 2
                ELSE IF find_symbol(n.sval).isbool # wantbool THEN 1 ELSE 0
          [] n.type = "N_NUM" -> 0
          [] OTHER -> IF n.isbool # wantbool THEN 1 ELSE 0

\* The errors that an argument of the wrong type gives; an unknown name is
\* reported by find_symbol and again by its caller.  The text of a message is
\* left out: show_expr follows the NULL operands that gen_expr follows later.
check_arg(arg, wantbool) ==
    IF arg = NULL THEN 1
    ELSE LET n == Head(arg) IN
        CASE n.type = "N_VAR" ->
                IF ~declared(n.sval) THEN 2
                ELSE IF find_symbol(n.sval).isbool # wantbool THEN 1 ELSE 0
          [] n.type = "N_NUM" -> IF wantbool /\ n.sval \notin {"0", "1"} THEN 1 ELSE 0
          [] OTHER -> IF n.isbool # wantbool THEN 1 ELSE 0

\* What a make_ function returns, and the errors reported by then.
Built(chain, errs) == [node |-> chain, errs |-> errs]

make_var(name) == Built(new_node("N_VAR", FALSE, name, NULL, NULL), 0)
make_num(text) == Built(new_node("N_NUM", FALSE, text, NULL, NULL), 0)

make_not(a) ==
    Built(new_node("N_NOT", TRUE, "!", a.node, NULL), a.errs + check_arg(a.node, TRUE))

make_and(a, b) ==
    Built(new_node("N_AND", TRUE, "&", a.node, b.node),
          a.errs + b.errs + check_arg(a.node, TRUE) + check_arg(b.node, TRUE))

make_or(a, b) ==
    Built(new_node("N_OR", TRUE, "|", a.node, b.node),
          a.errs + b.errs + check_arg(a.node, TRUE) + check_arg(b.node, TRUE))

make_comp(sign, a, b) ==
    Built(new_node("N_COMP", TRUE, sign, a.node, b.node),
          a.errs + b.errs + check_arg(a.node, FALSE) + check_arg(b.node, FALSE))

\* The loop that is to check the elements runs over arg1 and its chain.
make_ele(a, set) ==
    Built(new_node("N_ELE", TRUE, "in", a.node, set.node),
          a.errs + set.errs + check_arg(a.node, FALSE)
            + FoldFunction(+, 0, [i \in DOMAIN a.node |-> check_arg(<<a.node[i]>>, FALSE)]))

make_case(test, value) ==
    Built(new_node("N_CASE", FALSE, ":", test.node, value.node),
          test.errs + value.errs + check_arg(test.node, TRUE) + check_arg(value.node, FALSE))

concat(a, b) == Built(a.node \o b.node, a.errs + b.errs)

Nothing == Built(NULL, 0)

RECURSIVE parse(_)
parse(e) ==
    CASE e.op = "var" -> make_var(e.name)
      [] e.op = "num" -> make_num(e.text)
      [] e.op = "not" -> make_not(parse(e.arg))
      [] e.op = "and" -> make_and(parse(e.left), parse(e.right))
      [] e.op = "or" -> make_or(parse(e.left), parse(e.right))
      [] e.op = "comp" -> make_comp(e.sign, parse(e.left), parse(e.right))
      [] e.op = "in" ->
            make_ele(parse(e.left),
                     FoldLeft(LAMBDA list, x : concat(list, parse(x)), Nothing, e.set))
      [] e.op = "case" ->
            FoldLeft(LAMBDA list, c : concat(list, make_case(parse(c[1]), parse(c[2]))),
                     Nothing, e.cases)

-----------------------------------------------------------------------------
(* The generated code: the tokens of a C expression.                       *)

\* What gen_expr has printed, its errors by then, and whether it still runs.
Printed(tokens) == [tokens |-> tokens, errs |-> 0, crash |-> FALSE]

Crash == [tokens |-> << >>, errs |-> 0, crash |-> TRUE]

followed(a, b) ==
    IF a.crash THEN a
    ELSE [tokens |-> a.tokens \o b.tokens, errs |-> a.errs + b.errs, crash |-> b.crash]

Join(parts) == FoldLeft(followed, Printed(<< >>), parts)

gen_var(name) ==
    IF declared(name) THEN Printed(<<"(", find_symbol(name).text, ")">>)
    ELSE [tokens |-> << >>, errs |-> 2, crash |-> FALSE]

\* Mutant: a Boolean operation without its parentheses.
gen_binary_bare(left, sign, right) == Join(<<left, Printed(<<sign>>), right>>)

gen_binary(left, sign, right) ==
    Join(<<Printed(<<"(">>), left, Printed(<<sign>>), right, Printed(<<")">>)>>)

\* A test of membership compares with each element, which is the rest of the
\* chain from there.
gen_ele(left, elements) ==
    Join(<<Printed(<<"(">>)>>
           \o [i \in DOMAIN elements |->
                 Join(<<left, Printed(<<"==">>), elements[i],
                        Printed(IF i < Len(elements) THEN <<"||">> ELSE << >>)>>)]
           \o <<Printed(<<")">>)>>)

\* Its test is the number one.
isDefault(case) == Head(case.arg1).type = "N_NUM" /\ Head(case.arg1).sval = "1"

RECURSIVE gen_expr(_)

\* The chain as nested conditionals, up to a case that always holds.
RECURSIVE gen_cases(_)
gen_cases(chain) ==
    IF chain = NULL THEN Printed(<<"0">>)
    ELSE IF Head(chain).arg1 = NULL THEN Crash
    ELSE IF isDefault(Head(chain)) THEN gen_expr(Head(chain).arg2)
    ELSE Join(<<gen_expr(Head(chain).arg1), Printed(<<"?">>), gen_expr(Head(chain).arg2),
                Printed(<<":">>), gen_cases(Tail(chain))>>)

gen_expr(chain) ==
    IF chain = NULL THEN Crash
    ELSE LET n == Head(chain) IN
    CASE n.type = "N_VAR" -> gen_var(n.sval)
      [] n.type = "N_NUM" -> Printed(<<n.sval>>)
      [] n.type = "N_NOT" -> Join(<<Printed(<<"!">>), gen_expr(n.arg1)>>)
      [] n.type \in {"N_AND", "N_OR", "N_COMP"} ->
            gen_binary(gen_expr(n.arg1), n.sval, gen_expr(n.arg2))
      [] n.type = "N_ELE" ->
            gen_ele(gen_expr(n.arg1),
                    [i \in DOMAIN n.arg2 |-> gen_expr(SubSeq(n.arg2, i, Len(n.arg2)))])
      [] n.type = "N_CASE" ->
            Join(<<Printed(<<"(">>), gen_cases(chain), Printed(<<")">>)>>)

-----------------------------------------------------------------------------
(* The process.                                                            *)

\* yyerror: more than ERRLIM errors end it.
report(errs, otherwise) ==
    /\ errcnt' = errcnt + errs
    /\ status' = IF errcnt' > ERRLIM THEN "exit1" ELSE otherwise

ReadStatement(kind) ==
    /\ status = "running"
    /\ statements # << >> /\ Head(statements).kind = kind
    /\ statements' = Tail(statements)
    /\ read' = Append(read, Head(statements))

\* boolsig and wordsig; a symbol over the limit is an error.
add_arg ==
    /\ ReadStatement("signal")
    /\ LET s == Head(statements)
           full == Len(sym_tab) >= SYM_LIM
       IN  /\ sym_tab' = IF full THEN sym_tab
                         ELSE Append(sym_tab, [name |-> s.name, text |-> s.text, isbool |-> s.isbool])
           /\ report(IF full THEN 1 ELSE 0, "running")
    /\ UNCHANGED functions

\* bool and word: the definition is printed whether it has errors or not.
gen_funct ==
    /\ ReadStatement("function")
    /\ LET s == Head(statements)
           tree == parse(s.expr)
           errs == tree.errs + check_arg(tree.node, s.isbool)
           code == IF tree.node = NULL THEN Printed(<< >>) ELSE gen_expr(tree.node)
       IN  IF errcnt + errs > ERRLIM
           THEN report(errs, "exit1") /\ UNCHANGED functions
           ELSE /\ report(errs + code.errs, IF code.crash THEN "crash" ELSE "running")
                /\ functions' = Append(functions,
                                      [tokens |-> code.tokens, of |-> s.expr, before |-> read])
    /\ UNCHANGED sym_tab

\* End of file: main returns.
Return ==
    /\ status = "running" /\ statements = << >>
    /\ status' = IF errcnt # 0 THEN "exit1" ELSE "exit0"
    /\ UNCHANGED <<statements, read, sym_tab, errcnt, functions>>

Init ==
    /\ statements \in Programs
    /\ read = << >> /\ sym_tab = << >> /\ functions = << >>
    /\ errcnt = 0 /\ status = "running"

Next == add_arg \/ gen_funct \/ Return

Spec == Init /\ [][Next]_vars

-----------------------------------------------------------------------------
(* What an HCL expression means, by the rules of the language: types, and  *)
(* the value under a valuation of the signals.                             *)

\* The declarations among the statements so far.
signals(before) == SelectSeq(before, LAMBDA s : s.kind = "signal")

known(name, before) == \E i \in DOMAIN signals(before) : signals(before)[i].name = name

firstSignal(name, before) ==
    signals(before)[SelectInSeq(signals(before), LAMBDA s : s.name = name)]

\* The types an expression can have.  The elements of a set may have either.
RECURSIVE Types(_, _)
Types(e, before) ==
    LET has(x, t) == t \in Types(x, before)
        boolIf(cond) == IF cond THEN {"bool"} ELSE {}
    IN  CASE e.op = "var" ->
                IF ~known(e.name, before) THEN {}
                ELSE IF firstSignal(e.name, before).isbool THEN {"bool"} ELSE {"word"}
          [] e.op = "num" -> IF e.text \in {"0", "1"} THEN {"bool", "word"} ELSE {"word"}
          [] e.op = "not" -> boolIf(has(e.arg, "bool"))
          [] e.op \in {"and", "or"} -> boolIf(has(e.left, "bool") /\ has(e.right, "bool"))
          [] e.op = "comp" -> boolIf(has(e.left, "word") /\ has(e.right, "word"))
          [] e.op = "in" ->
                boolIf(/\ has(e.left, "word")
                       /\ \A i \in DOMAIN e.set : Types(e.set[i], before) # {})
          [] e.op = "case" ->
                IF /\ e.cases # << >>
                   /\ \A i \in DOMAIN e.cases :
                        has(e.cases[i][1], "bool") /\ has(e.cases[i][2], "word")
                THEN {"word"} ELSE {}

truth(cond) == IF cond THEN 1 ELSE 0

\* The value of an expression when env gives that of every number and of
\* every signal's C text.
RECURSIVE Meaning(_, _, _)
Meaning(e, before, env) ==
    LET val(x) == Meaning(x, before, env) IN
    CASE e.op = "var" -> env[firstSignal(e.name, before).text]
      [] e.op = "num" -> env[e.text]
      [] e.op = "not" -> 1 - val(e.arg)
      [] e.op = "and" -> truth(val(e.left) = 1 /\ val(e.right) = 1)
      [] e.op = "or" -> truth(val(e.left) = 1 \/ val(e.right) = 1)
      [] e.op = "comp" -> Binary(e.sign, val(e.left), val(e.right))
      [] e.op = "in" -> truth(\E i \in DOMAIN e.set : val(e.set[i]) = val(e.left))
      [] e.op = "case" ->
            LET at == SelectInSeq(e.cases, LAMBDA c : val(c[1]) = 1)
            IN  IF at = 0 THEN 0 ELSE val(e.cases[at][2])

-----------------------------------------------------------------------------

wellTyped(i) ==
    LET before == SubSeq(read, 1, i - 1)
    IN  IF read[i].kind = "signal" THEN Len(signals(before)) < SYM_LIM
        ELSE (IF read[i].isbool THEN "bool" ELSE "word") \in Types(read[i].expr, before)

\* hcl2c accepts exactly the well-typed files: errors are counted as they are
\* met and the translation goes on, but none gets lost on the way to the
\* exit status, whatever is declared twice, late, or never (hcl.y main).
ErrorsExact ==
    /\ (errcnt = 0) = (\A i \in DOMAIN read : wellTyped(i))
    /\ status = "exit0" => statements = << >> /\ errcnt = 0
    /\ status = "crash" => errcnt > 0

\* The values of the numbers, and any of the signals.
Valuations ==
    LET decls == signals(read)
        texts(isbool) == {decls[i].text : i \in {j \in DOMAIN decls : decls[j].isbool = isbool}}
        numbers == ("0" :> 0) @@ ("1" :> 1) @@ ("2" :> 2)
    IN  {numbers @@ b @@ w : b \in [texts(TRUE) -> {0, 1}], w \in [texts(FALSE) -> Words]}

\* A file without errors: every C function returns what its HCL definition
\* means, for all values of the signals ("Functions to generate C or Verilog
\* code from HCL", node.c 1).
GeneratedMeansSource ==
    errcnt = 0 =>
        /\ status # "crash"
        /\ \A i \in DOMAIN functions : \A env \in Valuations :
                Value(functions[i].tokens, env) = Meaning(functions[i].of, functions[i].before, env)
=============================================================================
