------------------------------- MODULE MCHcl -------------------------------
(***************************************************************************)
(* HCL files with three declarations, one of them a repetition, and two    *)
(* definitions nested up to two operators deep.                            *)
(***************************************************************************)
EXTENDS Hcl

b == Signal("b", "cond", TRUE)
w == Signal("w", "state->w", FALSE)
v == Signal("v", "state->v", FALSE)

\* The second declaration of a name, with the other type.
again == Signal("w", "state->cond", TRUE)

Declarations == {<<b, w>>, <<w, b>>, <<w, again, b>>, <<b, w, v>>, <<b>>, <<b, w, v, again>>}

Trees(xs, ys) ==
    {Not(x) : x \in xs}
    \cup {And(x, y) : x \in xs, y \in ys} \cup {Or(x, y) : x \in xs, y \in ys}
    \cup {Comp(sign, x, y) : sign \in {"==", "<"}, x \in xs, y \in ys}
    \cup {In(x, <<y>>) : x \in xs, y \in ys}
    \cup {In(x, <<Num("2"), y>>) : x \in xs, y \in ys}
    \cup {Case(<< <<x, y>> >>) : x \in xs, y \in ys}
    \cup {Case(<< <<x, y>>, <<Num("1"), Var("w")>> >>) : x \in xs, y \in ys}
    \cup {Case(<< <<Var("b"), Num("2")>>, <<x, y>> >>) : x \in xs, y \in ys}

Shallow == {Var("b"), Var("w"), Num("1"), Num("2"), Case(<< >>)}

\* Operands of every operator, well-typed and not.
Nested ==
    {Not(Var("b")), And(Var("b"), Num("1")), Or(Not(Var("b")), Var("v")),
     Comp("<", Var("w"), Num("2")), Comp("==", Var("b"), Num("1")),
     In(Var("w"), <<Num("1"), Var("w")>>), In(Num("2"), <<Var("b")>>),
     Case(<< <<Var("b"), Var("w")>> >>),
     Case(<< <<Var("b"), Num("2")>>, <<Num("1"), Var("w")>>, <<Var("w"), Num("0")>> >>)}

\* A case expression stands nowhere in a set: make_ele and gen_expr chain the
\* elements by the same field `next` as the cases.
Sane(e) == e.op = "in" => \A i \in DOMAIN e.set : e.set[i].op # "case"

Bodies == Shallow \cup {e \in Trees(Shallow \cup Nested, Shallow \cup Nested) : Sane(e)}

\* A second definition with more errors than the first leaves room for.
Wrong == Function("u", And(Var("u"), Not(Var("u"))), TRUE)

MCPrograms ==
    {d \o <<Function("f", e, isbool)>> : d \in Declarations, e \in Bodies, isbool \in BOOLEAN}
    \cup {<<b, Function("f", e, TRUE), w, Function("g", e, TRUE), Wrong>> : e \in Bodies}
=============================================================================
