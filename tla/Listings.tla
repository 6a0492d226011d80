------------------------------ MODULE Listings ------------------------------
(***************************************************************************)
(* The programs the scheduler is checked on: every listing of at most      *)
(* MaxLines lines drawn from eight, over four registers with one name      *)
(* each.  The lines have every kind of operand form and all four           *)
(* latencies, one reads what it writes, and registers are written and read *)
(* often enough for all three kinds of dependency and for ties.            *)
(***************************************************************************)
EXTENDS Integers

CONSTANT MaxLines

reg(r) == [text |-> r, base |-> "none"]
imm == [text |-> "8", base |-> "none"]
at(b) == [text |-> "0", base |-> b]
line(op, operands) == [opcode |-> op, ops |-> operands]

MCNames == [r \in {"x1", "x2", "x3", "x4"} |-> r]

MCText == DOMAIN MCNames \cup {"8", "0", "none"}

MCLines ==
  {line("lw", <<reg("x1"), at("x2")>>),
   line("div", <<reg("x3"), reg("x1"), reg("x1")>>),
   line("mul", <<reg("x2"), reg("x3"), reg("x1")>>),
   line("addi", <<reg("x1"), reg("x1"), imm>>),
   line("li", <<reg("x3"), imm>>),
   line("sw", <<reg("x1"), at("x2")>>),
   line("beq", <<reg("x2"), reg("x3"), imm>>),
   line("neg", <<reg("x4"), reg("x3")>>)}

MCListings == UNION {[1 .. n -> MCLines] : n \in 0 .. MaxLines}
MCPolicies == <<"SMALLER_INDEX", "LPT", "MOST_CHILD">>
=============================================================================
