------------------------------- MODULE Store -------------------------------
(***************************************************************************)
(* What a memory hierarchy promises the processor, whatever lies between   *)
(* it and the memory: a read returns what the last write left.             *)
(***************************************************************************)
EXTENDS Integers, Sequences

CONSTANTS
    Address,   \* the addresses of the processor's accesses
    Value      \* the values of an address; 0 is the initial one

VARIABLES
    store,   \* the value of each address
    trace    \* the accesses so far, reads with their answers

vars == <<store, trace>>

Init == store = [a \in Address |-> 0] /\ trace = <<>>

answered(type, a, v) == Append(trace, [type |-> type, addr |-> a, val |-> v])

Read(a, v) ==
    /\ trace' = answered("r", a, v)
    /\ v = store[a]
    /\ UNCHANGED store

Write(a, v) ==
    /\ trace' = answered("w", a, v)
    /\ store' = [store EXCEPT ![a] = v]

Next == \E a \in Address : \E v \in Value : Read(a, v) \/ Write(a, v)

Spec == Init /\ [][Next]_vars
=============================================================================
