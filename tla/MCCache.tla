------------------------------ MODULE MCCache ------------------------------
(***************************************************************************)
(* The cache hierarchy on every trace of a few accesses.  Sizes are in     *)
(* bytes.  Addresses 2, 18 and 34 fall into one set of L1 and of L2, so    *)
(* that both levels evict, and lie a constant stride apart; 2 and 3 are    *)
(* bytes of one block.                                                     *)
(***************************************************************************)
EXTENDS Cache, Bitwise

MCAddress == {2, 3, 18, 34}
MCAnd(a, b) == a & b
MCOr(a, b) == a | b

command(size, assoc, p1, f1, l2, p2, f2) ==
    [size |-> size, assoc |-> assoc, block |-> 2, latency |-> 1, mem_latency |-> 10,
     l1_policy |-> p1, l1_prefetcher |-> f1, enable_l2 |-> l2,
     l2_policy |-> p2, l2_prefetcher |-> f2]

MCCommandLines == {
    command(8, 2, "LRU", "None", TRUE, "LRU", "Stride"),
    command(8, 2, "LRU", "NextLine", FALSE, "LRU", "None"),
    command(4, 2, "LRU", "Custom", TRUE, "SRRIP", "NextLine"),
    command(6, 3, "SRRIP", "NextLine", TRUE, "BIP", "None"),
    command(4, 1, "BIP", "Custom", TRUE, "LRU", "Stride"),
    command(4, 2, "BIP", "Stride", TRUE, "SRRIP", "Custom") }

ASSUME ExactGeometry
=============================================================================
