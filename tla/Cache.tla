------------------------------- MODULE Cache -------------------------------
(***************************************************************************)
(* The memory-hierarchy simulator of Project 4: two cache levels over main *)
(* memory, and the trace loop of main.cpp.  L1's next level is L2, or the  *)
(* memory unless --enable-l2 is given.                                     *)
(***************************************************************************)
EXTENDS Integers, FiniteSets, Sequences

CONSTANTS
    CommandLines,     \* the arguments main is run with
    Address,          \* the addresses that traces use
    AddrSpace,        \* 2^64 in the code: addresses are taken modulo it
    Throttle,         \* BIPPolicy::throttle
    MaxAccesses,      \* bound on the length of a trace
    BitAnd(_, _),     \* C's & and | on addresses
    BitOr(_, _)

ASSUME CommandLineAssumption ==
    \A c \in CommandLines :
        /\ {c.assoc, c.block, c.latency, c.mem_latency} \subseteq Nat \ {0}
        /\ c.size \in Nat /\ c.size >= c.assoc * c.block
        /\ c.enable_l2 \in BOOLEAN
        /\ {c.l1_policy, c.l2_policy} \subseteq {"LRU", "SRRIP", "BIP"}
        /\ {c.l1_prefetcher, c.l2_prefetcher}
             \subseteq {"None", "NextLine", "Stride", "Custom"}

ASSUME AddressAssumption ==
    /\ AddrSpace \in Nat \ {0} /\ Address \subseteq 0 .. AddrSpace - 1
    /\ Throttle \in Nat \ {0} /\ MaxAccesses \in Nat

VARIABLES
    args,          \* main's arguments
    h,             \* the hierarchy: L1, L2, memory, and main's cycle
    total_cycles,  \* main's total_cycles
    trace          \* history: the accesses so far

vars == <<args, h, total_cycles, trace>>

-----------------------------------------------------------------------------
(* The objects that main connects.                                         *)

\* Mutant: write-backs are not counted.
MemoryAccess_reads(h0, a, type, patch) ==
    LET b == a \div h0.memory.block
        data == [o \in DOMAIN h0.memory.data[b] |->
                    IF o \in DOMAIN patch THEN patch[o] ELSE h0.memory.data[b][o]]
    IN  [h    |-> [h0 EXCEPT !.memory.access_count = @ + (IF type = "r" THEN 1 ELSE 0),
                             !.memory.data[b] = data],
         data |-> data,
         lat  |-> h0.memory.latency]

\* Main memory; its data, like that of the lines, is ghost state.
MemoryAccess(h0, a, type, patch) ==
    LET b == a \div h0.memory.block
        data == [o \in DOMAIN h0.memory.data[b] |->
                    IF o \in DOMAIN patch THEN patch[o] ELSE h0.memory.data[b][o]]
    IN  [h    |-> [h0 EXCEPT !.memory.access_count = @ + 1, !.memory.data[b] = data],
         data |-> data,
         lat  |-> h0.memory.latency]

L2 == INSTANCE CacheLevel WITH level <- "L2", next_access <- MemoryAccess

\* l1_next, the level that L1 misses go to.
L1Next(h0, a, type, patch) ==
    IF h0.enable_l2 THEN L2!access(h0, a, type, patch)
    ELSE MemoryAccess(h0, a, type, patch)

L1 == INSTANCE CacheLevel WITH level <- "L1", next_access <- L1Next

\* The CacheConfig of each level; L2 is four times L1.
l1_cfg(c) ==
    [size |-> c.size, assoc |-> c.assoc, block |-> c.block, latency |-> c.latency,
     policy |-> c.l1_policy, prefetcher |-> c.l1_prefetcher]

l2_cfg(c) ==
    [size |-> 4 * c.size, assoc |-> c.assoc, block |-> c.block, latency |-> 4 * c.latency,
     policy |-> c.l2_policy, prefetcher |-> c.l2_prefetcher]

MainMemory(c) ==
    [access_count |-> 0, latency |-> c.mem_latency, block |-> c.block,
     data |-> [b \in 0 .. (AddrSpace - 1) \div c.block |-> [o \in 0 .. c.block - 1 |-> 0]]]

-----------------------------------------------------------------------------
(* The loop of main over the lines of the trace.                           *)

Init ==
    /\ args \in CommandLines
    /\ h = [L1 |-> L1!CacheLevel(l1_cfg(args)), L2 |-> L2!CacheLevel(l2_cfg(args)),
            memory |-> MainMemory(args), enable_l2 |-> args.enable_l2, cycle |-> 0]
    /\ total_cycles = 0
    /\ trace = <<>>

block_of(a) == a \div args.block
offset_of(a) == a % args.block

\* One line of the trace.  A write stores the number of its cycle.
TraceLine(type, a) ==
    /\ h.cycle < MaxAccesses
    /\ LET now == h.cycle + 1
           patch == [o \in IF type = "w" THEN {offset_of(a)} ELSE {} |-> now]
           done == L1!access([h EXCEPT !.cycle = now], a, type, patch)
       IN  /\ h' = done.h
           /\ total_cycles' = total_cycles + done.lat
           /\ trace' = Append(trace, [type |-> type, addr |-> a,
                                      val |-> done.data[offset_of(a)]])
    /\ UNCHANGED args

Next == \E a \in Address : TraceLine("r", a) \/ TraceLine("w", a)

Spec == Init /\ [][Next]_vars

-----------------------------------------------------------------------------
(* Properties.                                                             *)

\* The ways of level l that hold the block at address a.
ways_with(l, a) == IF l = "L1" THEN L1!ways_with(h, a) ELSE L2!ways_with(h, a)
get_index(l, a) == IF l = "L1" THEN L1!get_index(h, a) ELSE L2!get_index(h, a)

Levels == IF args.enable_l2 THEN {"L1", "L2"} ELSE {"L1"}

LineType(l) ==
    [tag : Nat, valid : BOOLEAN, dirty : BOOLEAN, last_access : 0 .. h.cycle,
     rrpv : 0 .. 3, is_prefetched : BOOLEAN,
     data : [0 .. args.block - 1 -> 0 .. h.cycle]]

\* The sizes that the address arithmetic of the levels is right for.
ExactGeometry ==
    \A c \in CommandLines : L1!PowersOfTwo(l1_cfg(c)) /\ L2!PowersOfTwo(l2_cfg(c))

\* In particular no rrpv exceeds 3, where the search of SRRIP's getVictim for
\* a line with rrpv 3 would age the set for ever.
TypeOK ==
    /\ args \in CommandLines
    /\ \A l \in Levels :
        /\ h[l].sets \in [0 .. h[l].num_sets - 1 -> [0 .. args.assoc - 1 -> LineType(l)]]
        /\ {h[l].hits, h[l].misses, h[l].write_backs, h[l].prefetch_issued,
            h[l].insertion_counter, h[l].last_block} \subseteq Nat
    /\ h.memory.access_count \in Nat
    /\ h.cycle = Len(trace) /\ total_cycles \in Nat

\* No two lines of a set hold the same block, although blocks arrive by
\* demand, by prefetch and by write-back from above (memory_hierarchy.cpp
\* 113-117, 158-162).
UniqueTags ==
    \A l \in Levels : \A i \in DOMAIN h[l].sets :
        LET set == h[l].sets[i]
        IN  \A v, w \in DOMAIN set :
                set[v].valid /\ set[w].valid /\ set[v].tag = set[w].tag => v = w

\* The data of level l for the block at address a, if it has that block.
dataIn(l, a) == {h[l].sets[get_index(l, a)][w].data : w \in ways_with(l, a)}

\* What a level and those below it hold of the block at address a.
heldL2(a) ==
    LET found == IF args.enable_l2 THEN dataIn("L2", a) ELSE {}
    IN  IF found = {} THEN h.memory.data[block_of(a)] ELSE CHOOSE d \in found : TRUE

held(a) ==
    LET found == dataIn("L1", a)
    IN  IF found = {} THEN heldL2(a) ELSE CHOOSE d \in found : TRUE

\* A line that is not dirty may be dropped at any moment: what lies below has
\* the same data (a line is clean after a fill or a prefetch, 133 and 168, and
\* an evicted dirty one is written back before it is overwritten, 129).
CleanMatchesBelow ==
    \A l \in Levels : \A b \in DOMAIN h.memory.data :
        LET a == b * args.block
            below == IF l = "L1" THEN heldL2(a) ELSE h.memory.data[b]
        IN  \A w \in ways_with(l, a) :
                LET line == h[l].sets[get_index(l, a)][w]
                IN  line.dirty \/ line.data = below

\* The lines are those of a memory that could be flushed or refetched at any
\* moment: one copy of a block in each level, and every clean one expendable.
LinesConsistent == UniqueTags /\ CleanMatchesBelow

contents == [a \in Address |-> held(a)[offset_of(a)]]

Memory == INSTANCE Store WITH store <- contents, Value <- 0 .. MaxAccesses

\* The hierarchy behaves like a plain memory, for every policy, prefetcher and
\* number of levels: every read hits or fetches the block it asks for, with
\* all writes to it, however often it was evicted and written back
\* (memory_hierarchy.cpp 69-171).
BehavesAsMemory == Memory!Spec

\* The last use of a block, 0 if none.
lastUse(b) ==
    LET uses == {k \in DOMAIN trace : block_of(trace[k].addr) = b}
    IN  IF uses = {} THEN 0 ELSE CHOOSE k \in uses : \A j \in uses : j <= k

\* LRU without prefetching keeps in each set of L1 the `assoc` blocks used
\* last, so that L1 hits exactly when fewer than `assoc` other blocks of the
\* set were used since (repl_policy.cpp 8-25).
LRUKeepsRecent ==
    args.l1_policy = "LRU" /\ args.l1_prefetcher = "None" =>
        \A a \in Address :
            LET b == block_of(a)
                rivals == {c \in {block_of(x) : x \in Address} :
                             /\ get_index("L1", c * args.block) = get_index("L1", a)
                             /\ lastUse(c) > lastUse(b)}
            IN  ways_with("L1", a) # {}
                  <=> lastUse(b) > 0 /\ Cardinality(rivals) < args.assoc

\* Under LRU and with two ways, a prefetch does not push out the block just
\* demanded, although both lines carry the same time (135 and 170).
PrefetchSparesDemand ==
    args.l1_policy = "LRU" /\ args.assoc > 1 /\ h.cycle > 0 =>
        ways_with("L1", trace[h.cycle].addr) # {}

\* Each level sees one access for each miss and each write-back of the level
\* above and at most one for each prefetch that one issued; blocks are not
\* written back more often than they are written; only demand misses cost
\* cycles.  These are the figures printStats and main print.
Accounting ==
    LET accesses(l) == h[l].hits + h[l].misses
        below(l) == IF l = "L1" /\ args.enable_l2 THEN accesses("L2")
                    ELSE h.memory.access_count
        writes == Cardinality({k \in DOMAIN trace : trace[k].type = "w"})
        dirty == {p \in (DOMAIN h.L1.sets) \X (0 .. args.assoc - 1) :
                    h.L1.sets[p[1]][p[2]].dirty}
        missCycles == total_cycles - h.cycle * args.latency
        l2 == IF args.enable_l2 THEN h.L2.config.latency ELSE 0
        least == IF args.enable_l2 THEN 0 ELSE args.mem_latency
    IN  /\ accesses("L1") = h.cycle
        /\ \A l \in Levels :
            below(l) - h[l].misses - h[l].write_backs \in 0 .. h[l].prefetch_issued
        /\ h.L1.write_backs + Cardinality(dirty) <= writes
        /\ missCycles >= h.L1.misses * (l2 + least)
        /\ missCycles <= h.L1.misses * (l2 + args.mem_latency)
=============================================================================
