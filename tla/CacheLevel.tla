----------------------------- MODULE CacheLevel -----------------------------
(***************************************************************************)
(* One level of the memory hierarchy of Project 4: class CacheLevel of     *)
(* memory_hierarchy.cpp with the policies of repl_policy.cpp and the       *)
(* prefetchers of prefetcher.cpp.                                          *)
(*                                                                         *)
(* CacheLevel::access is one call that calls the next level's access for a *)
(* write-back, for the demanded block and for each prefetched block, in    *)
(* that order.  The operators pass the hierarchy h from call to call in    *)
(* the same order; the levels are h.L1 and h.L2, and h.cycle is the time.  *)
(*                                                                         *)
(* The simulator stores tags only.  To say what its tags, dirty bits and   *)
(* write-backs stand for, each line also carries the data that a cache     *)
(* taking these decisions would hold.  No decision reads this ghost data.  *)
(***************************************************************************)
EXTENDS Integers, SequencesExt

CONSTANTS
    level,                    \* level_name, the field of h that this level is
    next_access(_, _, _, _),  \* next_level->access, see access
    AddrSpace,                \* 2^64 in the code: addresses are modulo it
    Throttle,                 \* BIPPolicy::throttle
    BitAnd(_, _),             \* C's & and | on addresses
    BitOr(_, _)

\* The data of a block after the writes of `patch`.
patched(data, patch) ==
    [o \in DOMAIN data |-> IF o \in DOMAIN patch THEN patch[o] ELSE data[o]]

-----------------------------------------------------------------------------
(* Construction and geometry.                                              *)

CacheLine(block_size) ==
    [tag |-> 0, valid |-> FALSE, dirty |-> FALSE, last_access |-> 0, rrpv |-> 3,
     is_prefetched |-> FALSE, data |-> [o \in 0 .. block_size - 1 |-> 0]]

\* The integer part of the logarithm: log2 assigned to a uint32_t.
log2(n) == CHOOSE k \in 0 .. n : 2^k <= n /\ n < 2^(k + 1)

CacheLevel(config) ==
    LET num_sets == config.size \div (config.block * config.assoc)
    IN  [config |-> config, num_sets |-> num_sets,
         offset_bits |-> log2(config.block), index_bits |-> log2(num_sets),
         sets |-> [i \in 0 .. num_sets - 1 |->
                     [w \in 0 .. config.assoc - 1 |-> CacheLine(config.block)]],
         hits |-> 0, misses |-> 0, write_backs |-> 0, prefetch_issued |-> 0,
         insertion_counter |-> 0, last_block |-> 0, last_stride |-> 0]

get_index(h, a) == BitAnd(a \div 2^h[level].offset_bits, h[level].num_sets - 1)

get_tag(h, a) == a \div 2^(h[level].offset_bits + h[level].index_bits)

\* Mutant: the index goes where the tag belongs.
reconstruct_addr_shifted(h, tag, i) ==
    LET lev == h[level]
    IN  BitOr(tag * 2^lev.offset_bits, i * 2^lev.offset_bits) % AddrSpace

reconstruct_addr(h, tag, i) ==
    LET lev == h[level]
    IN  BitOr(tag * 2^(lev.offset_bits + lev.index_bits), i * 2^lev.offset_bits)
          % AddrSpace

\* Mutant: the search skips what the prefetcher brought.
ways_with_demand(h, a) ==
    LET set == h[level].sets[get_index(h, a)]
    IN  {w \in DOMAIN set : /\ set[w].valid /\ set[w].tag = get_tag(h, a)
                            /\ ~set[w].is_prefetched}

\* The ways that hold the block at address a.
ways_with(h, a) ==
    LET set == h[level].sets[get_index(h, a)]
    IN  {w \in DOMAIN set : set[w].valid /\ set[w].tag = get_tag(h, a)}

first(ways) == CHOOSE w \in ways : \A v \in ways : w <= v
last(ways) == CHOOSE w \in ways : \A v \in ways : v <= w

-----------------------------------------------------------------------------
(* Replacement policies.                                                   *)

\* Mutant: hits do not count, first in is first out.
onHit_fifo(h, line) == line

onHit(h, line) ==
    IF h[level].config.policy = "SRRIP" THEN [line EXCEPT !.rrpv = 0]
    ELSE [line EXCEPT !.last_access = h.cycle]

\* BIP inserts at the LRU position but for one insertion in Throttle.
onMiss(h, line) ==
    LET policy == h[level].config.policy
    IN  IF policy = "SRRIP" THEN [line EXCEPT !.rrpv = 2]
        ELSE IF policy = "BIP" /\ h[level].insertion_counter % Throttle # 0
        THEN [line EXCEPT !.last_access = 0]
        ELSE [line EXCEPT !.last_access = h.cycle]

\* Mutant: the most recent line goes.
getVictim_recent(policy, set) ==
    LET ways == DOMAIN set
    IN  first({w \in ways : \A v \in ways : set[v].last_access <= set[w].last_access})

\* SRRIP's search ends at the first line of the largest rrpv.
getVictim(policy, set) ==
    LET ways == DOMAIN set
    IN  IF policy = "SRRIP"
        THEN first({w \in ways : \A v \in ways : set[v].rrpv <= set[w].rrpv})
        ELSE first({w \in ways : \A v \in ways : set[w].last_access <= set[v].last_access})

\* Mutant: SRRIP ages the set before it searches.
aged_first(policy, set) ==
    IF policy = "SRRIP" THEN [w \in DOMAIN set |-> [set[w] EXCEPT !.rrpv = @ + 1]]
    ELSE set

\* The set as getVictim leaves it: SRRIP ages it until the victim has rrpv 3.
aged(policy, set) ==
    LET age == 3 - set[getVictim(policy, set)].rrpv
    IN  IF policy = "SRRIP" THEN [w \in DOMAIN set |-> [set[w] EXCEPT !.rrpv = @ + age]]
        ELSE set

-----------------------------------------------------------------------------
(* Prefetchers.                                                            *)

\* The addresses to prefetch after an access to a.
calculatePrefetch(h, a) ==
    LET lev == h[level]
        size == lev.config.block
        block == a \div size
        stride == block - lev.last_block
        ahead == ((block + stride) * size) % AddrSpace
        repeated == stride = lev.last_stride
        prefetcher == lev.config.prefetcher
    IN  CASE prefetcher = "NextLine" -> <<((block + 1) * size) % AddrSpace>>
          [] prefetcher = "Stride" -> IF repeated /\ stride > 0 THEN <<ahead>> ELSE <<>>
          [] prefetcher = "Custom" -> (IF stride # 0 /\ repeated THEN <<ahead>> ELSE <<>>)
                                      \o (IF stride \in {7, 1, 64} THEN <<ahead>> ELSE <<>>)
          [] OTHER -> <<>>

\* The counter, and what the stride prefetchers remember.
prefetcherUpdate(h, a) ==
    LET lev == h[level]
        block == a \div lev.config.block
        strided == lev.config.prefetcher \in {"Stride", "Custom"}
    IN  [h EXCEPT ![level].prefetch_issued = @ + Len(calculatePrefetch(h, a)),
                  ![level].last_block = IF strided THEN block ELSE @,
                  ![level].last_stride = IF strided THEN block - lev.last_block ELSE @]

-----------------------------------------------------------------------------
(* Accesses.  next_access and access take the hierarchy, an address, the   *)
(* type and the bytes that a write changes, and return the hierarchy, the  *)
(* data of the block and the latency.                                      *)

write_back_victim(h, line, i) ==
    IF ~line.dirty THEN h
    ELSE next_access([h EXCEPT ![level].write_backs = @ + 1],
                     reconstruct_addr(h, line.tag, i), "w", line.data).h

\* The common part of a miss and of a prefetch: an invalid line or the
\* policy's victim, written back, takes the block read from below.
install(h, a, type, patch, prefetched) ==
    LET i == get_index(h, a)
        policy == h[level].config.policy
        set == h[level].sets[i]
        free == {w \in DOMAIN set : ~set[w].valid}
        way == IF free # {} THEN first(free) ELSE getVictim(policy, set)
        h1 == IF free # {} THEN h ELSE [h EXCEPT ![level].sets[i] = aged(policy, set)]
        h2 == write_back_victim(h1, set[way], i)
        fetched == next_access(h2, a, "r", <<>>)
        h3 == [fetched.h EXCEPT ![level].insertion_counter = IF policy = "BIP" THEN @ + 1 ELSE @]
        data == patched(fetched.data, patch)
    IN  [h    |-> [h3 EXCEPT ![level].sets[i][way] =
                     onMiss(h3, [@ EXCEPT
                                   !.valid = TRUE, !.tag = get_tag(h, a),
                                   !.dirty = (type = "w"),
                                   !.is_prefetched = prefetched, !.data = data])],
         data |-> data,
         lat  |-> fetched.lat]

install_prefetch(h, a) ==
    IF ways_with(h, a) # {} THEN h ELSE install(h, a, "r", <<>>, TRUE).h

\* Mutant: a write hit leaves the line clean.
touched_clean(line, type) == [line EXCEPT !.is_prefetched = FALSE]

touched(line, type) ==
    [line EXCEPT !.dirty = @ \/ type = "w", !.is_prefetched = FALSE]

\* A hit; of several the last one counts.
hit(h, a, type, patch) ==
    LET i == get_index(h, a)
        way == last(ways_with(h, a))
        data == patched(h[level].sets[i][way].data, patch)
    IN  [h    |-> [h EXCEPT
                    ![level].hits = @ + 1,
                    ![level].sets[i][way] =
                        onHit(h, [touched(@, type) EXCEPT !.data = data])],
         data |-> data,
         lat  |-> 0]

access(h, a, type, patch) ==
    LET demand ==
            IF ways_with(h, a) # {} THEN hit(h, a, type, patch)
            ELSE install([h EXCEPT ![level].misses = @ + 1], a, type, patch, FALSE)
    IN  [h    |-> FoldLeft(install_prefetch, prefetcherUpdate(demand.h, a),
                           calculatePrefetch(demand.h, a)),
         data |-> demand.data,
         lat  |-> h[level].config.latency + demand.lat]

-----------------------------------------------------------------------------
\* What get_index, get_tag and reconstruct_addr take for granted: block size
\* and number of sets are powers of two, and masks and ors of addresses are
\* remainders and sums (memory_hierarchy.cpp 48-67).
PowersOfTwo(config) ==
    LET block == config.block
        sets == config.size \div (block * config.assoc)
        o == log2(block)
        s == log2(sets)
    IN  /\ 2^o = block /\ 2^s = sets /\ 2^(o + s) = block * sets
        /\ \A n \in 0 .. AddrSpace - 1 :
            /\ BitAnd(n, sets - 1) = n % sets
            /\ \A i \in 0 .. sets - 1 :
                n * (block * sets) < AddrSpace =>
                    BitOr(n * (block * sets), i * block) = n * (block * sets) + i * block
=============================================================================
