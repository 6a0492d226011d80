----------------------------- MODULE CacheProof -----------------------------
(***************************************************************************)
(* The hierarchy behaves like a plain memory, for every command line whose *)
(* block sizes and numbers of sets are powers of two, every trace and      *)
(* every address space.                                                    *)
(*                                                                         *)
(* CacheLevelProof shows that a level answers as the next level does if    *)
(* the next level keeps its contract.  Here the memory is shown to keep    *)
(* it, so L2 before it does, so L1 before either does.  A second contract, *)
(* for the counters, goes the same way.                                    *)
(***************************************************************************)
EXTENDS Cache, TLAPS, FiniteSetTheorems

Space == 0 .. AddrSpace - 1

\* The data of the block at address a in the memory.
MemData(g, a) == g.memory.data[a \div g.memory.block]

MemInv(g) ==
  /\ DOMAIN g = {"L1", "L2", "memory", "enable_l2", "cycle"}
  /\ g.cycle \in Nat /\ AddrSpace \in Nat \ {0}
  /\ DOMAIN g.memory = {"access_count", "latency", "block", "data"}
  /\ g.memory.access_count \in Nat /\ g.memory.latency \in Nat
  /\ g.memory.block \in Nat \ {0}
  /\ DOMAIN g.memory.data = 0 .. (AddrSpace - 1) \div g.memory.block
  /\ \A b \in DOMAIN g.memory.data :
       g.memory.data[b] \in [0 .. g.memory.block - 1 -> 0 .. g.cycle]

\* Its calls, and the time that each takes.
MemCount(g) == g.memory.access_count
MemLat(g) == {g.memory.latency}
MemOk(g) == TRUE

L2P == INSTANCE CacheLevelProof
         WITH level <- "L2", next_access <- MemoryAccess, nextInv <- MemInv, nextMem <- MemData,
              nextCount <- MemCount, nextLat <- MemLat, nextOk <- MemOk

\* What L1 finds below it.
BelowInv(g) ==
  /\ g.enable_l2 \in BOOLEAN /\ MemInv(g)
  /\ g.enable_l2 => L2P!LevelInv(g)

BelowData(g, a) == IF g.enable_l2 THEN L2P!levelMem(g, a) ELSE MemData(g, a)

BelowCount(g) == IF g.enable_l2 THEN g.L2.hits + g.L2.misses ELSE MemCount(g)

BelowLat(g) ==
  IF g.enable_l2 THEN {g.L2.config.latency, g.L2.config.latency + g.memory.latency}
  ELSE MemLat(g)

\* The calls of L2 are its misses, its write-backs and some of its prefetches.
BelowOk(g) == g.enable_l2 => L2P!Spare(g) \in 0 .. g.L2.prefetch_issued

L1P == INSTANCE CacheLevelProof
         WITH level <- "L1", next_access <- L1Next, nextInv <- BelowInv, nextMem <- BelowData,
              nextCount <- BelowCount, nextLat <- BelowLat, nextOk <- BelowOk

-----------------------------------------------------------------------------
(***************************************************************************)
(* The operators of the two instances are those of Cache.                  *)
(***************************************************************************)

LEMMA L2Copies ==
    /\ \A g, a : L2!get_index(g, a) = L2P!get_index(g, a) /\ L2!ways_with(g, a) = L2P!ways_with(g, a)
    /\ \A c : L2!CacheLevel(c) = L2P!CacheLevel(c) /\ L2!PowersOfTwo(c) = L2P!PowersOfTwo(c)
    /\ \A g, a, type, patch : L2!access(g, a, type, patch) = L2P!access(g, a, type, patch)
<1>1. \A g, a : L2!get_index(g, a) = L2P!get_index(g, a) /\ L2!get_tag(g, a) = L2P!get_tag(g, a)
  BY DEF L2!get_index, L2P!get_index, L2!get_tag, L2P!get_tag
<1>2. \A g, a : L2!ways_with(g, a) = L2P!ways_with(g, a)
  BY <1>1 DEF L2!ways_with, L2P!ways_with
<1>3. \A c : L2!CacheLevel(c) = L2P!CacheLevel(c) /\ L2!PowersOfTwo(c) = L2P!PowersOfTwo(c)
  BY DEF L2!CacheLevel, L2P!CacheLevel, L2!CacheLine, L2P!CacheLine, L2!log2, L2P!log2,
         L2!PowersOfTwo, L2P!PowersOfTwo
<1>4. \A S : L2!first(S) = L2P!first(S) /\ L2!last(S) = L2P!last(S)
  BY Zenon DEF L2!first, L2P!first, L2!last, L2P!last
<1>5. \A data, patch : L2!patched(data, patch) = L2P!patched(data, patch)
  BY DEF L2!patched, L2P!patched
<1>6. \A policy, set : L2!getVictim(policy, set) = L2P!getVictim(policy, set)
  BY <1>4 DEF L2!getVictim, L2P!getVictim
<1>7. \A policy, set : L2!aged(policy, set) = L2P!aged(policy, set)
  BY <1>6 DEF L2!aged, L2P!aged
<1>8. \A g, l : L2!onHit(g, l) = L2P!onHit(g, l) /\ L2!onMiss(g, l) = L2P!onMiss(g, l)
  BY DEF L2!onHit, L2P!onHit, L2!onMiss, L2P!onMiss
<1>9. \A g, l, i : L2!write_back_victim(g, l, i) = L2P!write_back_victim(g, l, i)
  BY DEF L2!write_back_victim, L2P!write_back_victim, L2!reconstruct_addr, L2P!reconstruct_addr
<1>10. ASSUME NEW g, NEW a, NEW type, NEW patch, NEW prefetched
       PROVE  L2!install(g, a, type, patch, prefetched) = L2P!install(g, a, type, patch, prefetched)
  BY <1>1, <1>4, <1>5, <1>6, <1>7, <1>8, <1>9 DEF L2!install, L2P!install
<1>11. \A g, a : L2!install_prefetch(g, a) = L2P!install_prefetch(g, a)
  BY <1>2, <1>10 DEF L2!install_prefetch, L2P!install_prefetch
<1>12. ASSUME NEW g, NEW a, NEW type, NEW patch
       PROVE  L2!hit(g, a, type, patch) = L2P!hit(g, a, type, patch)
  BY <1>1, <1>2, <1>4, <1>5, <1>8 DEF L2!hit, L2P!hit, L2!touched, L2P!touched
<1>13. \A g, a : /\ L2!calculatePrefetch(g, a) = L2P!calculatePrefetch(g, a)
                 /\ L2!prefetcherUpdate(g, a) = L2P!prefetcherUpdate(g, a)
  BY DEF L2!calculatePrefetch, L2P!calculatePrefetch, L2!prefetcherUpdate, L2P!prefetcherUpdate
<1>14. ASSUME NEW u, NEW q
       PROVE  L2!FoldLeft(L2!install_prefetch, u, q) = L2P!FoldLeft(L2P!install_prefetch, u, q)
  <2> DEFINE e(f) == f = [s \in SUBSET DOMAIN q |->
                            IF s = {} THEN u ELSE L2!install_prefetch(f[s \ {L2!Max(s)}], q[L2!Max(s)])]
             p(f) == f = [s \in SUBSET DOMAIN q |->
                            IF s = {} THEN u ELSE L2P!install_prefetch(f[s \ {L2P!Max(s)}], q[L2P!Max(s)])]
  <2>1. L2!FoldLeft(L2!install_prefetch, u, q) = (CHOOSE f : e(f))[DOMAIN q]
    BY DEF L2!FoldLeft, L2!MapThenFoldSet
  <2>2. L2P!FoldLeft(L2P!install_prefetch, u, q) = (CHOOSE f : p(f))[DOMAIN q]
    BY DEF L2P!FoldLeft, L2P!MapThenFoldSet
  <2>3. \A s : L2!Max(s) = L2P!Max(s)
    BY Zenon DEF L2!Max, L2P!Max
  <2>4. \A f : e(f) <=> p(f)
    BY <1>11, <2>3
  <2> HIDE DEF e, p
  <2>5. (CHOOSE f : e(f)) = CHOOSE f : p(f)
    BY <2>4, Zenon
  <2> QED
    BY <2>1, <2>2, <2>5
<1>15. ASSUME NEW g, NEW a, NEW type, NEW patch
       PROVE  L2!access(g, a, type, patch) = L2P!access(g, a, type, patch)
  BY <1>2, <1>10, <1>12, <1>13, <1>14 DEF L2!access, L2P!access
<1> QED
  BY <1>1, <1>2, <1>3, <1>15

LEMMA L1Copies ==
    /\ \A g, a : L1!get_index(g, a) = L1P!get_index(g, a) /\ L1!ways_with(g, a) = L1P!ways_with(g, a)
    /\ \A c : L1!CacheLevel(c) = L1P!CacheLevel(c) /\ L1!PowersOfTwo(c) = L1P!PowersOfTwo(c)
    /\ \A g, a, type, patch : L1!access(g, a, type, patch) = L1P!access(g, a, type, patch)
<1>1. \A g, a : L1!get_index(g, a) = L1P!get_index(g, a) /\ L1!get_tag(g, a) = L1P!get_tag(g, a)
  BY DEF L1!get_index, L1P!get_index, L1!get_tag, L1P!get_tag
<1>2. \A g, a : L1!ways_with(g, a) = L1P!ways_with(g, a)
  BY <1>1 DEF L1!ways_with, L1P!ways_with
<1>3. \A c : L1!CacheLevel(c) = L1P!CacheLevel(c) /\ L1!PowersOfTwo(c) = L1P!PowersOfTwo(c)
  BY DEF L1!CacheLevel, L1P!CacheLevel, L1!CacheLine, L1P!CacheLine, L1!log2, L1P!log2,
         L1!PowersOfTwo, L1P!PowersOfTwo
<1>4. \A S : L1!first(S) = L1P!first(S) /\ L1!last(S) = L1P!last(S)
  BY Zenon DEF L1!first, L1P!first, L1!last, L1P!last
<1>5. \A data, patch : L1!patched(data, patch) = L1P!patched(data, patch)
  BY DEF L1!patched, L1P!patched
<1>6. \A policy, set : L1!getVictim(policy, set) = L1P!getVictim(policy, set)
  BY <1>4 DEF L1!getVictim, L1P!getVictim
<1>7. \A policy, set : L1!aged(policy, set) = L1P!aged(policy, set)
  BY <1>6 DEF L1!aged, L1P!aged
<1>8. \A g, l : L1!onHit(g, l) = L1P!onHit(g, l) /\ L1!onMiss(g, l) = L1P!onMiss(g, l)
  BY DEF L1!onHit, L1P!onHit, L1!onMiss, L1P!onMiss
<1>9. \A g, l, i : L1!write_back_victim(g, l, i) = L1P!write_back_victim(g, l, i)
  BY DEF L1!write_back_victim, L1P!write_back_victim, L1!reconstruct_addr, L1P!reconstruct_addr
<1>10. ASSUME NEW g, NEW a, NEW type, NEW patch, NEW prefetched
       PROVE  L1!install(g, a, type, patch, prefetched) = L1P!install(g, a, type, patch, prefetched)
  BY <1>1, <1>4, <1>5, <1>6, <1>7, <1>8, <1>9 DEF L1!install, L1P!install
<1>11. \A g, a : L1!install_prefetch(g, a) = L1P!install_prefetch(g, a)
  BY <1>2, <1>10 DEF L1!install_prefetch, L1P!install_prefetch
<1>12. ASSUME NEW g, NEW a, NEW type, NEW patch
       PROVE  L1!hit(g, a, type, patch) = L1P!hit(g, a, type, patch)
  BY <1>1, <1>2, <1>4, <1>5, <1>8 DEF L1!hit, L1P!hit, L1!touched, L1P!touched
<1>13. \A g, a : /\ L1!calculatePrefetch(g, a) = L1P!calculatePrefetch(g, a)
                 /\ L1!prefetcherUpdate(g, a) = L1P!prefetcherUpdate(g, a)
  BY DEF L1!calculatePrefetch, L1P!calculatePrefetch, L1!prefetcherUpdate, L1P!prefetcherUpdate
<1>14. ASSUME NEW u, NEW q
       PROVE  L1!FoldLeft(L1!install_prefetch, u, q) = L1P!FoldLeft(L1P!install_prefetch, u, q)
  <2> DEFINE e(f) == f = [s \in SUBSET DOMAIN q |->
                            IF s = {} THEN u ELSE L1!install_prefetch(f[s \ {L1!Max(s)}], q[L1!Max(s)])]
             p(f) == f = [s \in SUBSET DOMAIN q |->
                            IF s = {} THEN u ELSE L1P!install_prefetch(f[s \ {L1P!Max(s)}], q[L1P!Max(s)])]
  <2>1. L1!FoldLeft(L1!install_prefetch, u, q) = (CHOOSE f : e(f))[DOMAIN q]
    BY DEF L1!FoldLeft, L1!MapThenFoldSet
  <2>2. L1P!FoldLeft(L1P!install_prefetch, u, q) = (CHOOSE f : p(f))[DOMAIN q]
    BY DEF L1P!FoldLeft, L1P!MapThenFoldSet
  <2>3. \A s : L1!Max(s) = L1P!Max(s)
    BY Zenon DEF L1!Max, L1P!Max
  <2>4. \A f : e(f) <=> p(f)
    BY <1>11, <2>3
  <2> HIDE DEF e, p
  <2>5. (CHOOSE f : e(f)) = CHOOSE f : p(f)
    BY <2>4, Zenon
  <2> QED
    BY <2>1, <2>2, <2>5
<1>15. ASSUME NEW g, NEW a, NEW type, NEW patch
       PROVE  L1!access(g, a, type, patch) = L1P!access(g, a, type, patch)
  BY <1>2, <1>10, <1>12, <1>13, <1>14 DEF L1!access, L1P!access
<1> QED
  BY <1>1, <1>2, <1>3, <1>15

-----------------------------------------------------------------------------
(***************************************************************************)
(* The contracts.                                                          *)
(***************************************************************************)
LEMMA BlockInMemory ==
    ASSUME NEW g, MemInv(g), NEW a \in Space
    PROVE  a \div g.memory.block \in DOMAIN g.memory.data
<1> DEFINE B == g.memory.block
           n == AddrSpace - 1
           p == a \div B
           q == n \div B
           r == a % B
           s == n % B
<1>1. B \in Nat \ {0} /\ n \in Nat /\ a \in Nat /\ a <= n
  BY DEF MemInv, Space
<1>2. DOMAIN g.memory.data = 0 .. q
  BY DEF MemInv
<1> HIDE DEF B, n
<1>3. /\ p \in Nat /\ r \in 0 .. B - 1 /\ a = B * p + r
      /\ q \in Nat /\ s \in 0 .. B - 1 /\ n = B * q + s
  BY <1>1, L2P!Division
<1> HIDE DEF p, q, r, s
<1>4. ~(q < p)
  <2>1. B * q \in Nat /\ B * p \in Nat
    BY <1>1, <1>3
  <2> QED
    BY <1>1, <1>3, <2>1, L2P!Quotients
<1> QED
  BY <1>2, <1>3, <1>4 DEF p, B

\* The memory does what it is told.
LEMMA MemoryAnswers ==
    ASSUME NEW g, MemInv(g), NEW a \in Space, NEW type, NEW patch,
           \A o \in DOMAIN patch : patch[o] \in 0 .. g.cycle
    PROVE  LET done == MemoryAccess(g, a, type, patch)
           IN  /\ MemInv(done.h)
               /\ done.h.L1 = g.L1 /\ done.h.L2 = g.L2 /\ done.h.cycle = g.cycle
               /\ done.h.enable_l2 = g.enable_l2 /\ done.h.memory.block = g.memory.block
               /\ done.data = L2P!patched(MemData(g, a), patch)
               /\ done.lat \in Nat
               /\ \A b \in Space : MemData(done.h, b) =
                    IF a \div g.memory.block = b \div g.memory.block THEN done.data
                    ELSE MemData(g, b)
<1> DEFINE B == g.memory.block
           p == a \div B
           old == g.memory.data[p]
           data == [o \in DOMAIN old |-> IF o \in DOMAIN patch THEN patch[o] ELSE old[o]]
           f == [g EXCEPT !.memory.access_count = @ + 1, !.memory.data[p] = data]
<1>1. MemoryAccess(g, a, type, patch) = [h |-> f, data |-> data, lat |-> g.memory.latency]
  BY DEF MemoryAccess
<1>2. p \in DOMAIN g.memory.data
  BY BlockInMemory
<1>3. /\ DOMAIN g = {"L1", "L2", "memory", "enable_l2", "cycle"}
      /\ DOMAIN g.memory = {"access_count", "latency", "block", "data"}
      /\ g.memory.access_count \in Nat /\ g.memory.latency \in Nat
  BY DEF MemInv
<1>4. old \in [0 .. B - 1 -> 0 .. g.cycle]
  BY <1>2 DEF MemInv
<1> HIDE DEF p, old
<1>5. data \in [0 .. B - 1 -> 0 .. g.cycle]
  BY <1>4
<1>6. data = L2P!patched(MemData(g, a), patch)
  BY DEF L2P!patched, MemData, old, p
<1> HIDE DEF data
<1>7. /\ f.L1 = g.L1 /\ f.L2 = g.L2 /\ f.cycle = g.cycle /\ f.enable_l2 = g.enable_l2
      /\ f.memory.block = B /\ f.memory.latency = g.memory.latency
      /\ f.memory.access_count = g.memory.access_count + 1
      /\ f.memory.data = [g.memory.data EXCEPT ![p] = data]
      /\ DOMAIN f = DOMAIN g /\ DOMAIN f.memory = DOMAIN g.memory
  BY <1>3
<1> HIDE DEF f
<1>8. /\ DOMAIN f.memory.data = DOMAIN g.memory.data
      /\ f.memory.data[p] = data
      /\ \A b \in DOMAIN g.memory.data : b # p => f.memory.data[b] = g.memory.data[b]
  BY <1>2, <1>7
<1>9. MemInv(f)
  <2>1. \A b \in DOMAIN f.memory.data : f.memory.data[b] \in [0 .. B - 1 -> 0 .. g.cycle]
    <3>1. \A b \in DOMAIN g.memory.data : g.memory.data[b] \in [0 .. B - 1 -> 0 .. g.cycle]
      BY DEF MemInv
    <3> QED
      BY <1>5, <1>8, <3>1
  <2>2. /\ DOMAIN f.memory.data = 0 .. (AddrSpace - 1) \div B
        /\ g.cycle \in Nat /\ AddrSpace \in Nat \ {0} /\ B \in Nat \ {0}
    BY <1>8 DEF MemInv
  <2>3. f.memory.access_count \in Nat
    BY <1>3, <1>7
  <2> HIDE DEF B
  <2> QED
    BY <1>3, <1>7, <2>1, <2>2, <2>3 DEF MemInv
<1>10. \A b \in Space : MemData(f, b) = IF p = b \div B THEN data ELSE MemData(g, b)
  BY <1>7, <1>8, BlockInMemory DEF MemData
<1> QED
  BY <1>1, <1>3, <1>6, <1>7, <1>9, <1>10 DEF p

\* Only the memory, its block size and the time matter to the memory.
LEMMA MemoryFrame ==
    ASSUME NEW g, MemInv(g), NEW f, f.memory = g.memory, f.cycle \in Nat, f.cycle >= g.cycle,
           DOMAIN f = {"L1", "L2", "memory", "enable_l2", "cycle"}
    PROVE  MemInv(f) /\ \A a : MemData(f, a) = MemData(g, a)
<1>1. 0 .. g.cycle \subseteq 0 .. f.cycle
  BY DEF MemInv
<1>2. \A b \in DOMAIN f.memory.data :
        f.memory.data[b] \in [0 .. f.memory.block - 1 -> 0 .. f.cycle]
  BY <1>1 DEF MemInv
<1>3. MemInv(f)
  BY <1>2 DEF MemInv
<1> QED
  BY <1>3 DEF MemData

LEMMA MemoryContract == L2P!NextContract
<1>1. AddrSpace \in Nat \ {0}
  BY AddressAssumption
<1>2. L2P!Addr = Space
  BY DEF L2P!Addr, Space
<1>3. ASSUME NEW g, MemInv(g)
      PROVE  L2P!Shape(g)
  BY <1>3 DEF MemInv, L2P!Shape, L2P!size
<1>4. ASSUME NEW g, MemInv(g), NEW a \in Space
      PROVE  MemData(g, a) \in L2P!Data(g)
  BY <1>4, BlockInMemory DEF MemInv, MemData, L2P!Data, L2P!size
<1>5. ASSUME NEW g, NEW a, NEW b, L2P!sameBlock(g, a, b)
      PROVE  MemData(g, a) = MemData(g, b)
  BY <1>5 DEF MemData, L2P!sameBlock, L2P!size
<1>6. ASSUME NEW g, MemInv(g), NEW x
      PROVE  L2P!SameBelow(g, [g EXCEPT !["L2"] = x])
  <2> DEFINE f == [g EXCEPT !["L2"] = x]
  <2>1. /\ f.memory = g.memory /\ f.cycle = g.cycle /\ f.cycle >= g.cycle /\ f.cycle \in Nat
        /\ DOMAIN f = {"L1", "L2", "memory", "enable_l2", "cycle"}
    BY <1>6 DEF MemInv
  <2> QED
    BY <1>6, <2>1, MemoryFrame DEF L2P!SameBelow
<1>7. ASSUME NEW g, MemInv(g), NEW n \in Nat, n >= g.cycle
      PROVE  L2P!SameBelow(g, [g EXCEPT !.cycle = n])
  <2> DEFINE f == [g EXCEPT !.cycle = n]
  <2>1. /\ f.memory = g.memory /\ f.cycle >= g.cycle /\ f.cycle \in Nat
        /\ DOMAIN f = {"L1", "L2", "memory", "enable_l2", "cycle"}
    BY <1>7 DEF MemInv
  <2> QED
    BY <1>7, <2>1, MemoryFrame DEF L2P!SameBelow
<1>8. ASSUME NEW g, MemInv(g), NEW a \in Space, NEW type, NEW patch,
             L2P!Request(g, type, patch)
      PROVE  L2P!NextAnswers(g, MemoryAccess(g, a, type, patch), a, patch)
  <2> DEFINE done == MemoryAccess(g, a, type, patch)
  <2>1. \A o \in DOMAIN patch : patch[o] \in 0 .. g.cycle
    BY <1>8 DEF L2P!Request
  <2>2. /\ MemInv(done.h)
        /\ done.h.L1 = g.L1 /\ done.h.L2 = g.L2 /\ done.h.cycle = g.cycle
        /\ done.h.enable_l2 = g.enable_l2 /\ done.h.memory.block = g.memory.block
        /\ done.data = L2P!patched(MemData(g, a), patch) /\ done.lat \in Nat
        /\ \A b \in Space : MemData(done.h, b) =
             IF a \div g.memory.block = b \div g.memory.block THEN done.data ELSE MemData(g, b)
    BY <1>8, <2>1, MemoryAnswers
  <2> HIDE DEF done
  <2>3. DOMAIN done.h = DOMAIN g
    BY <1>8, <2>2 DEF MemInv
  <2>4. L2P!SameBut(g, done.h, L2P!Below)
    BY <2>2, <2>3 DEF L2P!SameBut, L2P!size
  <2>5. \A b : L2P!sameBlock(g, a, b) <=> a \div g.memory.block = b \div g.memory.block
    BY DEF L2P!sameBlock, L2P!size
  <2>6. L2P!NextAnswers(g, done, a, patch)
    BY <1>2, <2>2, <2>4, <2>5 DEF L2P!NextAnswers
  <2> QED
    BY <2>6 DEF done
<1> QED
  BY <1>1, <1>2, <1>3, <1>4, <1>5, <1>6, <1>7, <1>8 DEF L2P!NextContract

LEMMA SameVocabulary ==
    /\ L1P!Addr = Space /\ L2P!Addr = Space
    /\ \A g : L1P!Data(g) = L2P!Data(g) /\ (L1P!Shape(g) <=> L2P!Shape(g))
    /\ \A g, a, b : L1P!sameBlock(g, a, b) <=> L2P!sameBlock(g, a, b)
    /\ \A g, type, patch : L1P!Request(g, type, patch) <=> L2P!Request(g, type, patch)
    /\ \A data, patch : L1P!patched(data, patch) = L2P!patched(data, patch)
<1>1. L1P!Addr = Space /\ L2P!Addr = Space
  BY DEF L1P!Addr, L2P!Addr, Space
<1>2. \A g : L1P!Data(g) = L2P!Data(g) /\ (L1P!Shape(g) <=> L2P!Shape(g))
  BY DEF L1P!Data, L2P!Data, L1P!Shape, L2P!Shape, L1P!size, L2P!size
<1>3. \A g, a, b : L1P!sameBlock(g, a, b) <=> L2P!sameBlock(g, a, b)
  BY DEF L1P!sameBlock, L2P!sameBlock, L1P!size, L2P!size
<1>4. \A g, type, patch : L1P!Request(g, type, patch) <=> L2P!Request(g, type, patch)
  BY DEF L1P!Request, L2P!Request
<1>5. \A data, patch : L1P!patched(data, patch) = L2P!patched(data, patch)
  BY DEF L1P!patched, L2P!patched
<1> QED
  BY <1>1, <1>2, <1>3, <1>4, <1>5

LEMMA BelowContract == L1P!NextContract
<1>1. AddrSpace \in Nat \ {0}
  BY AddressAssumption
<1>2. L1P!Addr = Space /\ L2P!Addr = Space
  BY SameVocabulary
<1>3. ASSUME NEW g, BelowInv(g)
      PROVE  L1P!Shape(g)
  BY <1>3 DEF BelowInv, MemInv, L1P!Shape, L1P!size
<1>4. ASSUME NEW g, BelowInv(g), NEW a \in Space
      PROVE  BelowData(g, a) \in L1P!Data(g)
  <2>1. CASE g.enable_l2
    <3>1. L2P!levelMem(g, a) \in L2P!Data(g)
      BY <1>2, <1>4, <2>1, MemoryContract, L2P!LevelMemType DEF BelowInv
    <3> QED
      BY <2>1, <3>1, SameVocabulary DEF BelowData
  <2>2. CASE ~g.enable_l2
    BY <1>4, <2>2, BlockInMemory DEF BelowInv, BelowData, MemInv, MemData, L1P!Data, L1P!size
  <2> QED
    BY <2>1, <2>2
<1>5. ASSUME NEW g, BelowInv(g), NEW a \in Space, NEW b \in Space, L1P!sameBlock(g, a, b)
      PROVE  BelowData(g, a) = BelowData(g, b)
  <2>1. L2P!sameBlock(g, a, b)
    BY <1>5, SameVocabulary
  <2>2. CASE g.enable_l2
    <3>1. L2P!levelMem(g, a) = L2P!levelMem(g, b)
      BY <1>2, <1>5, <2>1, <2>2, MemoryContract, L2P!LevelMemType DEF BelowInv
    <3> QED
      BY <2>2, <3>1 DEF BelowData
  <2>3. CASE ~g.enable_l2
    BY <1>5, <2>3 DEF BelowData, MemData, L1P!sameBlock, L1P!size
  <2> QED
    BY <2>2, <2>3
<1>6. ASSUME NEW g, BelowInv(g), NEW x
      PROVE  L1P!SameBelow(g, [g EXCEPT !["L1"] = x])
  <2> DEFINE f == [g EXCEPT !["L1"] = x]
  <2>1. /\ f.memory = g.memory /\ f.cycle = g.cycle /\ f.cycle >= g.cycle /\ f.cycle \in Nat
        /\ f.enable_l2 = g.enable_l2 /\ f.L2 = g.L2
        /\ DOMAIN f = {"L1", "L2", "memory", "enable_l2", "cycle"}
    BY <1>6 DEF BelowInv, MemInv
  <2> HIDE DEF f
  <2>2. MemInv(f) /\ \A a : MemData(f, a) = MemData(g, a)
    BY <1>6, <2>1, MemoryFrame DEF BelowInv
  <2>3. ASSUME g.enable_l2
        PROVE  L2P!LevelInv(f) /\ \A a \in Space : L2P!levelMem(f, a) = L2P!levelMem(g, a)
    <3>1. f["L2"] = g["L2"] /\ L2P!size(f) = L2P!size(g)
      BY <2>1 DEF L2P!size
    <3> QED
      BY <1>2, <1>6, <2>1, <2>2, <2>3, <3>1, MemoryContract, L2P!AboveIrrelevant DEF BelowInv
  <2>4. BelowInv(f)
    BY <1>6, <2>1, <2>2, <2>3 DEF BelowInv
  <2>5. \A a \in Space : BelowData(f, a) = BelowData(g, a)
    BY <2>1, <2>2, <2>3 DEF BelowData
  <2> QED
    BY <1>2, <2>4, <2>5 DEF L1P!SameBelow, f
<1>7. ASSUME NEW g, BelowInv(g), NEW n \in Nat, n >= g.cycle
      PROVE  L1P!SameBelow(g, [g EXCEPT !.cycle = n])
  <2> DEFINE f == [g EXCEPT !.cycle = n]
  <2>1. /\ f.memory = g.memory /\ f.cycle >= g.cycle /\ f.cycle \in Nat
        /\ f.enable_l2 = g.enable_l2
        /\ DOMAIN f = {"L1", "L2", "memory", "enable_l2", "cycle"}
    BY <1>7 DEF BelowInv, MemInv
  <2>2. ASSUME g.enable_l2
        PROVE  L2P!LevelInv(f) /\ \A a \in Space : L2P!levelMem(f, a) = L2P!levelMem(g, a)
    BY <1>2, <1>7, <2>2, MemoryContract, L2P!TimePasses DEF BelowInv
  <2> HIDE DEF f
  <2>3. MemInv(f) /\ \A a : MemData(f, a) = MemData(g, a)
    BY <1>7, <2>1, MemoryFrame DEF BelowInv
  <2>4. BelowInv(f)
    BY <1>7, <2>1, <2>2, <2>3 DEF BelowInv
  <2>5. \A a \in Space : BelowData(f, a) = BelowData(g, a)
    BY <2>1, <2>2, <2>3 DEF BelowData
  <2> QED
    BY <1>2, <2>4, <2>5 DEF L1P!SameBelow, f
<1>8. ASSUME NEW g, BelowInv(g), NEW a \in Space, NEW type, NEW patch,
             L1P!Request(g, type, patch)
      PROVE  L1P!NextAnswers(g, L1Next(g, a, type, patch), a, patch)
  <2> DEFINE done == L1Next(g, a, type, patch)
  <2>1. /\ L2P!Request(g, type, patch)
        /\ \A b : L1P!sameBlock(g, a, b) <=> L2P!sameBlock(g, a, b)
        /\ \A data : L1P!patched(data, patch) = L2P!patched(data, patch)
    BY <1>8, SameVocabulary
  <2>2. CASE g.enable_l2
    <3> DEFINE done2 == L2P!access(g, a, type, patch)
    <3>1. done = done2
      BY <2>2, L2Copies DEF L1Next
    <3>2. L2P!LevelInv(g)
      BY <1>8, <2>2 DEF BelowInv
    <3>3. L2P!Answers(g, done2, a, patch)
      BY <1>2, <2>1, <3>2, MemoryContract, L2P!AccessAnswers
    <3> HIDE DEF done2
    <3>4. /\ L2P!LevelInv(done2.h) /\ L2P!SameBut(g, done2.h, L2P!Own)
          /\ done2.data = L2P!patched(L2P!levelMem(g, a), patch) /\ done2.lat \in Nat
          /\ \A b \in Space : L2P!levelMem(done2.h, b) =
               IF L2P!sameBlock(g, a, b) THEN done2.data ELSE L2P!levelMem(g, b)
      BY <1>2, <3>3 DEF L2P!Answers
    <3>5. done2.h.enable_l2 = g.enable_l2
      BY <3>4 DEF L2P!SameBut, L2P!Own
    <3>6. L1P!SameBut(g, done2.h, L1P!Below)
      BY <3>4 DEF L2P!SameBut, L2P!Own, L1P!SameBut, L1P!Below, L1P!size, L2P!size
    <3>7. BelowInv(done2.h)
      BY <2>2, <3>4, <3>5 DEF BelowInv, L2P!LevelInv
    <3>8. L1P!NextAnswers(g, done2, a, patch)
      BY <1>2, <2>1, <2>2, <3>4, <3>5, <3>6, <3>7 DEF L1P!NextAnswers, BelowData
    <3> QED
      BY <3>1, <3>8
  <2>3. CASE ~g.enable_l2
    <3> DEFINE doneM == MemoryAccess(g, a, type, patch)
    <3>1. done = doneM
      BY <2>3 DEF L1Next
    <3>2. MemInv(g) /\ \A o \in DOMAIN patch : patch[o] \in 0 .. g.cycle
      BY <1>8, <2>1 DEF BelowInv, L2P!Request
    <3>3. /\ MemInv(doneM.h)
          /\ doneM.h.L1 = g.L1 /\ doneM.h.L2 = g.L2 /\ doneM.h.cycle = g.cycle
          /\ doneM.h.enable_l2 = g.enable_l2 /\ doneM.h.memory.block = g.memory.block
          /\ doneM.data = L2P!patched(MemData(g, a), patch) /\ doneM.lat \in Nat
          /\ \A b \in Space : MemData(doneM.h, b) =
               IF a \div g.memory.block = b \div g.memory.block THEN doneM.data
               ELSE MemData(g, b)
      BY <3>2, MemoryAnswers
    <3> HIDE DEF doneM
    <3>4. DOMAIN doneM.h = DOMAIN g
      BY <3>2, <3>3 DEF MemInv
    <3>5. L1P!SameBut(g, doneM.h, L1P!Below)
      BY <3>3, <3>4 DEF L1P!SameBut, L1P!size
    <3>6. BelowInv(doneM.h)
      BY <1>8, <2>3, <3>3 DEF BelowInv
    <3>7. \A b : L1P!sameBlock(g, a, b) <=> a \div g.memory.block = b \div g.memory.block
      BY DEF L1P!sameBlock, L1P!size
    <3>8. L1P!NextAnswers(g, doneM, a, patch)
      BY <1>2, <2>1, <2>3, <3>3, <3>5, <3>6, <3>7 DEF L1P!NextAnswers, BelowData
    <3> QED
      BY <3>1, <3>8
  <2> QED
    BY <2>2, <2>3
<1> QED
  BY <1>1, <1>2, <1>3, <1>4, <1>5, <1>6, <1>7, <1>8 DEF L1P!NextContract

-----------------------------------------------------------------------------
(***************************************************************************)
(* The run of main.                                                        *)
(***************************************************************************)
Line == [type : {"r", "w"}, addr : Address, val : Nat]

IInv ==
  /\ args \in CommandLines
  /\ L1P!LevelInv(h)
  /\ h.enable_l2 = args.enable_l2 /\ h.memory.block = args.block
  /\ h.L1.config = l1_cfg(args) /\ h.L2.config = l2_cfg(args)
  /\ trace \in Seq(Line) /\ h.cycle = Len(trace)
  /\ total_cycles \in Nat

LEMMA CommandLine ==
    ASSUME NEW c \in CommandLines
    PROVE  /\ l1_cfg(c) \in L1P!Config /\ l2_cfg(c) \in L2P!Config
           /\ c.assoc \in Nat \ {0} /\ c.block \in Nat \ {0} /\ c.mem_latency \in Nat
           /\ c.enable_l2 \in BOOLEAN
           /\ l1_cfg(c).block = c.block /\ l2_cfg(c).block = c.block
           /\ l1_cfg(c).assoc = c.assoc /\ l2_cfg(c).assoc = c.assoc
           /\ l1_cfg(c).size \div (l1_cfg(c).block * l1_cfg(c).assoc) \in Nat \ {0}
           /\ l2_cfg(c).size \div (l2_cfg(c).block * l2_cfg(c).assoc) \in Nat \ {0}
<1>1. /\ c.assoc \in Nat \ {0} /\ c.block \in Nat \ {0} /\ c.latency \in Nat \ {0}
      /\ c.mem_latency \in Nat \ {0}
      /\ c.size \in Nat /\ c.size >= c.assoc * c.block
      /\ c.enable_l2 \in BOOLEAN
      /\ c.l1_policy \in {"LRU", "SRRIP", "BIP"} /\ c.l2_policy \in {"LRU", "SRRIP", "BIP"}
      /\ c.l1_prefetcher \in {"None", "NextLine", "Stride", "Custom"}
      /\ c.l2_prefetcher \in {"None", "NextLine", "Stride", "Custom"}
  BY CommandLineAssumption
<1> DEFINE d == c.block * c.assoc
<1>2. d \in Nat \ {0} /\ d = c.assoc * c.block
  BY <1>1
<1> HIDE DEF d
<1>3. ASSUME NEW n \in Nat, n >= d PROVE n \div d \in Nat \ {0}
  <2> DEFINE q == n \div d
             r == n % d
  <2>1. q \in Nat /\ r \in 0 .. d - 1 /\ n = d * q + r
    BY <1>2, L2P!Division
  <2> HIDE DEF q, r
  <2>2. q # 0
    BY <1>2, <1>3, <2>1
  <2> QED
    BY <2>1, <2>2 DEF q
<1>4. c.size >= d /\ 4 * c.size \in Nat /\ 4 * c.size >= d
  BY <1>1, <1>2
<1>5. c.size \div d \in Nat \ {0} /\ (4 * c.size) \div d \in Nat \ {0}
  BY <1>1, <1>3, <1>4
<1> QED
  BY <1>1, <1>5 DEF l1_cfg, l2_cfg, L1P!Config, L2P!Config, d

\* The hierarchy starts empty, with zeros in the memory.
LEMMA Start ==
    ASSUME ExactGeometry, Init
    PROVE  IInv /\ \A a \in Space : L1P!levelMem(h, a) = [o \in 0 .. args.block - 1 |-> 0]
<1> DEFINE zeros == [o \in 0 .. args.block - 1 |-> 0]
<1>1. /\ args \in CommandLines /\ trace = <<>> /\ total_cycles = 0
      /\ h = [L1 |-> L1!CacheLevel(l1_cfg(args)), L2 |-> L2!CacheLevel(l2_cfg(args)),
              memory |-> MainMemory(args), enable_l2 |-> args.enable_l2, cycle |-> 0]
  BY DEF Init
<1>2. /\ DOMAIN h = {"L1", "L2", "memory", "enable_l2", "cycle"}
      /\ h.L1 = L1P!CacheLevel(l1_cfg(args)) /\ h.L2 = L2P!CacheLevel(l2_cfg(args))
      /\ h.memory = MainMemory(args) /\ h.enable_l2 = args.enable_l2 /\ h.cycle = 0
  BY <1>1, L1Copies, L2Copies
<1>3. h.L1.config = l1_cfg(args) /\ h.L2.config = l2_cfg(args)
  BY <1>2 DEF L1P!CacheLevel, L2P!CacheLevel
<1>4. /\ l1_cfg(args) \in L1P!Config /\ l2_cfg(args) \in L2P!Config
      /\ args.block \in Nat \ {0} /\ args.mem_latency \in Nat /\ args.enable_l2 \in BOOLEAN
      /\ l1_cfg(args).block = args.block /\ l2_cfg(args).block = args.block
      /\ l1_cfg(args).size \div (l1_cfg(args).block * l1_cfg(args).assoc) \in Nat \ {0}
      /\ l2_cfg(args).size \div (l2_cfg(args).block * l2_cfg(args).assoc) \in Nat \ {0}
  BY <1>1, CommandLine
<1>5. L1P!PowersOfTwo(l1_cfg(args)) /\ L2P!PowersOfTwo(l2_cfg(args))
  BY <1>1, L1Copies, L2Copies DEF ExactGeometry
<1>6. /\ DOMAIN h.memory = {"access_count", "latency", "block", "data"}
      /\ h.memory.access_count = 0 /\ h.memory.latency = args.mem_latency
      /\ h.memory.block = args.block
      /\ h.memory.data = [b \in 0 .. (AddrSpace - 1) \div args.block |-> zeros]
  BY <1>2 DEF MainMemory
<1>7. MemInv(h)
  <2>1. zeros \in [0 .. args.block - 1 -> 0 .. 0]
    OBVIOUS
  <2> HIDE DEF zeros
  <2> QED
    BY <1>2, <1>4, <1>6, <2>1, AddressAssumption DEF MemInv
<1>8. \A a \in Space : MemData(h, a) = zeros
  BY <1>6, <1>7, BlockInMemory DEF MemData
<1> HIDE DEF zeros
<1>9. L1P!size(h) = args.block /\ L2P!size(h) = args.block
  BY <1>6 DEF L1P!size, L2P!size
<1>10. L2P!LevelInv(h) /\ \A a \in Space : L2P!levelMem(h, a) = MemData(h, a)
  BY <1>2, <1>4, <1>5, <1>7, <1>9, MemoryContract, SameVocabulary, L2P!StartConsistent
<1>11. BelowInv(h) /\ \A a \in Space : BelowData(h, a) = zeros
  BY <1>2, <1>4, <1>7, <1>8, <1>10 DEF BelowInv, BelowData
<1>12. L1P!LevelInv(h) /\ \A a \in Space : L1P!levelMem(h, a) = BelowData(h, a)
  BY <1>2, <1>4, <1>5, <1>9, <1>11, BelowContract, SameVocabulary, L1P!StartConsistent
<1>13. trace \in Seq(Line) /\ Len(trace) = 0
  BY <1>1
<1> QED
  BY <1>1, <1>2, <1>3, <1>6, <1>11, <1>12, <1>13 DEF IInv, zeros

\* The bytes of a block after a write of n at offset o.
Written(data, o, n) == [p \in DOMAIN data |-> IF p = o THEN n ELSE data[p]]

LEMMA LineAnswered ==
    ASSUME IInv, NEW type \in {"r", "w"}, NEW a \in Address, TraceLine(type, a)
    PROVE  /\ IInv'
           /\ L1P!levelMem(h, a) \in [0 .. args.block - 1 -> 0 .. h.cycle]
           /\ h.cycle + 1 \in 0 .. MaxAccesses
           /\ type = "r" =>
                /\ trace' = Append(trace, [type |-> "r", addr |-> a,
                                           val |-> L1P!levelMem(h, a)[offset_of(a)]])
                /\ \A b \in Space : L1P!levelMem(h', b) = L1P!levelMem(h, b)
           /\ type = "w" =>
                /\ trace' = Append(trace, [type |-> "w", addr |-> a, val |-> h.cycle + 1])
                /\ \A b \in Space : L1P!levelMem(h', b) =
                     IF block_of(a) = block_of(b)
                     THEN Written(L1P!levelMem(h, a), offset_of(a), h.cycle + 1)
                     ELSE L1P!levelMem(h, b)
<1> DEFINE now == h.cycle + 1
           o == offset_of(a)
           patch == [p \in IF type = "w" THEN {o} ELSE {} |-> now]
           g == [h EXCEPT !.cycle = now]
           done == L1P!access(g, a, type, patch)
           old == L1P!levelMem(h, a)
<1>1. /\ h.cycle < MaxAccesses /\ args' = args /\ h' = done.h
      /\ total_cycles' = total_cycles + done.lat
      /\ trace' = Append(trace, [type |-> type, addr |-> a, val |-> done.data[o]])
  BY L1Copies DEF TraceLine
<1>2. a \in Space /\ MaxAccesses \in Nat
  BY AddressAssumption DEF Space
<1>3. /\ L1P!LevelInv(h) /\ BelowInv(h) /\ MemInv(h) /\ h.cycle \in Nat
      /\ args.block \in Nat \ {0} /\ h.memory.block = args.block
      /\ DOMAIN h = {"L1", "L2", "memory", "enable_l2", "cycle"}
  BY CommandLine DEF IInv, L1P!LevelInv, BelowInv, MemInv
<1>4. now \in Nat /\ now >= h.cycle /\ now \in 0 .. MaxAccesses
  BY <1>1, <1>2, <1>3
<1>5. /\ g.cycle = now /\ g.memory = h.memory /\ g.L1 = h.L1 /\ g.L2 = h.L2
      /\ g.enable_l2 = h.enable_l2
  BY <1>3
<1>6. o \in 0 .. args.block - 1
  BY <1>2, <1>3 DEF offset_of, Space
<1> HIDE DEF now, o
<1>7. L1P!LevelInv(g) /\ \A b \in Space : L1P!levelMem(g, b) = L1P!levelMem(h, b)
  BY <1>3, <1>4, BelowContract, SameVocabulary, L1P!TimePasses
<1>8. L1P!Request(g, type, patch)
  BY <1>4, <1>5 DEF L1P!Request
<1> HIDE DEF g, patch
<1>9. L1P!Answers(g, done, a, patch)
  BY <1>2, <1>7, <1>8, BelowContract, SameVocabulary, L1P!AccessAnswers
<1> HIDE DEF done
<1>10. /\ L1P!LevelInv(done.h) /\ L1P!SameGeometry(g, done.h)
       /\ L1P!SameBut(g, done.h, L1P!Own)
       /\ done.data = L1P!patched(old, patch) /\ done.data \in L1P!Data(g)
       /\ done.lat \in Nat
       /\ \A b \in Space : L1P!levelMem(done.h, b) =
            IF L1P!sameBlock(g, a, b) THEN done.data ELSE L1P!levelMem(h, b)
  BY <1>2, <1>7, <1>9, SameVocabulary DEF L1P!Answers
<1>11. /\ done.h.cycle = now /\ done.h.enable_l2 = h.enable_l2
       /\ done.h.memory.block = h.memory.block
       /\ done.h.L1.config = h.L1.config /\ done.h.L2.config = h.L2.config
  BY <1>5, <1>10 DEF L1P!SameBut, L1P!Own, L1P!size
<1>12. \A b : L1P!sameBlock(g, a, b) <=> block_of(a) = block_of(b)
  BY <1>3, <1>5 DEF L1P!sameBlock, L1P!size, block_of
<1>13. old \in [0 .. args.block - 1 -> 0 .. h.cycle]
  <2>1. old \in L1P!Data(h)
    BY <1>2, <1>3, BelowContract, SameVocabulary, L1P!LevelMemType
  <2> QED
    BY <1>3, <2>1 DEF L1P!Data, L1P!size
<1> HIDE DEF old
<1>14. done.data[o] \in 0 .. now
  BY <1>3, <1>5, <1>6, <1>10 DEF L1P!Data, L1P!size
<1>15. IInv'
  <2> DEFINE entry == [type |-> type, addr |-> a, val |-> done.data[o]]
  <2>1. entry \in Line
    BY <1>4, <1>14 DEF Line
  <2>2. trace' = Append(trace, entry)
    BY <1>1
  <2> HIDE DEF entry
  <2>3. trace' \in Seq(Line) /\ Len(trace') = now
    BY <2>1, <2>2 DEF IInv, now
  <2>4. L1P!LevelInv(h')
    BY <1>1, <1>10
  <2>5. total_cycles' \in Nat
    BY <1>1, <1>10 DEF IInv
  <2>6. /\ args' \in CommandLines /\ h'.enable_l2 = args'.enable_l2
        /\ h'.memory.block = args'.block /\ h'.cycle = now
        /\ h'.L1.config = l1_cfg(args') /\ h'.L2.config = l2_cfg(args')
    BY <1>1, <1>11 DEF IInv
  <2> QED
    BY <2>3, <2>4, <2>5, <2>6 DEF IInv, l1_cfg, l2_cfg
<1>16. ASSUME type = "r"
       PROVE  /\ trace' = Append(trace, [type |-> "r", addr |-> a, val |-> old[o]])
              /\ \A b \in Space : L1P!levelMem(h', b) = L1P!levelMem(h, b)
  <2>1. done.data = old
    BY <1>10, <1>13, <1>16 DEF L1P!patched, patch
  <2>2. \A b \in Space : block_of(a) = block_of(b) => L1P!levelMem(h, a) = L1P!levelMem(h, b)
    <3>1. \A b : L1P!sameBlock(h, a, b) <=> block_of(a) = block_of(b)
      BY <1>3 DEF L1P!sameBlock, L1P!size, block_of
    <3> QED
      BY <1>2, <1>3, <3>1, BelowContract, SameVocabulary, L1P!LevelMemType
  <2> QED
    BY <1>1, <1>10, <1>12, <1>16, <2>1, <2>2 DEF old
<1>17. ASSUME type = "w"
       PROVE  /\ trace' = Append(trace, [type |-> "w", addr |-> a, val |-> now])
              /\ \A b \in Space : L1P!levelMem(h', b) =
                   IF block_of(a) = block_of(b) THEN Written(old, o, now)
                   ELSE L1P!levelMem(h, b)
  <2>1. done.data = Written(old, o, now)
    <3>1. DOMAIN patch = {o} /\ patch[o] = now
      BY <1>17 DEF patch
    <3> QED
      BY <1>10, <3>1 DEF L1P!patched, Written
  <2>2. done.data[o] = now
    BY <1>6, <1>13, <2>1 DEF Written
  <2> QED
    BY <1>1, <1>10, <1>12, <1>17, <2>1, <2>2
<1> QED
  BY <1>4, <1>13, <1>15, <1>16, <1>17 DEF now, o, old

LEMMA IInvHolds == ASSUME ExactGeometry PROVE Spec => []IInv
<1>1. Init => IInv
  BY Start
<1>2. ASSUME IInv, [Next]_vars PROVE IInv'
  <2>1. ASSUME NEW a \in Address, TraceLine("r", a) PROVE IInv'
    BY <1>2, <2>1, LineAnswered
  <2>2. ASSUME NEW a \in Address, TraceLine("w", a) PROVE IInv'
    BY <1>2, <2>2, LineAnswered
  <2>3. CASE UNCHANGED vars
    BY <1>2, <2>3 DEF vars, IInv, l1_cfg, l2_cfg
  <2> QED
    BY <1>2, <2>1, <2>2, <2>3 DEF Next
<1> QED
  BY <1>1, <1>2, PTL DEF Spec

-----------------------------------------------------------------------------
(***************************************************************************)
(* What the properties of Cache say in these terms.                        *)
(***************************************************************************)

\* A block starts at an address of its own.
LEMMA BlockAddress ==
    ASSUME IInv, NEW b \in DOMAIN h.memory.data
    PROVE  b * args.block \in Space /\ block_of(b * args.block) = b
<1> DEFINE B == args.block
           n == AddrSpace - 1
           q == n \div B
           s == n % B
<1>1. /\ B \in Nat \ {0} /\ n \in Nat /\ DOMAIN h.memory.data = 0 .. q
  BY CommandLine, AddressAssumption DEF IInv, L1P!LevelInv, BelowInv, MemInv
<1> HIDE DEF B, n
<1>2. q \in Nat /\ s \in 0 .. B - 1 /\ n = B * q + s
  BY <1>1, L2P!Division
<1> HIDE DEF q, s
<1>3. b \in Nat /\ ~(q < b)
  BY <1>1, <1>2
<1>4. B * b <= B * q
  <2>1. CASE b = q
    BY <1>1, <1>2, <2>1
  <2>2. CASE b < q
    <3>1. B * q >= B * b + B
      BY <1>1, <1>2, <1>3, <2>2, L2P!Quotients
    <3>2. B * q \in Nat /\ B * b \in Nat
      BY <1>1, <1>2, <1>3
    <3> QED
      BY <1>1, <3>1, <3>2
  <2> QED
    BY <1>2, <1>3, <2>1, <2>2
<1>5. B * b \in Nat /\ b * B = B * b /\ B * q \in Nat
  BY <1>1, <1>2, <1>3
<1>6. b * B \in Space
  BY <1>1, <1>2, <1>4, <1>5 DEF Space, n
<1>7. (b * B) \div B = b
  <2>1. b * B = B * b + 0 /\ 0 \in 0 .. B - 1
    BY <1>1, <1>5
  <2>2. b * B \in Nat
    BY <1>5
  <2> DEFINE m == b * B
  <2> HIDE DEF m
  <2>3. m \div B = b
    BY <1>1, <1>3, <2>1, <2>2, L2P!DivisionUnique DEF m
  <2> QED
    BY <2>3 DEF m
<1> QED
  BY <1>6, <1>7 DEF block_of, B

\* The part of h that is a level, and the data it holds of a block.
LEMMA HeldBelow ==
    ASSUME IInv, NEW a \in Space
    PROVE  /\ args.enable_l2 =>
                /\ L2P!LevelInv(h)
                /\ ways_with("L2", a) = L2P!ways_with(h, a)
                /\ get_index("L2", a) = L2P!get_index(h, a)
           /\ heldL2(a) = BelowData(h, a)
<1>1. BelowInv(h) /\ h.enable_l2 = args.enable_l2 /\ h.memory.block = args.block
  BY DEF IInv, L1P!LevelInv
<1>2. h.memory.data[block_of(a)] = MemData(h, a)
  BY <1>1 DEF block_of, MemData
<1>3. /\ ways_with("L2", a) = L2P!ways_with(h, a)
      /\ get_index("L2", a) = L2P!get_index(h, a)
  BY L2Copies DEF ways_with, get_index
<1>4. CASE ~args.enable_l2
  BY <1>1, <1>2, <1>4 DEF heldL2, BelowData
<1>5. CASE args.enable_l2
  <2> DEFINE ways == L2P!ways_with(h, a)
             i == L2P!get_index(h, a)
             found == {h["L2"].sets[i][w].data : w \in ways}
  <2>1. L2P!LevelInv(h)
    BY <1>1, <1>5 DEF BelowInv
  <2>2. \A w \in ways : ways = {w} /\ L2P!last(ways) = w
    BY <2>1, SameVocabulary, L2P!WaysWith DEF L2P!LevelInv
  <2>3. dataIn("L2", a) = found
    BY <1>3 DEF dataIn
  <2>4. heldL2(a) = IF found = {} THEN MemData(h, a) ELSE CHOOSE d \in found : TRUE
    BY <1>2, <1>5, <2>3 DEF heldL2
  <2>5. BelowData(h, a) = IF ways = {} THEN MemData(h, a)
                          ELSE h["L2"].sets[i][L2P!last(ways)].data
    BY <1>1, <1>5 DEF BelowData, L2P!levelMem, L2P!line
  <2>6. heldL2(a) = BelowData(h, a)
    <3> HIDE DEF ways, i
    <3>1. CASE ways = {}
      BY <2>4, <2>5, <3>1
    <3>2. CASE ways # {}
      <4>1. PICK w \in ways : TRUE
        BY <3>2
      <4>2. found = {h["L2"].sets[i][w].data}
        BY <2>2, <4>1
      <4> QED
        BY <2>2, <2>4, <2>5, <4>1, <4>2
    <3> QED
      BY <3>1, <3>2
  <2> QED
    BY <1>3, <2>1, <2>6
<1> QED
  BY <1>1, <1>4, <1>5, CommandLine DEF IInv

LEMMA HeldOnTop ==
    ASSUME IInv, NEW a \in Space
    PROVE  /\ ways_with("L1", a) = L1P!ways_with(h, a)
           /\ get_index("L1", a) = L1P!get_index(h, a)
           /\ held(a) = L1P!levelMem(h, a)
<1>1. /\ ways_with("L1", a) = L1P!ways_with(h, a)
      /\ get_index("L1", a) = L1P!get_index(h, a)
  BY L1Copies DEF ways_with, get_index
<1> DEFINE ways == L1P!ways_with(h, a)
           i == L1P!get_index(h, a)
           found == {h["L1"].sets[i][w].data : w \in ways}
<1>2. L1P!LevelInv(h)
  BY DEF IInv
<1>3. \A w \in ways : ways = {w} /\ L1P!last(ways) = w
  BY <1>2, SameVocabulary, L1P!WaysWith DEF L1P!LevelInv
<1>4. dataIn("L1", a) = found
  BY <1>1 DEF dataIn
<1>5. held(a) = IF found = {} THEN BelowData(h, a) ELSE CHOOSE d \in found : TRUE
  BY <1>4, HeldBelow DEF held
<1>6. L1P!levelMem(h, a) = IF ways = {} THEN BelowData(h, a)
                           ELSE h["L1"].sets[i][L1P!last(ways)].data
  BY DEF L1P!levelMem, L1P!line
<1> HIDE DEF ways, i
<1>7. CASE ways = {}
  BY <1>1, <1>5, <1>6, <1>7 DEF ways, i
<1>8. CASE ways # {}
  <2>1. PICK w \in ways : TRUE
    BY <1>8
  <2>2. found = {h["L1"].sets[i][w].data}
    BY <1>3, <2>1
  <2>3. held(a) = L1P!levelMem(h, a)
    BY <1>3, <1>5, <1>6, <2>1, <2>2
  <2> QED
    BY <1>1, <2>3 DEF ways, i
<1> QED
  BY <1>7, <1>8

-----------------------------------------------------------------------------
(***************************************************************************)
(* The theorems.  ExactGeometry is what the levels' address arithmetic     *)
(* takes for granted: TLC evaluates it for the constants of a run.         *)
(***************************************************************************)

\* IInv speaks of the levels that there are.
LEMMA LevelsThere ==
    ASSUME IInv
    PROVE  /\ "L1" \in Levels /\ Levels \subseteq {"L1", "L2"}
           /\ L1P!LevelInv(h)
           /\ "L2" \in Levels => args.enable_l2 /\ L2P!LevelInv(h)
<1>1. BelowInv(h) /\ L1P!LevelInv(h) /\ h.enable_l2 = args.enable_l2
  BY DEF IInv, L1P!LevelInv
<1> QED
  BY <1>1 DEF Levels, BelowInv

LEMMA TypeHolds == IInv => TypeOK
<1> SUFFICES ASSUME IInv PROVE TypeOK
  OBVIOUS
<1>1. MemInv(h) /\ h.memory.block = args.block /\ args \in CommandLines
  BY DEF IInv, L1P!LevelInv, BelowInv
<1>2. ASSUME NEW l \in Levels
      PROVE  /\ h[l].sets \in [0 .. h[l].num_sets - 1 -> [0 .. args.assoc - 1 -> LineType(l)]]
             /\ {h[l].hits, h[l].misses, h[l].write_backs, h[l].prefetch_issued,
                 h[l].insertion_counter, h[l].last_block} \subseteq Nat
  <2>1. CASE l = "L1"
    <3>1. L1P!LevelType(h) /\ h["L1"].config.assoc = args.assoc
      BY LevelsThere, CommandLine DEF L1P!LevelInv, IInv
    <3>2. LineType(l) = L1P!LineType(h)
      BY <1>1 DEF LineType, L1P!LineType, L1P!Data, L1P!size
    <3> QED
      BY <2>1, <3>1, <3>2 DEF L1P!LevelType, L1P!Sets, L1P!Ways
  <2>2. CASE l = "L2"
    <3>1. L2P!LevelType(h) /\ h["L2"].config.assoc = args.assoc
      BY <1>2, <2>2, LevelsThere, CommandLine DEF L2P!LevelInv, IInv
    <3>2. LineType(l) = L2P!LineType(h)
      BY <1>1 DEF LineType, L2P!LineType, L2P!Data, L2P!size
    <3> QED
      BY <2>2, <3>1, <3>2 DEF L2P!LevelType, L2P!Sets, L2P!Ways
  <2> QED
    BY <2>1, <2>2, LevelsThere
<1>3. h.memory.access_count \in Nat
  BY <1>1 DEF MemInv
<1> QED
  BY <1>1, <1>2, <1>3 DEF TypeOK, IInv

LEMMA TagsUnique == IInv => UniqueTags
<1> SUFFICES ASSUME IInv PROVE UniqueTags
  OBVIOUS
<1> SUFFICES ASSUME NEW l \in Levels, NEW i \in DOMAIN h[l].sets,
                    NEW v \in DOMAIN h[l].sets[i], NEW w \in DOMAIN h[l].sets[i],
                    h[l].sets[i][v].valid, h[l].sets[i][w].valid,
                    h[l].sets[i][v].tag = h[l].sets[i][w].tag
             PROVE  v = w
  BY DEF UniqueTags
<1>1. CASE l = "L1"
  <2>1. L1P!LevelType(h) /\ L1P!Consistent(h)
    BY LevelsThere DEF L1P!LevelInv
  <2>2. i \in L1P!Sets(h) /\ v \in L1P!Ways(h) /\ w \in L1P!Ways(h)
    BY <1>1, <2>1 DEF L1P!LevelType
  <2> QED
    BY <1>1, <2>1, <2>2 DEF L1P!Consistent, L1P!line
<1>2. CASE l = "L2"
  <2>1. L2P!LevelType(h) /\ L2P!Consistent(h)
    BY <1>2, LevelsThere DEF L2P!LevelInv
  <2>2. i \in L2P!Sets(h) /\ v \in L2P!Ways(h) /\ w \in L2P!Ways(h)
    BY <1>2, <2>1 DEF L2P!LevelType
  <2> QED
    BY <1>2, <2>1, <2>2 DEF L2P!Consistent, L2P!line
<1> QED
  BY <1>1, <1>2, LevelsThere

LEMMA CleanMatches == IInv => CleanMatchesBelow
<1> SUFFICES ASSUME IInv, NEW l \in Levels, NEW b \in DOMAIN h.memory.data,
                    NEW w \in ways_with(l, b * args.block)
             PROVE  LET a == b * args.block
                        below == IF l = "L1" THEN heldL2(a) ELSE h.memory.data[b]
                        line == h[l].sets[get_index(l, a)][w]
                    IN  line.dirty \/ line.data = below
  BY DEF CleanMatchesBelow
<1> DEFINE a == b * args.block
<1>1. a \in Space /\ block_of(a) = b
  BY BlockAddress
<1> HIDE DEF a
<1>2. h.memory.block = args.block
  BY DEF IInv
<1>3. CASE l = "L1"
  <2> DEFINE i == L1P!get_index(h, a)
  <2>1. L1P!LevelType(h) /\ L1P!Consistent(h)
    BY LevelsThere DEF L1P!LevelInv
  <2>2. /\ ways_with("L1", a) = L1P!ways_with(h, a) /\ get_index("L1", a) = i
        /\ heldL2(a) = BelowData(h, a)
    BY <1>1, HeldOnTop, HeldBelow
  <2>3. i \in L1P!Sets(h) /\ w \in L1P!Ways(h) /\ L1P!Holds(h, i, w, a)
    BY <1>1, <1>3, <2>1, <2>2, SameVocabulary, L1P!WaysWith DEF a
  <2>4. L1P!line(h, i, w).dirty \/ L1P!line(h, i, w).data = BelowData(h, a)
    BY <1>1, <2>1, <2>3, SameVocabulary DEF L1P!Consistent
  <2> QED
    BY <1>3, <2>2, <2>4 DEF L1P!line, a
<1>4. CASE l = "L2"
  <2> DEFINE i == L2P!get_index(h, a)
  <2>1. L2P!LevelType(h) /\ L2P!Consistent(h) /\ args.enable_l2
    BY <1>4, LevelsThere DEF L2P!LevelInv
  <2>2. ways_with("L2", a) = L2P!ways_with(h, a) /\ get_index("L2", a) = i
    BY <1>1, <2>1, HeldBelow
  <2>3. i \in L2P!Sets(h) /\ w \in L2P!Ways(h) /\ L2P!Holds(h, i, w, a)
    BY <1>1, <1>4, <2>1, <2>2, SameVocabulary, L2P!WaysWith DEF a
  <2>4. L2P!line(h, i, w).dirty \/ L2P!line(h, i, w).data = MemData(h, a)
    BY <1>1, <2>1, <2>3, SameVocabulary DEF L2P!Consistent
  <2>5. MemData(h, a) = h.memory.data[b]
    BY <1>1, <1>2 DEF MemData, block_of
  <2> QED
    BY <1>4, <2>2, <2>4, <2>5 DEF L2P!line, a
<1> QED
  BY <1>3, <1>4, LevelsThere

\* Types: counters and tags are naturals, no line carries a time yet to come,
\* and no rrpv exceeds 3, where the search of SRRIP would not end.
THEOREM CacheTypes == ASSUME ExactGeometry PROVE Spec => []TypeOK
BY IInvHolds, TypeHolds, PTL

\* One copy of a block in each level, and every clean one expendable.
THEOREM CacheLinesConsistent == ASSUME ExactGeometry PROVE Spec => []LinesConsistent
<1>1. IInv => LinesConsistent
  BY TagsUnique, CleanMatches DEF LinesConsistent
<1> QED
  BY <1>1, IInvHolds, PTL

-----------------------------------------------------------------------------
(***************************************************************************)
(* The hierarchy refines a plain memory.                                   *)
(***************************************************************************)

\* Offset and block name an address.
LEMMA AddressesDiffer ==
    ASSUME IInv, NEW a \in Space, NEW b \in Space
    PROVE  /\ offset_of(a) \in 0 .. args.block - 1
           /\ block_of(a) = block_of(b) /\ offset_of(a) = offset_of(b) => a = b
<1> DEFINE B == args.block
           p == a \div B
           q == b \div B
           r == a % B
           s == b % B
<1>1. B \in Nat \ {0} /\ a \in Nat /\ b \in Nat
  BY CommandLine, AddressAssumption DEF IInv, Space
<1> HIDE DEF B
<1>2. r \in 0 .. B - 1 /\ a = B * p + r /\ b = B * q + s
  BY <1>1, L2P!Division
<1> HIDE DEF p, q, r, s
<1>3. p = q /\ r = s => a = b
  BY <1>2
<1> QED
  BY <1>2, <1>3 DEF block_of, offset_of, B, p, q, r, s

ContentsMatch == contents = [a \in Address |-> L1P!levelMem(h, a)[offset_of(a)]]

LEMMA ContentsHeld == IInv => ContentsMatch
BY HeldOnTop, AddressAssumption DEF ContentsMatch, contents, Space

\* A read finds what the memory has, a write changes one address of it.
LEMMA LineRefines ==
    ASSUME IInv, NEW type \in {"r", "w"}, NEW a \in Address, TraceLine(type, a)
    PROVE  Memory!Next
<1> DEFINE old(b) == L1P!levelMem(h, b)
           new(b) == L1P!levelMem(h', b)
           now == h.cycle + 1
<1>1. /\ IInv' /\ args' = args
      /\ old(a) \in [0 .. args.block - 1 -> 0 .. h.cycle] /\ now \in 0 .. MaxAccesses
  BY LineAnswered DEF TraceLine
<1>2. Address \subseteq Space
  BY AddressAssumption DEF Space
<1>3. contents = [b \in Address |-> old(b)[offset_of(b)]]
  BY ContentsHeld DEF ContentsMatch
<1>4. contents' = [b \in Address |-> new(b)[offset_of(b)]]
  <2>1. (IInv => ContentsMatch)'
    BY ContentsHeld, PTL
  <2> QED
    BY <1>1, <2>1 DEF ContentsMatch, offset_of
<1>5. h.cycle \in Nat /\ MaxAccesses \in Nat
  BY AddressAssumption DEF IInv
<1>6. offset_of(a) \in 0 .. args.block - 1 /\ old(a)[offset_of(a)] \in 0 .. MaxAccesses
  BY <1>1, <1>2, <1>5, AddressesDiffer
<1>7. CASE type = "r"
  <2>1. /\ trace' = Append(trace, [type |-> "r", addr |-> a, val |-> old(a)[offset_of(a)]])
        /\ \A b \in Space : new(b) = old(b)
    BY <1>7, LineAnswered
  <2>2. contents' = contents /\ contents[a] = old(a)[offset_of(a)]
    BY <1>2, <1>3, <1>4, <2>1
  <2>3. Memory!Read(a, contents[a])
    BY <2>1, <2>2 DEF Memory!Read, Memory!answered
  <2> QED
    BY <1>6, <2>2, <2>3 DEF Memory!Next
<1>8. CASE type = "w"
  <2>1. /\ trace' = Append(trace, [type |-> "w", addr |-> a, val |-> now])
        /\ \A b \in Space : new(b) = IF block_of(a) = block_of(b)
                                     THEN Written(old(a), offset_of(a), now) ELSE old(b)
    BY <1>8, LineAnswered
  <2>2. ASSUME NEW b \in Address
        PROVE  new(b)[offset_of(b)] = IF b = a THEN now ELSE old(b)[offset_of(b)]
    <3>1. b \in Space /\ a \in Space
      BY <1>2
    <3>2. /\ offset_of(b) \in 0 .. args.block - 1
          /\ block_of(a) = block_of(b) /\ offset_of(a) = offset_of(b) => a = b
      BY <3>1, AddressesDiffer
    <3>3. block_of(a) = block_of(b) => old(a) = old(b)
      <4>1. \A x : L1P!sameBlock(h, a, x) <=> block_of(a) = block_of(x)
        BY DEF L1P!sameBlock, L1P!size, block_of, IInv
      <4> QED
        BY <3>1, <4>1, BelowContract, SameVocabulary, L1P!LevelMemType DEF IInv
    <3>4. offset_of(b) \in DOMAIN old(a)
      BY <1>1, <3>2
    <3> QED
      BY <2>1, <3>1, <3>2, <3>3, <3>4 DEF Written
  <2>3. contents' = [contents EXCEPT ![a] = now]
    BY <1>3, <1>4, <2>2
  <2>4. Memory!Write(a, now)
    BY <2>1, <2>3 DEF Memory!Write, Memory!answered
  <2> QED
    BY <1>1, <2>4 DEF Memory!Next
<1> QED
  BY <1>7, <1>8

\* The hierarchy behaves like a plain memory.
THEOREM CacheBehavesAsMemory == ASSUME ExactGeometry PROVE Spec => BehavesAsMemory
<1>1. Init => Memory!Init
  <2> SUFFICES ASSUME Init PROVE Memory!Init
    OBVIOUS
  <2>1. IInv /\ \A a \in Space : L1P!levelMem(h, a) = [o \in 0 .. args.block - 1 |-> 0]
    BY Start
  <2>2. \A a \in Address : a \in Space /\ offset_of(a) \in 0 .. args.block - 1
    BY <2>1, AddressesDiffer, AddressAssumption DEF Space
  <2>3. contents = [a \in Address |-> 0]
    BY <2>1, <2>2, ContentsHeld DEF ContentsMatch
  <2> QED
    BY <2>3 DEF Init, Memory!Init
<1>2. IInv /\ [Next]_vars => [Memory!Next]_(Memory!vars)
  <2> SUFFICES ASSUME IInv, [Next]_vars PROVE [Memory!Next]_(Memory!vars)
    OBVIOUS
  <2>1. ASSUME Next PROVE Memory!Next
    BY <2>1, LineRefines DEF Next
  <2>2. CASE UNCHANGED vars
    <3>1. contents' = contents
      BY <2>2 DEF vars, contents, held, heldL2, dataIn, ways_with, get_index, offset_of,
                  block_of, L1!ways_with, L1!get_index, L1!get_tag, L2!ways_with,
                  L2!get_index, L2!get_tag
    <3> QED
      BY <2>2, <3>1 DEF vars, Memory!vars
  <2> QED
    BY <2>1, <2>2
<1> QED
  BY <1>1, <1>2, IInvHolds, PTL DEF Spec, BehavesAsMemory, Memory!Spec

-----------------------------------------------------------------------------
(***************************************************************************)
(* The same contracts for the counters: a level is called once for each    *)
(* access that it counts.                                                  *)
(***************************************************************************)
LEMMA MemoryCounts == L2P!CountContract
<1>1. ASSUME NEW g, MemInv(g)
      PROVE  MemCount(g) \in Nat /\ MemLat(g) \in SUBSET Nat
  BY <1>1 DEF MemInv, MemCount, MemLat
<1>2. ASSUME NEW g, MemInv(g), NEW x
      PROVE  L2P!Calls(g, [g EXCEPT !["L2"] = x], 0)
  <2> DEFINE f == [g EXCEPT !["L2"] = x]
  <2>1. f.memory = g.memory
    BY <1>2 DEF MemInv
  <2> HIDE DEF f
  <2>2. MemCount(f) = MemCount(g) + 0 /\ MemLat(f) = MemLat(g)
    BY <1>1, <1>2, <2>1 DEF MemCount, MemLat
  <2> QED
    BY <2>2 DEF L2P!Calls, MemOk, f
<1>3. ASSUME NEW g, MemInv(g), NEW a \in Space, NEW type, NEW patch
      PROVE  LET done == MemoryAccess(g, a, type, patch)
             IN  L2P!Calls(g, done.h, 1) /\ done.lat \in MemLat(g)
  BY <1>3 DEF MemoryAccess, MemInv, L2P!Calls, MemCount, MemLat, MemOk
<1> QED
  BY <1>1, <1>2, <1>3, SameVocabulary DEF L2P!CountContract

LEMMA BelowCounts == L1P!CountContract
<1>1. ASSUME NEW g, BelowInv(g)
      PROVE  /\ BelowCount(g) \in Nat /\ BelowLat(g) \in SUBSET Nat
             /\ g.enable_l2 => /\ L2P!LevelInv(g) /\ L2P!Spare(g) \in Int
                               /\ g["L2"].hits \in Nat /\ g["L2"].misses \in Nat
                               /\ g["L2"].prefetch_issued \in Nat
                               /\ g["L2"].config.latency \in Nat
                               /\ g.memory.latency \in Nat
  <2>1. MemCount(g) \in Nat /\ MemLat(g) \in SUBSET Nat /\ g.memory.latency \in Nat
    BY <1>1, MemoryCounts DEF L2P!CountContract, BelowInv, MemInv
  <2>2. ASSUME g.enable_l2
        PROVE  /\ L2P!LevelInv(g) /\ L2P!Spare(g) \in Int
               /\ g["L2"].hits \in Nat /\ g["L2"].misses \in Nat
               /\ g["L2"].prefetch_issued \in Nat
               /\ g["L2"].config.latency \in Nat
    <3>1. L2P!LevelInv(g)
      BY <1>1, <2>2 DEF BelowInv
    <3>2. /\ g["L2"].hits \in Nat /\ g["L2"].misses \in Nat /\ L2P!Spare(g) \in Int
          /\ g["L2"].prefetch_issued \in Nat
          /\ L2P!LevelType(g)
      BY <3>1, MemoryCounts, L2P!FiguresType
    <3>3. g["L2"].config.latency \in Nat
      BY <3>2 DEF L2P!LevelType, L2P!Config
    <3> QED
      BY <3>1, <3>2, <3>3
  <2> QED
    BY <2>1, <2>2 DEF BelowCount, BelowLat
<1>2. ASSUME NEW g, BelowInv(g), NEW x
      PROVE  L1P!Calls(g, [g EXCEPT !["L1"] = x], 0)
  <2> DEFINE f == [g EXCEPT !["L1"] = x]
  <2>1. f.memory = g.memory /\ f["L2"] = g["L2"] /\ f.enable_l2 = g.enable_l2
    BY <1>2 DEF BelowInv, MemInv
  <2> HIDE DEF f
  <2>2. BelowCount(f) = BelowCount(g) /\ BelowLat(f) = BelowLat(g)
    BY <2>1 DEF BelowCount, BelowLat, MemCount, MemLat
  <2>3. BelowOk(g) => BelowOk(f)
    BY <2>1 DEF BelowOk, L2P!Spare, MemCount
  <2> QED
    BY <1>1, <1>2, <2>2, <2>3 DEF L1P!Calls, f
<1>3. ASSUME NEW g, BelowInv(g), NEW a \in Space, NEW type, NEW patch,
             L1P!Request(g, type, patch)
      PROVE  LET done == L1Next(g, a, type, patch)
             IN  L1P!Calls(g, done.h, 1) /\ done.lat \in BelowLat(g)
  <2>1. L2P!Request(g, type, patch) /\ L2P!Addr = Space
    BY <1>3, SameVocabulary
  <2>2. L1P!NextAnswers(g, L1Next(g, a, type, patch), a, patch)
    BY <1>3, BelowContract, SameVocabulary DEF L1P!NextContract
  <2> DEFINE done == L1Next(g, a, type, patch)
  <2>3. /\ BelowInv(done.h) /\ done.h.enable_l2 = g.enable_l2
        /\ done.h["L2"].config = g["L2"].config
    BY <2>2 DEF L1P!NextAnswers, L1P!SameBut, L1P!Below
  <2>4. CASE g.enable_l2
    <3>1. done = L2P!access(g, a, type, patch)
      BY <2>4, L2Copies DEF L1Next
    <3>2. L2P!LevelInv(g) /\ L2P!LevelInv(done.h)
      BY <1>3, <2>3, <2>4, <1>1
    <3> HIDE DEF done
    <3>3. PICK p \in Nat :
            /\ done.h["L2"].prefetch_issued = g["L2"].prefetch_issued + p
            /\ L2P!Tally(g, done.h, 1, L2P!bit(type = "w"), p)
      BY <1>3, <2>1, <3>1, <3>2, MemoryContract, MemoryCounts, L2P!AccessTally
    <3>4. PICK lat : /\ done.lat = g["L2"].config.latency + lat
                     /\ lat = 0 \/ lat \in MemLat(g)
      BY <1>3, <2>1, <3>1, <3>2, MemoryContract, MemoryCounts, L2P!AccessTally
    <3>5. done.lat \in BelowLat(g)
      BY <1>1, <1>3, <2>4, <3>4 DEF BelowLat, MemLat
    <3>6. BelowCount(done.h) = BelowCount(g) + 1
      BY <2>3, <2>4, <3>3 DEF BelowCount, L2P!Tally
    <3>7. BelowLat(done.h) = BelowLat(g)
      <4>1. MemLat(done.h) = MemLat(g)
        BY <3>3 DEF L2P!Tally
      <4>2. done.h.memory.latency = g.memory.latency
        BY <4>1 DEF MemLat
      <4> QED
        BY <2>3, <4>2 DEF BelowLat, MemLat
    <3>8. BelowOk(g) => BelowOk(done.h)
      BY <1>1, <1>3, <2>3, <2>4, <3>3 DEF BelowOk, L2P!Tally
    <3> QED
      BY <3>5, <3>6, <3>7, <3>8 DEF L1P!Calls, done
  <2>5. CASE ~g.enable_l2
    <3>1. done = MemoryAccess(g, a, type, patch)
      BY <2>5 DEF L1Next
    <3>2. MemInv(g)
      BY <1>3 DEF BelowInv
    <3> HIDE DEF done
    <3>3. L2P!Calls(g, done.h, 1) /\ done.lat \in MemLat(g)
      BY <1>3, <2>1, <3>1, <3>2, MemoryCounts DEF L2P!CountContract
    <3> QED
      BY <2>3, <2>5, <3>3 DEF L1P!Calls, L2P!Calls, BelowCount, BelowLat, BelowOk, done
  <2> QED
    BY <2>4, <2>5
<1> QED
  BY <1>1, <1>2, <1>3, SameVocabulary DEF L1P!CountContract

-----------------------------------------------------------------------------
(***************************************************************************)
(* The figures that are printed.                                           *)
(***************************************************************************)
Writes == {k \in DOMAIN trace : trace[k].type = "w"}

\* What a miss of L1 takes, at least and at most.
least == IF args.enable_l2 THEN 4 * args.latency ELSE args.mem_latency
most == IF args.enable_l2 THEN 4 * args.latency + args.mem_latency ELSE args.mem_latency

AccInv ==
  /\ h.L1.hits + h.L1.misses = h.cycle
  /\ L1P!Spare(h) \in 0 .. h.L1.prefetch_issued /\ BelowOk(h)
  /\ L1P!Owed(h) <= Cardinality(Writes)
  /\ BelowLat(h) \subseteq {least, most}
  /\ total_cycles - h.cycle * args.latency \in h.L1.misses * least .. h.L1.misses * most

\* What the figures are made of.
LEMMA FiguresHere ==
    ASSUME IInv
    PROVE  /\ BelowInv(h) /\ L1P!LevelInv(h)
           /\ h["L1"].hits \in Nat /\ h["L1"].misses \in Nat
           /\ h["L1"].prefetch_issued \in Nat
           /\ L1P!Owed(h) \in Nat /\ L1P!Spare(h) \in Int
           /\ least \in Nat /\ most \in Nat /\ least <= most
           /\ args.latency \in Nat /\ h.cycle \in Nat
           /\ h["L1"].config.latency = args.latency
           /\ h["L2"].config.latency = 4 * args.latency
           /\ DOMAIN h = {"L1", "L2", "memory", "enable_l2", "cycle"}
<1>1. /\ BelowInv(h) /\ L1P!LevelInv(h) /\ MemInv(h)
  BY DEF IInv, L1P!LevelInv, BelowInv
<1>2. /\ h["L1"].hits \in Nat /\ h["L1"].misses \in Nat /\ h["L1"].prefetch_issued \in Nat
      /\ L1P!Owed(h) \in Nat /\ L1P!Spare(h) \in Int
  BY <1>1, BelowCounts, L1P!FiguresType
<1>3. args.latency \in Nat /\ args.mem_latency \in Nat
  BY CommandLineAssumption DEF IInv
<1>4. /\ h["L1"].config.latency = args.latency /\ h["L2"].config.latency = 4 * args.latency
  BY DEF IInv, l1_cfg, l2_cfg
<1>5. h.cycle \in Nat /\ DOMAIN h = {"L1", "L2", "memory", "enable_l2", "cycle"}
  BY <1>1 DEF MemInv
<1>6. least \in Nat /\ most \in Nat /\ least <= most
  BY <1>3 DEF least, most
<1> QED
  BY <1>1, <1>2, <1>3, <1>4, <1>5, <1>6

LEMMA WritesGrow ==
    ASSUME trace \in Seq(Line), NEW entry \in Line, trace' = Append(trace, entry)
    PROVE  /\ Cardinality(Writes) \in Nat
           /\ Cardinality(Writes') = Cardinality(Writes) + L1P!bit(entry.type = "w")
<1> DEFINE n == Len(trace)
           k == n + 1
<1>1. /\ n \in Nat /\ k \notin 1 .. n /\ DOMAIN trace = 1 .. n /\ DOMAIN trace' = 1 .. k
      /\ trace'[k] = entry /\ \A j \in 1 .. n : trace'[j] = trace[j]
  OBVIOUS
<1>2. IsFiniteSet(Writes)
  <2>1. IsFiniteSet(1 .. n)
    BY <1>1, FS_Interval
  <2> QED
    BY <1>1, <2>1, FS_Subset DEF Writes
<1>3. Cardinality(Writes) \in Nat
  BY <1>2, FS_CardinalityType
<1> HIDE DEF n
<1>4. k \in 1 .. k /\ 1 .. k = (1 .. n) \cup {k}
  BY <1>1
<1> HIDE DEF k
<1>5. k \notin Writes
  BY <1>1 DEF Writes
<1>6. CASE entry.type = "w"
  <2>1. Writes' = Writes \cup {k}
    BY <1>1, <1>4, <1>6 DEF Writes
  <2>2. Cardinality(Writes \cup {k}) = Cardinality(Writes) + 1
    BY <1>2, <1>5, FS_AddElement
  <2> QED
    BY <1>3, <1>6, <2>1, <2>2 DEF L1P!bit
<1>7. CASE entry.type # "w"
  <2>1. Writes' = Writes
    BY <1>1, <1>4, <1>7 DEF Writes
  <2> QED
    BY <1>3, <1>7, <2>1 DEF L1P!bit
<1> QED
  BY <1>6, <1>7

\* One more miss costs between least and most.
LEMMA MissCosts ==
    ASSUME NEW m \in Nat, NEW x \in Nat, NEW y \in Nat, NEW n \in Nat, NEW c \in Nat,
           NEW total \in Nat, NEW lat \in Nat, total - n * c \in m * x .. m * y
    PROVE  /\ total + (c + 0) - (n + 1) * c \in m * x .. m * y
           /\ lat \in x .. y =>
                total + (c + lat) - (n + 1) * c \in (m + 1) * x .. (m + 1) * y
<1>1. /\ (n + 1) * c = n * c + c /\ (m + 1) * x = m * x + x /\ (m + 1) * y = m * y + y
      /\ n * c \in Nat /\ m * x \in Nat /\ m * y \in Nat
  OBVIOUS
<1> DEFINE p == n * c
           q == m * x
           r == m * y
<1>2. /\ p \in Nat /\ q \in Nat /\ r \in Nat /\ total - p \in q .. r
      /\ (n + 1) * c = p + c /\ (m + 1) * x = q + x /\ (m + 1) * y = r + y
  BY <1>1
<1> DEFINE s == (n + 1) * c
           t == (m + 1) * x
           u == (m + 1) * y
<1>3. s = p + c /\ t = q + x /\ u = r + y
  BY <1>2
<1> HIDE DEF p, q, r, s, t, u
<1>4. /\ total + (c + 0) - s \in q .. r
      /\ lat \in x .. y => total + (c + lat) - s \in t .. u
  BY <1>2, <1>3
<1> QED
  BY <1>4 DEF q, r, s, t, u

\* The access of a line of the trace, to the hierarchy at its time.
LEMMA LineAccesses ==
    ASSUME IInv, NEW type \in {"r", "w"}, NEW a \in Address, TraceLine(type, a)
    PROVE  LET now == h.cycle + 1
               patch == [o \in IF type = "w" THEN {offset_of(a)} ELSE {} |-> now]
               g == [h EXCEPT !.cycle = now]
               done == L1P!access(g, a, type, patch)
           IN  /\ h' = done.h /\ total_cycles' = total_cycles + done.lat /\ args' = args
               /\ trace' = Append(trace, [type |-> type, addr |-> a,
                                          val |-> done.data[offset_of(a)]])
               /\ [type |-> type, addr |-> a, val |-> done.data[offset_of(a)]] \in Line
               /\ L1P!LevelInv(g) /\ L1P!Request(g, type, patch)
               /\ a \in Space
               /\ L1P!SameGeometry(h, g) /\ L1P!SameGeometry(g, done.h) /\ IInv'
<1> DEFINE now == h.cycle + 1
           patch == [o \in IF type = "w" THEN {offset_of(a)} ELSE {} |-> now]
           g == [h EXCEPT !.cycle = now]
           done == L1P!access(g, a, type, patch)
           entry == [type |-> type, addr |-> a, val |-> done.data[offset_of(a)]]
<1>1. /\ h' = done.h /\ total_cycles' = total_cycles + done.lat /\ args' = args
      /\ trace' = Append(trace, entry)
  BY L1Copies DEF TraceLine
<1>2. a \in Space
  BY AddressAssumption DEF Space
<1>3. /\ L1P!LevelInv(h) /\ h.cycle \in Nat
      /\ DOMAIN h = {"L1", "L2", "memory", "enable_l2", "cycle"}
  BY FiguresHere
<1>4. now \in Nat /\ now >= h.cycle /\ g.cycle = now
  BY <1>3
<1> HIDE DEF now
<1>5. L1P!LevelInv(g) /\ L1P!SameGeometry(h, g)
  BY <1>3, <1>4, BelowContract, L1P!TimePasses
<1>6. L1P!Request(g, type, patch)
  BY <1>4 DEF L1P!Request
<1> HIDE DEF g, patch
<1>7. L1P!SameGeometry(g, done.h)
  BY <1>2, <1>5, <1>6, BelowContract, SameVocabulary, L1P!AccessAnswers DEF L1P!Answers
<1>8. IInv'
  BY LineAnswered
<1> HIDE DEF done
<1>9. entry \in Line
  <2> HIDE DEF entry
  <2>1. Len(trace') = Len(trace) + 1 /\ trace'[Len(trace) + 1] = entry /\ trace' \in Seq(Line)
    BY <1>1, <1>8 DEF IInv
  <2>2. Len(trace) + 1 \in 1 .. Len(trace')
    BY <1>3, <2>1 DEF IInv
  <2> QED
    BY <2>1, <2>2
<1> QED
  BY <1>1, <1>2, <1>5, <1>6, <1>7, <1>8, <1>9 DEF now, g, patch, done, entry

LEMMA SameCounting ==
    /\ \A S : L1P!Cardinality(S) = Cardinality(S)
    /\ \A S : L2P!Cardinality(S) = Cardinality(S)
BY DEF L1P!Cardinality, L2P!Cardinality, Cardinality

LEMMA AccStart == ASSUME ExactGeometry, Init PROVE AccInv
<1>1. IInv /\ args \in CommandLines /\ trace = <<>> /\ total_cycles = 0
  BY Start DEF Init
<1>2. h = [L1 |-> L1!CacheLevel(l1_cfg(args)), L2 |-> L2!CacheLevel(l2_cfg(args)),
           memory |-> MainMemory(args), enable_l2 |-> args.enable_l2, cycle |-> 0]
  BY DEF Init
<1>3. /\ h.L1 = L1P!CacheLevel(l1_cfg(args)) /\ h.L2 = L2P!CacheLevel(l2_cfg(args))
      /\ h.memory = MainMemory(args) /\ h.enable_l2 = args.enable_l2 /\ h.cycle = 0
  BY <1>2, L1Copies, L2Copies
<1>4. h.memory.latency = args.mem_latency /\ h.memory.access_count = 0
  BY <1>3 DEF MainMemory
<1> DEFINE c == l1_cfg(args)
           n == c.size \div (c.block * c.assoc)
<1>5. /\ h["L1"].hits = 0 /\ h["L1"].misses = 0 /\ h["L1"].write_backs = 0
      /\ h["L1"].prefetch_issued = 0
      /\ h["L1"].num_sets = n /\ h["L1"].config = c
      /\ h["L1"].sets = [i \in 0 .. n - 1 |->
                           [w \in 0 .. c.assoc - 1 |-> L1P!CacheLine(c.block)]]
  <2>1. h["L1"] = L1P!CacheLevel(c)
    BY <1>3
  <2> HIDE DEF c
  <2> QED
    BY <2>1 DEF L1P!CacheLevel
<1> HIDE DEF n, c
<1>6. /\ h["L2"].hits = 0 /\ h["L2"].misses = 0 /\ h["L2"].write_backs = 0
      /\ h["L2"].prefetch_issued = 0
  BY <1>3 DEF L2P!CacheLevel
<1>7. L1P!Dirty(h) = {}
  <2>1. \A i \in L1P!Sets(h) : \A w \in L1P!Ways(h) : ~L1P!line(h, i, w).dirty
    BY <1>5 DEF L1P!Sets, L1P!Ways, L1P!line, L1P!CacheLine
  <2> QED
    BY <2>1 DEF L1P!Dirty
<1>8. L1P!Owed(h) = 0
  BY <1>5, <1>7, FS_EmptySet, SameCounting DEF L1P!Owed
<1>9. Cardinality(Writes) = 0
  <2>1. Writes = {}
    BY <1>1 DEF Writes
  <2> QED
    BY <2>1, FS_EmptySet
<1>10. L1P!Spare(h) = 0 /\ L2P!Spare(h) = 0
  BY <1>4, <1>5, <1>6 DEF L1P!Spare, L2P!Spare, BelowCount, MemCount
<1>11. BelowLat(h) \subseteq {least, most}
  BY <1>1, <1>3, <1>4, FiguresHere DEF BelowLat, MemLat, least, most
<1>12. total_cycles - h.cycle * args.latency \in h.L1.misses * least .. h.L1.misses * most
  <2>1. /\ least \in Nat /\ most \in Nat /\ args.latency \in Nat
    BY <1>1, FiguresHere
  <2>2. 0 * args.latency = 0 /\ 0 * least = 0 /\ 0 * most = 0
    BY <2>1
  <2> QED
    BY <1>1, <1>3, <1>5, <2>2
<1> QED
  BY <1>3, <1>5, <1>6, <1>8, <1>9, <1>10, <1>11, <1>12 DEF AccInv, BelowOk

LEMMA AccStep ==
    ASSUME IInv, AccInv, NEW type \in {"r", "w"}, NEW a \in Address, TraceLine(type, a)
    PROVE  AccInv'
<1> DEFINE now == h.cycle + 1
           patch == [o \in IF type = "w" THEN {offset_of(a)} ELSE {} |-> now]
           g == [h EXCEPT !.cycle = now]
           done == L1P!access(g, a, type, patch)
           entry == [type |-> type, addr |-> a, val |-> done.data[offset_of(a)]]
           writes == L1P!bit(type = "w")
<1>1. /\ h' = done.h /\ total_cycles' = total_cycles + done.lat /\ args' = args
      /\ trace' = Append(trace, entry) /\ entry \in Line
      /\ L1P!LevelInv(g) /\ L1P!Request(g, type, patch) /\ a \in Space
      /\ L1P!SameGeometry(h, g) /\ IInv'
  BY LineAccesses
<1>2. /\ BelowInv(h) /\ L1P!LevelInv(h)
      /\ h["L1"].hits \in Nat /\ h["L1"].misses \in Nat
      /\ h["L1"].prefetch_issued \in Nat
      /\ L1P!Owed(h) \in Nat /\ L1P!Spare(h) \in Int
      /\ least \in Nat /\ most \in Nat /\ least <= most
      /\ args.latency \in Nat /\ h.cycle \in Nat
      /\ h["L1"].config.latency = args.latency
      /\ DOMAIN h = {"L1", "L2", "memory", "enable_l2", "cycle"}
  BY FiguresHere
<1>3. /\ g["L1"] = h["L1"] /\ g["L2"] = h["L2"] /\ g.memory = h.memory
      /\ g.enable_l2 = h.enable_l2 /\ h'.cycle = now /\ now = h.cycle + 1
  <2>1. h'.cycle = Len(trace') /\ Len(trace') = Len(trace) + 1 /\ h.cycle = Len(trace)
    BY <1>1 DEF IInv
  <2> QED
    BY <1>2, <2>1
<1> HIDE DEF now, g, patch
<1>4. /\ BelowCount(g) = BelowCount(h) /\ BelowLat(g) = BelowLat(h)
      /\ L2P!Spare(g) = L2P!Spare(h) /\ BelowOk(g)
      /\ L1P!Spare(g) = L1P!Spare(h)
  BY <1>3 DEF BelowCount, BelowLat, MemCount, MemLat, L2P!Spare, L1P!Spare, BelowOk, AccInv
<1>5. L1P!Owed(g) = L1P!Owed(h)
  <2>1. L1P!Dirty(g) = L1P!Dirty(h)
    BY <1>3 DEF L1P!Dirty, L1P!Sets, L1P!Ways, L1P!line
  <2> QED
    BY <1>3, <2>1 DEF L1P!Owed
<1>6. PICK p \in Nat : /\ done.h["L1"].prefetch_issued = g["L1"].prefetch_issued + p
                       /\ L1P!Tally(g, done.h, 1, writes, p)
  BY <1>1, BelowContract, BelowCounts, SameVocabulary, L1P!AccessTally
<1>7. PICK lat : /\ done.lat = g["L1"].config.latency + lat
                 /\ \/ done.h["L1"].misses = g["L1"].misses /\ lat = 0
                    \/ done.h["L1"].misses = g["L1"].misses + 1 /\ lat \in BelowLat(g)
  BY <1>1, BelowContract, BelowCounts, SameVocabulary, L1P!AccessTally
<1> HIDE DEF done
<1>8. h'.L1.hits + h'.L1.misses = h'.cycle
  BY <1>1, <1>3, <1>6 DEF AccInv, L1P!Tally
<1>9. L1P!Spare(h') \in 0 .. h'.L1.prefetch_issued
  <2>1. L1P!Spare(h') \in L1P!Spare(h) .. L1P!Spare(h) + p
    BY <1>1, <1>4, <1>6 DEF L1P!Tally
  <2>2. h'["L1"].prefetch_issued = h["L1"].prefetch_issued + p
    BY <1>1, <1>3, <1>6
  <2>3. L1P!Spare(h) \in 0 .. h["L1"].prefetch_issued
    BY DEF AccInv
  <2> QED
    BY <1>2, <2>1, <2>2, <2>3
<1>10. BelowOk(h') /\ BelowLat(h') \subseteq {least, most}
  BY <1>1, <1>4, <1>6 DEF AccInv, L1P!Tally
<1>11. L1P!Owed(h') <= Cardinality(Writes')
  <2>1. /\ Cardinality(Writes) \in Nat
        /\ Cardinality(Writes') = Cardinality(Writes) + L1P!bit(entry.type = "w")
    BY <1>1, WritesGrow DEF IInv
  <2>2. entry.type = type
    OBVIOUS
  <2>3. writes \in Nat /\ Cardinality(Writes') = Cardinality(Writes) + writes
    BY <2>1, <2>2 DEF L1P!bit
  <2>4. L1P!Owed(h') <= L1P!Owed(h) + writes
    BY <1>1, <1>5, <1>6 DEF L1P!Tally
  <2>5. L1P!Owed(h') \in Nat
    BY <1>1, BelowCounts, L1P!FiguresType DEF IInv
  <2> HIDE DEF writes, entry
  <2> QED
    BY <1>2, <2>1, <2>3, <2>4, <2>5 DEF AccInv
<1>12. total_cycles' - h'.cycle * args.latency \in h'.L1.misses * least .. h'.L1.misses * most
  <2>1. total_cycles \in Nat
    BY DEF IInv
  <2>2. total_cycles - h.cycle * args.latency \in h["L1"].misses * least .. h["L1"].misses * most
    BY DEF AccInv
  <2> DEFINE m == h["L1"].misses
             total == total_cycles
             n == h.cycle
             c == args.latency
  <2>3. /\ m \in Nat /\ n \in Nat /\ c \in Nat /\ total \in Nat
        /\ total - n * c \in m * least .. m * most
    BY <1>2, <2>1, <2>2
  <2>4. h'.cycle = n + 1 /\ total_cycles' = total + (c + lat)
        /\ \/ h'["L1"].misses = m /\ lat = 0
           \/ h'["L1"].misses = m + 1 /\ lat \in {least, most}
    <3>1. total_cycles' = total + done.lat /\ done.lat = c + lat
      BY <1>1, <1>2, <1>3, <1>7
    <3> QED
      BY <1>1, <1>3, <1>4, <1>7, <3>1 DEF AccInv
  <2>5. total_cycles' - h'.cycle * args.latency = total + (c + lat) - (n + 1) * c
    <3>1. args.latency = c
      OBVIOUS
    <3> HIDE DEF m, total, n, c
    <3>2. h'.cycle * args.latency = (n + 1) * c
      BY <2>4, <3>1
    <3> DEFINE x == (n + 1) * c
    <3>3. x \in Nat /\ lat \in Nat
      BY <1>2, <2>3, <2>4
    <3> HIDE DEF x
    <3>4. total + (c + lat) - x = total_cycles' - x
      BY <2>3, <2>4, <3>3
    <3> QED
      BY <3>2, <3>4 DEF x
  <2> HIDE DEF m, total, n, c
  <2>6. CASE h'["L1"].misses = m /\ lat = 0
    <3>1. total + (c + 0) - (n + 1) * c \in m * least .. m * most
      BY <1>2, <2>3, MissCosts
    <3>2. total_cycles' - h'.cycle * args.latency = total + (c + 0) - (n + 1) * c
      BY <2>5, <2>6
    <3>3. h'.L1.misses = m
      BY <2>6
    <3> QED
      BY <3>1, <3>2, <3>3
  <2>7. CASE h'["L1"].misses = m + 1 /\ lat \in {least, most}
    <3>1. lat \in Nat /\ lat \in least .. most
      BY <1>2, <2>7
    <3>2. total + (c + lat) - (n + 1) * c \in (m + 1) * least .. (m + 1) * most
      BY <1>2, <2>3, <3>1, MissCosts
    <3>3. h'.L1.misses = m + 1
      BY <2>7
    <3> QED
      BY <2>5, <3>2, <3>3
  <2> QED
    BY <2>4, <2>6, <2>7
<1>13. least' = least /\ most' = most /\ args' = args
  BY <1>1 DEF least, most
<1> QED
  BY <1>8, <1>9, <1>10, <1>11, <1>12, <1>13 DEF AccInv

\* The figures that printStats and main print add up.
THEOREM CacheAccounting == ASSUME ExactGeometry PROVE Spec => []Accounting
<1>1. Init => AccInv
  BY AccStart
<1>2. ASSUME IInv, AccInv, [Next]_vars PROVE AccInv'
  <2>1. CASE Next
    BY <1>2, <2>1, AccStep DEF Next
  <2>2. CASE UNCHANGED vars
    <3>1. least' = least /\ most' = most /\ Writes' = Writes /\ h' = h
      BY <2>2 DEF vars, least, most, Writes
    <3> QED
      BY <1>2, <2>2, <3>1 DEF vars, AccInv
  <2> QED
    BY <1>2, <2>1, <2>2
<1>3. IInv /\ AccInv => Accounting
  <2> SUFFICES ASSUME IInv, AccInv PROVE Accounting
    OBVIOUS
  <2> DEFINE accesses(l) == h[l].hits + h[l].misses
             below(l) == IF l = "L1" /\ args.enable_l2 THEN accesses("L2")
                         ELSE h.memory.access_count
             dirty == {p \in (DOMAIN h.L1.sets) \X (0 .. args.assoc - 1) :
                         h.L1.sets[p[1]][p[2]].dirty}
  <2>1. /\ BelowInv(h) /\ L1P!LevelInv(h) /\ h.enable_l2 = args.enable_l2
        /\ h["L1"].misses \in Nat /\ h["L1"].prefetch_issued \in Nat
        /\ least \in Nat /\ most \in Nat /\ args.latency \in Nat /\ h.cycle \in Nat
        /\ h["L2"].config.latency = 4 * args.latency
    BY FiguresHere DEF IInv
  <2>2. ASSUME NEW l \in Levels
        PROVE  below(l) - h[l].misses - h[l].write_backs \in 0 .. h[l].prefetch_issued
    <3>1. CASE l = "L1"
      <4>1. below(l) = BelowCount(h)
        BY <2>1, <3>1 DEF BelowCount, MemCount
      <4> QED
        BY <3>1, <4>1 DEF AccInv, L1P!Spare
    <3>2. CASE l = "L2"
      <4>1. args.enable_l2
        BY <2>2, <3>2 DEF Levels
      <4>2. below(l) = MemCount(h)
        BY <3>2 DEF MemCount
      <4> QED
        BY <2>1, <3>2, <4>1, <4>2 DEF AccInv, BelowOk, L2P!Spare
    <3> QED
      BY <2>2, <3>1, <3>2 DEF Levels
  <2>3. h.L1.write_backs + Cardinality(dirty) <= Cardinality(Writes)
    <3>1. L1P!LevelType(h) /\ h["L1"].config.assoc = args.assoc
      BY <2>1, CommandLine DEF L1P!LevelInv, IInv
    <3>2. dirty = L1P!Dirty(h)
      BY <3>1 DEF L1P!Dirty, L1P!LevelType, L1P!Sets, L1P!Ways, L1P!line
    <3> QED
      BY <3>2, SameCounting DEF AccInv, L1P!Owed
  <2> DEFINE l2 == IF args.enable_l2 THEN h.L2.config.latency ELSE 0
             bottom == IF args.enable_l2 THEN 0 ELSE args.mem_latency
             missCycles == total_cycles - h.cycle * args.latency
  <2>4. l2 + bottom = least /\ l2 + args.mem_latency = most
    <3>1. args.mem_latency \in Nat
      BY CommandLine DEF IInv
    <3> QED
      BY <2>1, <3>1 DEF least, most
  <2>5. missCycles \in h.L1.misses * least .. h.L1.misses * most
    BY DEF AccInv
  <2>6. /\ missCycles >= h.L1.misses * (l2 + bottom)
        /\ missCycles <= h.L1.misses * (l2 + args.mem_latency)
    <3> HIDE DEF l2, bottom, missCycles
    <3> QED
      BY <2>4, <2>5
  <2>7. accesses("L1") = h.cycle
    BY DEF AccInv
  <2> HIDE DEF missCycles, l2, bottom
  <2> QED
    BY <2>2, <2>3, <2>6, <2>7 DEF Accounting, Writes, missCycles, l2, bottom
<1> QED
  BY <1>1, <1>2, <1>3, IInvHolds, PTL DEF Spec

-----------------------------------------------------------------------------
(***************************************************************************)
(* LRU: what it spares and what it keeps.                                  *)
(***************************************************************************)
LEMMA DemandSpared ==
    ASSUME IInv, NEW type \in {"r", "w"}, NEW a \in Address, TraceLine(type, a)
    PROVE  PrefetchSparesDemand'
<1> SUFFICES ASSUME args'.l1_policy = "LRU", args'.assoc > 1
             PROVE  ways_with("L1", trace[h.cycle].addr)' # {}
  BY DEF PrefetchSparesDemand
<1> DEFINE now == h.cycle + 1
           patch == [o \in IF type = "w" THEN {offset_of(a)} ELSE {} |-> now]
           g == [h EXCEPT !.cycle = now]
           done == L1P!access(g, a, type, patch)
           entry == [type |-> type, addr |-> a, val |-> done.data[offset_of(a)]]
<1>1. /\ h' = done.h /\ args' = args /\ trace' = Append(trace, entry)
      /\ L1P!LevelInv(g) /\ L1P!Request(g, type, patch) /\ a \in Space
      /\ L1P!SameGeometry(h, g) /\ IInv'
  BY LineAccesses
<1>2. /\ L1P!LevelInv(h) /\ h.cycle \in Nat
      /\ DOMAIN h = {"L1", "L2", "memory", "enable_l2", "cycle"}
  BY FiguresHere
<1>3. g["L1"] = h["L1"] /\ g.cycle = now /\ now = h.cycle + 1
  BY <1>2
<1>4. h'.cycle = Len(trace) + 1
  <2>1. h'.cycle = Len(trace') /\ Len(trace') = Len(trace) + 1
    BY <1>1 DEF IInv
  <2> QED
    BY <2>1
<1> HIDE DEF now, g, patch
<1>5. g["L1"].config.policy = "LRU" /\ g["L1"].config.assoc > 1
  BY <1>1, <1>3 DEF IInv, l1_cfg
<1>6. ASSUME NEW i \in L1P!Sets(g), NEW w \in L1P!Ways(g)
      PROVE  L1P!line(g, i, w).last_access < g.cycle
  <2>1. L1P!line(g, i, w) = L1P!line(h, i, w) /\ i \in L1P!Sets(h) /\ w \in L1P!Ways(h)
    BY <1>3, <1>6 DEF L1P!line, L1P!Sets, L1P!Ways
  <2>2. L1P!line(h, i, w) \in L1P!LineType(h)
    BY <1>2, <2>1 DEF L1P!LevelInv, L1P!LevelType, L1P!line
  <2>3. L1P!line(h, i, w).last_access \in 0 .. h.cycle
    BY <2>2 DEF L1P!LineType
  <2> QED
    BY <1>2, <1>3, <2>1, <2>3
<1>7. L1P!ways_with(done.h, a) # {}
  BY <1>1, <1>5, <1>6, BelowContract, BelowCounts, SameVocabulary, L1P!AccessSpares
<1>8. trace'[h'.cycle].addr = a
  <2>1. trace'[Len(trace) + 1] = entry
    BY <1>1 DEF IInv
  <2> QED
    BY <1>4, <2>1
<1>9. ways_with("L1", trace[h.cycle].addr)' = L1P!ways_with(h', a)
  BY <1>8, L1Copies DEF ways_with
<1> QED
  BY <1>1, <1>7, <1>9

\* A prefetch does not push out the block just demanded.
THEOREM CachePrefetchSpares == ASSUME ExactGeometry PROVE Spec => []PrefetchSparesDemand
<1>1. Init => PrefetchSparesDemand
  BY DEF Init, PrefetchSparesDemand
<1>2. ASSUME IInv, PrefetchSparesDemand, [Next]_vars PROVE PrefetchSparesDemand'
  <2>1. CASE Next
    BY <1>2, <2>1, DemandSpared DEF Next
  <2>2. CASE UNCHANGED vars
    BY <1>2, <2>2 DEF vars, PrefetchSparesDemand, ways_with, L1!ways_with, L1!get_index,
                      L1!get_tag, L2!ways_with, L2!get_index, L2!get_tag
  <2> QED
    BY <1>2, <2>1, <2>2
<1> QED
  BY <1>1, <1>2, IInvHolds, PTL DEF Spec

-----------------------------------------------------------------------------
(***************************************************************************)
(* The time that a line carries under LRU is the last use of its block,    *)
(* and a block that has been pushed out is older than all that stay.       *)
(***************************************************************************)
\* The last use of block b in the trace t, as lastUse has it.
lastIn(t, B, b) ==
  LET uses == {k \in DOMAIN t : t[k].addr \div B = b}
  IN  IF uses = {} THEN 0 ELSE CHOOSE k \in uses : \A j \in uses : j <= k

\* That of the block at address a.
when(g, t, a) == lastIn(t, L1P!size(g), a \div L1P!size(g))

RecentIn(g, t) ==
  /\ \A i \in L1P!Sets(g) : \A w \in L1P!Ways(g) :
       L1P!line(g, i, w).valid =>
         \E a \in Address : /\ L1P!Holds(g, i, w, a) /\ when(g, t, a) > 0
                            /\ L1P!line(g, i, w).last_access = when(g, t, a)
  /\ \A a \in Address :
       when(g, t, a) > 0 /\ L1P!ways_with(g, a) = {} =>
         \A w \in L1P!Ways(g) :
           LET l == L1P!line(g, L1P!get_index(g, a), w)
           IN  l.valid /\ l.last_access > when(g, t, a)

RecInv == args.l1_policy = "LRU" /\ args.l1_prefetcher = "None" => RecentIn(h, trace)

LEMMA LastIsLast ==
    ASSUME NEW t \in Seq(Line), NEW B, NEW b
    PROVE  LET uses == {k \in DOMAIN t : t[k].addr \div B = b}
               last == lastIn(t, B, b)
           IN  /\ last \in 0 .. Len(t)
               /\ uses = {} => last = 0
               /\ uses # {} => last \in uses /\ \A j \in uses : j <= last
<1> DEFINE n == Len(t)
           uses == {k \in DOMAIN t : t[k].addr \div B = b}
           last == lastIn(t, B, b)
           before == {n - k : k \in uses}
<1>1. n \in Nat /\ DOMAIN t = 1 .. n
  OBVIOUS
<1> HIDE DEF n
<1>2. uses \subseteq 1 .. n
  BY <1>1
<1>3. last = IF uses = {} THEN 0 ELSE CHOOSE k \in uses : \A j \in uses : j <= k
  BY DEF lastIn
<1> HIDE DEF uses, last
<1>4. CASE uses = {}
  BY <1>1, <1>3, <1>4 DEF uses, last, n
<1>5. CASE uses # {}
  <2>1. before \in SUBSET Nat /\ before # {}
    <3>1. \A k \in uses : n - k \in Nat
      BY <1>1, <1>2
    <3> QED
      BY <1>5, <3>1
  <2>2. PICK m \in before : \A x \in before : m <= x
    BY <2>1, L1P!LeastMember
  <2>3. PICK k \in uses : m = n - k
    BY <2>2
  <2>4. ASSUME NEW j \in uses PROVE j <= k
    <3>1. n - k <= n - j
      BY <2>2, <2>3, <2>4
    <3> QED
      BY <1>1, <1>2, <2>4, <3>1
  <2>5. last \in uses /\ \A j \in uses : j <= last
    BY <1>3, <1>5, <2>4
  <2>6. last \in 0 .. n
    BY <1>1, <1>2, <2>5
  <2> QED
    BY <1>5, <2>5, <2>6 DEF uses, last, n
<1> QED
  BY <1>4, <1>5

LEMMA WhenUsed ==
    ASSUME NEW t \in Seq(Line), NEW g, NEW a
    PROVE  /\ when(g, t, a) \in 0 .. Len(t)
           /\ \A b : L1P!sameBlock(g, a, b) => when(g, t, a) = when(g, t, b)
           /\ \A b : when(g, t, a) > 0 /\ when(g, t, a) = when(g, t, b) => L1P!sameBlock(g, a, b)
           /\ \A entry \in Line :
                when(g, Append(t, entry), a) = IF L1P!sameBlock(g, entry.addr, a) THEN Len(t) + 1
                                               ELSE when(g, t, a)
<1> DEFINE B == L1P!size(g)
           uses(s, b) == {k \in DOMAIN s : s[k].addr \div B = b}
<1>1. ASSUME NEW b PROVE /\ lastIn(t, B, b) \in 0 .. Len(t)
                         /\ uses(t, b) = {} => lastIn(t, B, b) = 0
                         /\ uses(t, b) # {} => /\ lastIn(t, B, b) \in uses(t, b)
                                               /\ \A j \in uses(t, b) : j <= lastIn(t, B, b)
  BY LastIsLast
<1>2. ASSUME NEW b, lastIn(t, B, b) > 0 PROVE t[lastIn(t, B, b)].addr \div B = b
  <2>1. uses(t, b) # {}
    BY <1>1, <1>2
  <2> QED
    BY <1>1, <2>1
<1>3. ASSUME NEW b, when(g, t, a) > 0, when(g, t, a) = when(g, t, b)
      PROVE  L1P!sameBlock(g, a, b)
  BY <1>2, <1>3 DEF when, L1P!sameBlock
<1>4. ASSUME NEW entry \in Line
      PROVE  when(g, Append(t, entry), a) = IF L1P!sameBlock(g, entry.addr, a) THEN Len(t) + 1
                                            ELSE when(g, t, a)
  <2> DEFINE s == Append(t, entry)
             n == Len(t)
             b == a \div B
             k == n + 1
  <2>1. /\ s \in Seq(Line) /\ n \in Nat /\ DOMAIN t = 1 .. n /\ DOMAIN s = 1 .. k
        /\ Len(s) = k /\ s[k] = entry /\ \A j \in 1 .. n : s[j] = t[j]
    OBVIOUS
  <2> HIDE DEF s, n
  <2>2. 1 .. k = (1 .. n) \cup {k} /\ \A j \in 1 .. n : j < k
    BY <2>1
  <2>3. /\ lastIn(s, B, b) \in 0 .. Len(s)
        /\ uses(s, b) = {} => lastIn(s, B, b) = 0
        /\ uses(s, b) # {} => /\ lastIn(s, B, b) \in uses(s, b)
                              /\ \A j \in uses(s, b) : j <= lastIn(s, B, b)
    BY <2>1, LastIsLast
  <2>4. CASE entry.addr \div B = b
    <3>1. k \in uses(s, b)
      BY <2>1, <2>2, <2>4
    <3>2. lastIn(s, B, b) = k
      BY <2>1, <2>3, <3>1
    <3> QED
      BY <2>4, <3>2 DEF when, L1P!sameBlock, s, n
  <2>5. CASE entry.addr \div B # b
    <3>1. uses(s, b) = uses(t, b)
      BY <2>1, <2>2, <2>5
    <3>2. lastIn(s, B, b) = lastIn(t, B, b)
      <4> DEFINE S == uses(t, b)
                 x == lastIn(s, B, b)
                 y == lastIn(t, B, b)
      <4>1. /\ x \in Nat /\ y \in Nat
            /\ S = {} => x = 0 /\ y = 0
            /\ S # {} => x \in S /\ y \in S /\ \A j \in S : j <= x /\ j <= y
        BY <1>1, <2>3, <3>1
      <4> HIDE DEF S, x, y
      <4>2. x = y
        BY <4>1
      <4> QED
        BY <4>2 DEF x, y
    <3> QED
      BY <2>5, <3>2 DEF when, L1P!sameBlock, s
  <2> QED
    BY <2>4, <2>5
<1> QED
  BY <1>1, <1>3, <1>4 DEF when, L1P!sameBlock

\* A use keeps it so: the block used is the newest, and the one that makes way
\* for it the oldest of its set.
LEMMA RecentKept ==
    ASSUME NEW f, L1P!LevelInv(f), NEW u, L1P!LevelInv(u), L1P!SameGeometry(f, u),
           NEW t \in Seq(Line), f.cycle = Len(t) + 1, RecentIn(f, t),
           f["L1"].config.policy = "LRU",
           NEW entry \in Line, NEW way \in L1P!Ways(f), L1P!Takes(f, u, entry.addr, way),
           \/ L1P!Holds(f, L1P!get_index(f, entry.addr), way, entry.addr)
           \/ /\ L1P!ways_with(f, entry.addr) = {}
              /\ L1P!Replaceable(f, L1P!get_index(f, entry.addr), way)
    PROVE  RecentIn(u, Append(t, entry))
<1> DEFINE a == entry.addr
           i == L1P!get_index(f, a)
           s == Append(t, entry)
           now == Len(t) + 1
<1>1. a \in Address /\ Address \subseteq Space /\ Len(t) \in Nat /\ now \in Nat
  BY AddressAssumption DEF Line, Space
<1> HIDE DEF a
<1>2. /\ L1P!Sets(u) = L1P!Sets(f) /\ L1P!Ways(u) = L1P!Ways(f) /\ L1P!size(u) = L1P!size(f)
      /\ \A x : L1P!get_index(u, x) = L1P!get_index(f, x) /\ L1P!get_tag(u, x) = L1P!get_tag(f, x)
  BY L1P!GeometrySame DEF L1P!SameGeometry
<1>3. /\ L1P!LevelType(f) /\ L1P!Consistent(f) /\ L1P!LevelType(u) /\ L1P!Consistent(u)
  BY DEF L1P!LevelInv
<1>4. \A x, y \in Space : L1P!sameBlock(f, x, y) <=>
        L1P!get_index(f, x) = L1P!get_index(f, y) /\ L1P!get_tag(f, x) = L1P!get_tag(f, y)
  BY <1>3, SameVocabulary DEF L1P!Consistent, L1P!Geometry
<1>5. /\ \A x \in Space : /\ L1P!get_index(f, x) \in L1P!Sets(f)
                          /\ L1P!ways_with(f, x) =
                               {w \in L1P!Ways(f) : L1P!Holds(f, L1P!get_index(f, x), w, x)}
                          /\ L1P!ways_with(u, x) =
                               {w \in L1P!Ways(f) : L1P!Holds(u, L1P!get_index(f, x), w, x)}
  BY <1>2, <1>3, SameVocabulary, L1P!WaysWith
<1>6. /\ L1P!line(u, i, way).valid /\ L1P!line(u, i, way).tag = L1P!get_tag(f, a)
      /\ L1P!line(u, i, way).last_access = now
  BY DEF L1P!Takes, a
<1>7. ASSUME NEW j \in L1P!Sets(f), NEW w \in L1P!Ways(f), j # i \/ w # way
      PROVE  /\ L1P!line(u, j, w).valid = L1P!line(f, j, w).valid
             /\ L1P!line(u, j, w).tag = L1P!line(f, j, w).tag
             /\ L1P!line(u, j, w).last_access = L1P!line(f, j, w).last_access
             /\ \A x : L1P!Holds(u, j, w, x) <=> L1P!Holds(f, j, w, x)
  <2>1. L1P!SameMark("LRU", L1P!line(u, j, w), L1P!line(f, j, w))
    BY <1>7 DEF L1P!Takes, L1P!SameMarks, a
  <2> QED
    BY <1>2, <2>1 DEF L1P!SameMark, L1P!Holds
<1>8. \A x : when(u, s, x) = IF L1P!sameBlock(f, a, x) THEN now ELSE when(f, t, x)
  <2>1. \A x : when(u, s, x) = when(f, s, x)
    BY <1>2 DEF when
  <2> QED
    BY <2>1, WhenUsed DEF a
<1>9. \A x : when(f, t, x) \in 0 .. Len(t)
  BY WhenUsed
<1>10. i \in L1P!Sets(f) /\ (\A x, y \in L1P!Ways(f) :
          L1P!Holds(f, i, x, a) /\ L1P!Holds(f, i, y, a) => x = y)
  BY <1>1, <1>3, <1>5 DEF L1P!Consistent, L1P!Holds
<1>11. \/ L1P!Holds(f, i, way, a)
       \/ L1P!ways_with(f, a) = {} /\ L1P!Replaceable(f, i, way)
  BY DEF a
<1> HIDE DEF i, s, now
<1>12. ASSUME NEW j \in L1P!Sets(f), NEW w \in L1P!Ways(f), L1P!Holds(f, j, w, a)
       PROVE  j = i /\ w = way
  <2>1. j = i
    BY <1>12 DEF L1P!Holds, i
  <2>2. w \in L1P!ways_with(f, a)
    BY <1>1, <1>5, <1>12, <2>1 DEF i
  <2> QED
    BY <1>10, <1>11, <1>12, <2>1, <2>2
<1>13. \A x \in Space : L1P!sameBlock(f, a, x) => L1P!Holds(u, i, way, x)
  BY <1>1, <1>2, <1>4, <1>6 DEF L1P!Holds, i
<1>14. ASSUME NEW j \in L1P!Sets(f), NEW w \in L1P!Ways(f), L1P!line(u, j, w).valid
       PROVE  \E x \in Address : /\ L1P!Holds(u, j, w, x) /\ when(u, s, x) > 0
                                 /\ L1P!line(u, j, w).last_access = when(u, s, x)
  <2>1. CASE j = i /\ w = way
    <3>1. L1P!sameBlock(f, a, a)
      BY DEF L1P!sameBlock
    <3>2. L1P!Holds(u, j, w, a) /\ when(u, s, a) = now /\ now > 0
      BY <1>1, <1>8, <1>13, <2>1, <3>1 DEF now
    <3> QED
      BY <1>1, <1>6, <2>1, <3>2
  <2>2. CASE j # i \/ w # way
    <3>1. L1P!line(f, j, w).valid
      BY <1>7, <1>14, <2>2
    <3>2. PICK x \in Address : /\ L1P!Holds(f, j, w, x) /\ when(f, t, x) > 0
                               /\ L1P!line(f, j, w).last_access = when(f, t, x)
      BY <3>1 DEF RecentIn
    <3>3. ~L1P!sameBlock(f, a, x)
      <4> SUFFICES ASSUME L1P!sameBlock(f, a, x) PROVE FALSE
        OBVIOUS
      <4>1. L1P!Holds(f, j, w, a)
        BY <1>1, <1>4, <3>2 DEF L1P!Holds
      <4> QED
        BY <1>12, <2>2, <4>1
    <3> QED
      BY <1>7, <1>8, <2>2, <3>2, <3>3
  <2> QED
    BY <2>1, <2>2
<1>15. ASSUME NEW c \in Address, when(u, s, c) > 0, L1P!ways_with(u, c) = {},
              NEW w \in L1P!Ways(f)
       PROVE  LET l == L1P!line(u, L1P!get_index(f, c), w)
              IN  l.valid /\ l.last_access > when(u, s, c)
  <2> DEFINE m == L1P!get_index(f, c)
             k == when(f, t, c)
  <2>1. c \in Space /\ m \in L1P!Sets(f)
    BY <1>1, <1>5
  <2>2. \A v \in L1P!Ways(f) : ~L1P!Holds(u, m, v, c)
    BY <1>5, <1>15, <2>1
  <2>3. ~L1P!sameBlock(f, a, c)
    <3> SUFFICES ASSUME L1P!sameBlock(f, a, c) PROVE FALSE
      OBVIOUS
    <3>1. L1P!Holds(u, i, way, c)
      BY <1>13, <2>1
    <3>2. i = m
      BY <1>2, <3>1 DEF L1P!Holds
    <3> QED
      BY <2>2, <3>1, <3>2
  <2>4. when(u, s, c) = k /\ k > 0 /\ k \in Nat /\ k < now
    BY <1>1, <1>8, <1>9, <1>15, <2>3 DEF now
  <2>5. /\ L1P!line(f, m, w).valid
        /\ m # i \/ w # way => L1P!line(f, m, w).last_access > k
    <3>1. CASE L1P!ways_with(f, c) = {}
      BY <2>4, <3>1 DEF RecentIn
    <3>2. CASE L1P!ways_with(f, c) # {}
      <4>1. PICK v \in L1P!Ways(f) : L1P!Holds(f, m, v, c)
        BY <1>5, <2>1, <3>2
      <4>2. m = i /\ v = way
        BY <1>7, <2>1, <2>2, <4>1
      <4>3. ~L1P!Holds(f, i, way, a)
        <5>1. L1P!Holds(f, i, way, a) => L1P!sameBlock(f, a, c)
          BY <1>1, <1>4, <2>1, <4>1, <4>2 DEF L1P!Holds
        <5> QED
          BY <2>3, <5>1
      <4>4. \A x \in L1P!Ways(f) :
              /\ L1P!line(f, i, x).valid
              /\ L1P!line(f, i, way).last_access <= L1P!line(f, i, x).last_access
        BY <1>11, <4>1, <4>2, <4>3 DEF L1P!Replaceable, L1P!Holds
      <4>5. PICK x \in Address : /\ L1P!Holds(f, i, way, x)
                                 /\ L1P!line(f, i, way).last_access = when(f, t, x)
        BY <1>10, <4>4 DEF RecentIn
      <4>6. when(f, t, x) = k
        <5>1. L1P!sameBlock(f, x, c)
          BY <1>1, <1>4, <2>1, <4>1, <4>2, <4>5 DEF L1P!Holds
        <5> QED
          BY <5>1, WhenUsed
      <4>7. ASSUME w # way PROVE L1P!line(f, i, w).last_access > k
        <5>1. PICK y \in Address : /\ L1P!Holds(f, i, w, y) /\ when(f, t, y) > 0
                                   /\ L1P!line(f, i, w).last_access = when(f, t, y)
          BY <1>10, <4>4 DEF RecentIn
        <5>2. when(f, t, y) # k
          <6> SUFFICES ASSUME when(f, t, y) = k PROVE FALSE
            OBVIOUS
          <6>1. L1P!sameBlock(f, y, x)
            BY <4>6, <5>1, WhenUsed
          <6>2. L1P!line(f, i, w).tag = L1P!line(f, i, way).tag
            BY <1>1, <1>4, <4>5, <5>1, <6>1 DEF L1P!Holds
          <6> QED
            BY <1>3, <1>10, <4>4, <4>7, <6>2 DEF L1P!Consistent
        <5>3. when(f, t, y) >= k /\ when(f, t, y) \in Nat
          BY <1>1, <1>9, <4>4, <4>5, <4>6, <5>1
        <5> QED
          BY <2>4, <5>1, <5>2, <5>3
      <4> QED
        BY <4>2, <4>4, <4>7
    <3> QED
      BY <3>1, <3>2
  <2>6. CASE m = i /\ w = way
    BY <1>6, <2>4, <2>6
  <2>7. CASE m # i \/ w # way
    BY <1>7, <2>1, <2>4, <2>5, <2>7
  <2> QED
    BY <2>6, <2>7
<1> QED
  BY <1>2, <1>14, <1>15 DEF RecentIn, s

LEMMA RecStart == ASSUME ExactGeometry, Init PROVE RecInv
<1>1. IInv /\ trace = <<>> /\ trace \in Seq(Line)
  BY Start DEF Init, IInv
<1>2. h.L1 = L1P!CacheLevel(l1_cfg(args))
  BY L1Copies DEF Init
<1> DEFINE c == l1_cfg(args)
           n == c.size \div (c.block * c.assoc)
<1>3. /\ h["L1"].num_sets = n /\ h["L1"].config = c
      /\ h["L1"].sets = [i \in 0 .. n - 1 |->
                           [w \in 0 .. c.assoc - 1 |-> L1P!CacheLine(c.block)]]
  <2>1. h["L1"] = L1P!CacheLevel(c)
    BY <1>2
  <2> HIDE DEF c
  <2> QED
    BY <2>1 DEF L1P!CacheLevel
<1> HIDE DEF n, c
<1>4. \A i \in L1P!Sets(h) : \A w \in L1P!Ways(h) : ~L1P!line(h, i, w).valid
  BY <1>3 DEF L1P!Sets, L1P!Ways, L1P!line, L1P!CacheLine
<1>5. ASSUME NEW a PROVE ~(when(h, trace, a) > 0)
  <2>1. when(h, trace, a) \in 0 .. Len(trace) /\ Len(trace) = 0
    BY <1>1, WhenUsed
  <2> QED
    BY <2>1
<1> QED
  BY <1>4, <1>5 DEF RecInv, RecentIn

LEMMA RecStep ==
    ASSUME IInv, RecInv, NEW type \in {"r", "w"}, NEW a \in Address, TraceLine(type, a)
    PROVE  RecInv'
<1> DEFINE now == h.cycle + 1
           patch == [o \in IF type = "w" THEN {offset_of(a)} ELSE {} |-> now]
           g == [h EXCEPT !.cycle = now]
           done == L1P!access(g, a, type, patch)
           entry == [type |-> type, addr |-> a, val |-> done.data[offset_of(a)]]
<1>1. /\ h' = done.h /\ args' = args /\ trace' = Append(trace, entry) /\ entry \in Line
      /\ L1P!LevelInv(g) /\ L1P!Request(g, type, patch) /\ a \in Space
      /\ L1P!SameGeometry(h, g) /\ L1P!SameGeometry(g, done.h) /\ IInv'
  BY LineAccesses
<1>2. /\ h.cycle \in Nat /\ DOMAIN h = {"L1", "L2", "memory", "enable_l2", "cycle"}
  BY FiguresHere
<1>3. g["L1"] = h["L1"] /\ g.memory = h.memory /\ g.cycle = now /\ now = Len(trace) + 1
  BY <1>2 DEF IInv
<1> SUFFICES ASSUME args.l1_policy = "LRU", args.l1_prefetcher = "None"
             PROVE  RecentIn(h', trace')
  BY <1>1 DEF RecInv, RecentIn
<1> HIDE DEF now, g, patch
<1>4. RecentIn(g, trace)
  <2>1. RecentIn(h, trace)
    BY DEF RecInv
  <2>2. /\ L1P!Sets(g) = L1P!Sets(h) /\ L1P!Ways(g) = L1P!Ways(h)
        /\ \A i, w : L1P!line(g, i, w) = L1P!line(h, i, w)
        /\ \A x : L1P!get_index(g, x) = L1P!get_index(h, x)
        /\ \A x : L1P!get_tag(g, x) = L1P!get_tag(h, x)
    BY <1>3 DEF L1P!Sets, L1P!Ways, L1P!line, L1P!get_index, L1P!get_tag
  <2>3. \A i, w, x : L1P!Holds(g, i, w, x) <=> L1P!Holds(h, i, w, x)
    BY <2>2 DEF L1P!Holds
  <2>4. \A x : L1P!ways_with(g, x) = L1P!ways_with(h, x)
    BY <1>3, <2>2 DEF L1P!ways_with
  <2>5. \A x : when(g, trace, x) = when(h, trace, x)
    BY <1>3 DEF when, L1P!size
  <2> QED
    BY <2>1, <2>2, <2>3, <2>4, <2>5 DEF RecentIn
<1>5. /\ g["L1"].config.policy = "LRU" /\ g["L1"].config.prefetcher = "None"
  BY <1>3 DEF IInv, l1_cfg
<1>6. PICK way \in L1P!Ways(g) : \/ L1P!HitBy(g, done.h, a, type, way)
                                 \/ L1P!MissBy(g, done.h, a, type, way)
  BY <1>1, <1>5, BelowContract, BelowCounts, SameVocabulary, L1P!AccessAlone
<1> HIDE DEF done
<1>7. /\ L1P!Takes(g, done.h, a, way)
      /\ \/ L1P!Holds(g, L1P!get_index(g, a), way, a)
         \/ L1P!ways_with(g, a) = {} /\ L1P!Replaceable(g, L1P!get_index(g, a), way)
  BY <1>6 DEF L1P!HitBy, L1P!MissBy
<1>8. entry.addr = a
  OBVIOUS
<1>9. trace \in Seq(Line) /\ L1P!LevelInv(done.h)
  BY <1>1 DEF IInv
<1> HIDE DEF entry
<1> QED
  BY <1>1, <1>3, <1>4, <1>5, <1>7, <1>8, <1>9, RecentKept

LEMMA RecInvHolds == ASSUME ExactGeometry PROVE Spec => [](IInv /\ RecInv)
<1>1. Init => RecInv
  BY RecStart
<1>2. ASSUME IInv, RecInv, [Next]_vars PROVE RecInv'
  <2>1. CASE Next
    BY <1>2, <2>1, RecStep DEF Next
  <2>2. CASE UNCHANGED vars
    BY <1>2, <2>2 DEF vars, RecInv, RecentIn
  <2> QED
    BY <1>2, <2>1, <2>2
<1> QED
  BY <1>1, <1>2, IInvHolds, PTL DEF Spec

\* The blocks of the set of the block at address a used after it.
Rivals(a) ==
  {c \in {block_of(x) : x \in Address} :
     /\ get_index("L1", c * args.block) = get_index("L1", a)
     /\ lastUse(c) > lastUse(block_of(a))}

LEMMA RivalsAre ==
    ASSUME IInv, NEW a \in Address
    PROVE  /\ IsFiniteSet(Rivals(a)) /\ Cardinality(Rivals(a)) \in Nat
           /\ \A x \in Address :
                block_of(x) \in Rivals(a) <=>
                  /\ L1P!get_index(h, x) = L1P!get_index(h, a)
                  /\ when(h, trace, x) > when(h, trace, a)
           /\ \A c \in Rivals(a) : \E x \in Address : c = block_of(x)
<1>1. Address \subseteq Space /\ AddrSpace \in Nat
  BY AddressAssumption DEF Space
<1>2. h.memory.block = args.block /\ L1P!size(h) = args.block /\ MemInv(h) /\ L1P!LevelInv(h)
  BY DEF IInv, L1P!size, L1P!LevelInv, BelowInv
<1>3. \A b : lastUse(b) = lastIn(trace, args.block, b)
  BY DEF lastUse, lastIn, block_of
<1>4. \A x : lastUse(block_of(x)) = when(h, trace, x)
  BY <1>2, <1>3 DEF when, block_of
<1>5. ASSUME NEW x \in Address
      PROVE  get_index("L1", block_of(x) * args.block) = get_index("L1", x)
  <2> DEFINE b == block_of(x)
  <2>1. b \in DOMAIN h.memory.data
    BY <1>1, <1>2, BlockInMemory DEF block_of
  <2>2. b * args.block \in Space /\ block_of(b * args.block) = b
    BY <2>1, BlockAddress
  <2> DEFINE y == b * args.block
  <2> HIDE DEF y
  <2>3. y \in Space /\ x \in Space /\ L1P!sameBlock(h, y, x)
    BY <1>1, <1>2, <2>2 DEF L1P!sameBlock, block_of, y
  <2>4. L1P!get_index(h, y) = L1P!get_index(h, x)
    BY <1>2, <2>3, SameVocabulary DEF L1P!LevelInv, L1P!Consistent, L1P!Geometry
  <2> QED
    BY <2>3, <2>4, HeldOnTop DEF y
<1>6. \A x \in Address : get_index("L1", x) = L1P!get_index(h, x)
  BY <1>1, HeldOnTop
<1>7. ASSUME NEW x \in Address
      PROVE  block_of(x) \in Rivals(a) <=> /\ L1P!get_index(h, x) = L1P!get_index(h, a)
                                           /\ when(h, trace, x) > when(h, trace, a)
  BY <1>4, <1>5, <1>6 DEF Rivals
<1>8. \A c \in Rivals(a) : \E x \in Address : c = block_of(x)
  BY DEF Rivals
<1>9. IsFiniteSet(Rivals(a))
  <2> DEFINE q == (AddrSpace - 1) \div args.block
  <2>1. Rivals(a) \subseteq 0 .. q
    BY <1>1, <1>2, <1>8, BlockInMemory DEF block_of, MemInv
  <2>2. q \in Int
    <3>1. args.block \in Nat \ {0} /\ AddrSpace - 1 \in Nat
      BY <1>2, AddressAssumption DEF MemInv
    <3> QED
      BY <3>1, L2P!Division
  <2> HIDE DEF q
  <2>3. IsFiniteSet(0 .. q)
    BY <2>2, FS_Interval
  <2> QED
    BY <2>1, <2>3, FS_Subset
<1> QED
  BY <1>7, <1>8, <1>9, FS_CardinalityType

\* Held, and so are the rivals, one in each other way; or pushed out, and every
\* way has a rival.
LEMMA RecentMeans == ASSUME IInv, RecInv PROVE LRUKeepsRecent
<1> SUFFICES ASSUME args.l1_policy = "LRU", args.l1_prefetcher = "None", NEW a \in Address
             PROVE  ways_with("L1", a) # {}
                      <=> lastUse(block_of(a)) > 0 /\ Cardinality(Rivals(a)) < args.assoc
  BY DEF LRUKeepsRecent, Rivals
<1> DEFINE i == L1P!get_index(h, a)
           W == L1P!Ways(h)
           assoc == args.assoc
           u == when(h, trace, a)
           n == Cardinality(Rivals(a))
<1>1. /\ L1P!LevelType(h) /\ L1P!Consistent(h) /\ h["L1"].config.assoc = assoc
      /\ assoc \in Nat \ {0} /\ trace \in Seq(Line) /\ L1P!size(h) = args.block
  BY CommandLine DEF IInv, L1P!LevelInv, L1P!size
<1>2. Address \subseteq Space
  BY AddressAssumption DEF Space
<1>3. RecentIn(h, trace)
  BY DEF RecInv
<1>4. /\ IsFiniteSet(Rivals(a)) /\ n \in Nat
      /\ \A x \in Address : block_of(x) \in Rivals(a) <=>
           L1P!get_index(h, x) = i /\ when(h, trace, x) > u
      /\ \A c \in Rivals(a) : \E x \in Address : c = block_of(x)
  BY RivalsAre
<1>5. lastUse(block_of(a)) = u
  BY <1>1 DEF when, lastUse, lastIn, block_of
<1>6. ways_with("L1", a) = L1P!ways_with(h, a)
  BY <1>2, HeldOnTop
<1>7. \A x \in Address : /\ L1P!get_index(h, x) \in L1P!Sets(h)
                         /\ L1P!ways_with(h, x) =
                              {w \in W : L1P!Holds(h, L1P!get_index(h, x), w, x)}
  BY <1>1, <1>2, SameVocabulary, L1P!WaysWith
<1>8. \A x : when(h, trace, x) \in Nat
  BY <1>1, WhenUsed
<1>9. \A x, y \in Address : block_of(x) = block_of(y) <=>
        L1P!get_index(h, x) = L1P!get_index(h, y) /\ L1P!get_tag(h, x) = L1P!get_tag(h, y)
  <2>1. \A x, y : L1P!sameBlock(h, x, y) <=> block_of(x) = block_of(y)
    BY <1>1 DEF L1P!sameBlock, block_of
  <2> QED
    BY <1>1, <1>2, <2>1, SameVocabulary DEF L1P!Consistent, L1P!Geometry
<1>10. W = 0 .. assoc - 1 /\ IsFiniteSet(W) /\ Cardinality(W) = assoc
  <2> HIDE DEF assoc
  <2>1. W = 0 .. assoc - 1
    BY <1>1 DEF L1P!Ways
  <2>2. IsFiniteSet(0 .. assoc - 1) /\ Cardinality(0 .. assoc - 1) = assoc
    <3> DEFINE k == assoc - 1
    <3>1. k \in Int /\ ~(0 > k) /\ k - 0 + 1 = assoc
      BY <1>1
    <3> HIDE DEF k
    <3>2. IsFiniteSet(0 .. k) /\ Cardinality(0 .. k) = k - 0 + 1
      BY <3>1, FS_Interval
    <3> QED
      BY <3>1, <3>2 DEF k
  <2> QED
    BY <2>1, <2>2
<1> HIDE DEF i, W, assoc, u, n
<1>11. ASSUME L1P!ways_with(h, a) # {} PROVE u > 0 /\ n < assoc
  <2>1. PICK v \in W : L1P!Holds(h, i, v, a)
    BY <1>7, <1>11 DEF i
  <2>2. u > 0 /\ L1P!line(h, i, v).last_access = u
    <3>1. PICK x \in Address : /\ L1P!Holds(h, i, v, x) /\ when(h, trace, x) > 0
                               /\ L1P!line(h, i, v).last_access = when(h, trace, x)
      BY <1>3, <1>7, <2>1 DEF RecentIn, L1P!Holds, i, W
    <3>2. block_of(x) = block_of(a)
      BY <1>9, <2>1, <3>1 DEF L1P!Holds
    <3>3. when(h, trace, x) = u
      BY <1>1, <3>2 DEF when, block_of, u
    <3> QED
      BY <3>1, <3>3
  <2>3. ASSUME NEW c \in Rivals(a)
        PROVE  \E w \in W \ {v} : \E x \in Address : c = block_of(x) /\ L1P!Holds(h, i, w, x)
    <3>1. PICK x \in Address : c = block_of(x)
      BY <1>4
    <3>2. L1P!get_index(h, x) = i /\ when(h, trace, x) > u /\ when(h, trace, x) > 0
      BY <1>4, <1>8, <2>2, <2>3, <3>1 DEF u
    <3>3. L1P!ways_with(h, x) # {}
      <4> SUFFICES ASSUME L1P!ways_with(h, x) = {} PROVE FALSE
        OBVIOUS
      <4>1. L1P!line(h, i, v).last_access > when(h, trace, x)
        BY <1>3, <2>1, <3>2 DEF RecentIn, W
      <4> QED
        BY <1>8, <2>2, <3>2, <4>1 DEF u
    <3>4. PICK w \in W : L1P!Holds(h, i, w, x)
      BY <1>7, <3>2, <3>3
    <3>5. w # v
      <4> SUFFICES ASSUME w = v PROVE FALSE
        OBVIOUS
      <4>1. block_of(x) = block_of(a)
        BY <1>9, <2>1, <3>4 DEF L1P!Holds
      <4>2. when(h, trace, x) = u
        BY <1>1, <4>1 DEF when, block_of, u
      <4> QED
        BY <1>8, <3>2, <4>2 DEF u
    <3> QED
      BY <3>1, <3>4, <3>5
  <2> DEFINE f == [c \in Rivals(a) |->
                     CHOOSE w \in W \ {v} :
                       \E x \in Address : c = block_of(x) /\ L1P!Holds(h, i, w, x)]
  <2>4. f \in [Rivals(a) -> W \ {v}]
    BY <2>3
  <2>5. \A c \in Rivals(a) : \E x \in Address : c = block_of(x) /\ L1P!Holds(h, i, f[c], x)
    BY <2>3
  <2> HIDE DEF f
  <2>6. f \in Injection(Rivals(a), W \ {v})
    <3>1. \A c, d \in Rivals(a) : f[c] = f[d] => c = d
      BY <1>9, <2>5 DEF L1P!Holds
    <3> QED
      BY <2>4, <3>1 DEF Injection, IsInjective
  <2>7. IsFiniteSet(W \ {v}) /\ Cardinality(W \ {v}) = assoc - 1
    BY <1>10, <2>1, FS_RemoveElement
  <2>8. n <= assoc - 1
    BY <2>6, <2>7, FS_Injection DEF n
  <2> QED
    BY <1>1, <1>4, <2>2, <2>8 DEF n, assoc
<1>12. ASSUME L1P!ways_with(h, a) = {}, u > 0 PROVE ~(n < assoc)
  <2>1. ASSUME NEW w \in W
        PROVE  \E c \in Rivals(a) : \E x \in Address : c = block_of(x) /\ L1P!Holds(h, i, w, x)
    <3>1. L1P!line(h, i, w).valid /\ L1P!line(h, i, w).last_access > u
      BY <1>3, <1>12 DEF RecentIn, i, u, W
    <3>2. PICK x \in Address : /\ L1P!Holds(h, i, w, x)
                               /\ L1P!line(h, i, w).last_access = when(h, trace, x)
      BY <1>3, <1>7, <3>1 DEF RecentIn, i, W
    <3>3. L1P!get_index(h, x) = i
      BY <3>2 DEF L1P!Holds
    <3>4. block_of(x) \in Rivals(a)
      BY <1>4, <3>1, <3>2, <3>3
    <3> QED
      BY <3>2, <3>4
  <2> DEFINE f == [w \in W |->
                     CHOOSE c \in Rivals(a) :
                       \E x \in Address : c = block_of(x) /\ L1P!Holds(h, i, w, x)]
  <2>2. f \in [W -> Rivals(a)]
    BY <2>1
  <2>3. \A w \in W : \E x \in Address : f[w] = block_of(x) /\ L1P!Holds(h, i, w, x)
    BY <2>1
  <2> HIDE DEF f
  <2>4. f \in Injection(W, Rivals(a))
    <3>1. ASSUME NEW v \in W, NEW w \in W, f[v] = f[w] PROVE v = w
      <4>1. PICK x \in Address : f[v] = block_of(x) /\ L1P!Holds(h, i, v, x)
        BY <2>3
      <4>2. PICK y \in Address : f[w] = block_of(y) /\ L1P!Holds(h, i, w, y)
        BY <2>3
      <4>3. L1P!get_tag(h, x) = L1P!get_tag(h, y)
        BY <1>9, <3>1, <4>1, <4>2
      <4> QED
        BY <1>1, <1>7, <4>1, <4>2, <4>3 DEF L1P!Consistent, L1P!Holds, i, W
    <3> QED
      BY <2>2, <3>1 DEF Injection, IsInjective
  <2>5. assoc <= n
    BY <1>4, <1>10, <2>4, FS_Injection DEF n
  <2> QED
    BY <1>1, <1>4, <2>5 DEF n, assoc
<1> QED
  BY <1>5, <1>6, <1>11, <1>12 DEF u, n, assoc

\* LRU without prefetching keeps in each set of L1 the blocks used last.
THEOREM CacheKeepsRecent == ASSUME ExactGeometry PROVE Spec => []LRUKeepsRecent
<1>1. IInv /\ RecInv => LRUKeepsRecent
  BY RecentMeans
<1> QED
  BY <1>1, RecInvHolds, PTL
=============================================================================
