--------------------------- MODULE CacheLevelProof --------------------------
(***************************************************************************)
(* One level of the hierarchy behaves like the memory it stands before,    *)
(* whatever its policy and its prefetcher, if the next level does.         *)
(*                                                                         *)
(* What the next level guarantees is a contract about next_access: in a    *)
(* hierarchy that satisfies nextInv, nextMem(h, a) is the data of the      *)
(* block at address a as a read of the next level would return it.         *)
(***************************************************************************)
EXTENDS CacheLevel, TLAPS, WellFoundedInduction, FiniteSetTheorems

CONSTANTS
    nextInv(_), nextMem(_, _),             \* what it holds
    nextCount(_), nextLat(_), nextOk(_)    \* what it counts

Addr == 0 .. AddrSpace - 1
size(h) == h.memory.block
sameBlock(h, a, b) == a \div size(h) = b \div size(h)
Data(h) == [0 .. size(h) - 1 -> 0 .. h.cycle]

\* What a level is asked: a read, or a write of some bytes of a block.
Request(h, type, patch) ==
  \/ type = "r" /\ DOMAIN patch = {}
  \/ type = "w" /\ \A o \in DOMAIN patch : patch[o] \in 0 .. h.cycle

Shape(h) == /\ DOMAIN h = {"L1", "L2", "memory", "enable_l2", "cycle"}
            /\ h.cycle \in Nat
            /\ size(h) \in Nat \ {0}

\* Only these levels and the memory change, and no configuration does.
SameBut(h, g, levels) ==
  /\ DOMAIN g = DOMAIN h
  /\ \A k \in {"L1", "L2", "cycle", "enable_l2"} \ levels : g[k] = h[k]
  /\ g.L1.config = h.L1.config /\ g.L2.config = h.L2.config
  /\ size(g) = size(h)

\* The level and what lies below it.
Own == {level, "L2"}

\* What lies below it.
Below == {"L2"} \ {level}

\* The next level sees no difference between h and g.
SameBelow(h, g) == nextInv(g) /\ \A a \in Addr : nextMem(g, a) = nextMem(h, a)

NextAnswers(h, done, a, patch) ==
  /\ nextInv(done.h) /\ SameBut(h, done.h, Below)
  /\ done.data = patched(nextMem(h, a), patch)
  /\ done.lat \in Nat
  /\ \A b \in Addr : nextMem(done.h, b) = IF sameBlock(h, a, b)
                                          THEN patched(nextMem(h, a), patch)
                                          ELSE nextMem(h, b)

NextContract ==
  /\ level \in {"L1", "L2"} /\ AddrSpace \in Nat \ {0}
  /\ \A h : nextInv(h) =>
       /\ Shape(h)
       /\ \A a \in Addr : nextMem(h, a) \in Data(h)
       /\ \A a, b \in Addr : sameBlock(h, a, b) => nextMem(h, a) = nextMem(h, b)
       /\ \A x : SameBelow(h, [h EXCEPT ![level] = x])
       /\ \A n \in Nat : n >= h.cycle => SameBelow(h, [h EXCEPT !.cycle = n])
       /\ \A a \in Addr : \A type, patch : Request(h, type, patch) =>
            NextAnswers(h, next_access(h, a, type, patch), a, patch)

(***************************************************************************)
(* The lines of a level.                                                   *)
(***************************************************************************)
Sets(h) == 0 .. h[level].num_sets - 1
Ways(h) == 0 .. h[level].config.assoc - 1
line(h, i, w) == h[level].sets[i][w]

LineType(h) ==
  [tag : Nat, valid : BOOLEAN, dirty : BOOLEAN, last_access : 0 .. h.cycle,
   rrpv : 0 .. 3, is_prefetched : BOOLEAN, data : Data(h)]

Config == [size : Nat, assoc : Nat \ {0}, block : Nat \ {0}, latency : Nat,
           policy : {"LRU", "SRRIP", "BIP"},
           prefetcher : {"None", "NextLine", "Stride", "Custom"}]

Fields == {"config", "num_sets", "offset_bits", "index_bits", "sets", "hits", "misses",
           "write_backs", "prefetch_issued", "insertion_counter", "last_block", "last_stride"}

LevelType(h) ==
  LET lev == h[level]
  IN  /\ DOMAIN lev = Fields
      /\ lev.config \in Config /\ lev.config.block = size(h)
      /\ lev.num_sets \in Nat
      /\ lev.sets \in [Sets(h) -> [Ways(h) -> LineType(h)]]
      /\ {lev.hits, lev.misses, lev.write_backs, lev.prefetch_issued,
          lev.insertion_counter, lev.last_block} \subseteq Nat
      /\ lev.last_stride \in Int

\* Index and tag name a block, and the address made of them is in it.
Geometry(h) ==
  /\ \A a \in Addr :
       /\ get_index(h, a) \in Sets(h) /\ get_tag(h, a) \in Nat
       /\ reconstruct_addr(h, get_tag(h, a), get_index(h, a)) \in Addr
       /\ sameBlock(h, a, reconstruct_addr(h, get_tag(h, a), get_index(h, a)))
  /\ \A a, b \in Addr :
       sameBlock(h, a, b) <=> get_index(h, a) = get_index(h, b) /\ get_tag(h, a) = get_tag(h, b)

\* Way w of set i has the block at address a.
Holds(h, i, w, a) ==
  line(h, i, w).valid /\ i = get_index(h, a) /\ line(h, i, w).tag = get_tag(h, a)

Consistent(h) ==
  /\ Geometry(h)
  /\ \A i \in Sets(h) : \A w \in Ways(h) :
       IF line(h, i, w).valid THEN \E a \in Addr : Holds(h, i, w, a)
       ELSE ~line(h, i, w).dirty
  /\ \A i \in Sets(h) : \A v, w \in Ways(h) :
       line(h, i, v).valid /\ line(h, i, w).valid /\ line(h, i, v).tag = line(h, i, w).tag
         => v = w
  /\ \A i \in Sets(h) : \A w \in Ways(h) : \A a \in Addr :
       Holds(h, i, w, a) /\ ~line(h, i, w).dirty => line(h, i, w).data = nextMem(h, a)

LevelInv(h) == nextInv(h) /\ LevelType(h) /\ Consistent(h)

\* The data of the block at address a, as a read of this level returns it.
levelMem(h, a) ==
  IF ways_with(h, a) = {} THEN nextMem(h, a)
  ELSE line(h, get_index(h, a), last(ways_with(h, a))).data

-----------------------------------------------------------------------------
LEMMA PatchedType ==
    ASSUME NEW h, NEW data \in Data(h), NEW type, NEW patch, Request(h, type, patch), Shape(h)
    PROVE  /\ patched(data, patch) \in Data(h)
           /\ \A p : DOMAIN p = {} => patched(data, p) = data
           /\ \A d \in Data(h) : patched(data, d) = d
<1>1. DOMAIN data = 0 .. size(h) - 1 /\ \A o \in DOMAIN data : data[o] \in 0 .. h.cycle
  BY DEF Data
<1>2. \A o \in DOMAIN patch : patch[o] \in 0 .. h.cycle
  BY DEF Request
<1>3. patched(data, patch) \in Data(h)
  BY <1>1, <1>2 DEF patched, Data
<1>4. \A p : DOMAIN p = {} => patched(data, p) = data
  BY <1>1 DEF patched, Data
<1>5. ASSUME NEW d \in Data(h) PROVE patched(data, d) = d
  <2>1. DOMAIN d = 0 .. size(h) - 1 /\ d = [o \in 0 .. size(h) - 1 |-> d[o]]
    BY DEF Data
  <2> QED
    BY <1>1, <2>1 DEF patched
<1> QED
  BY <1>3, <1>4, <1>5

\* A set of naturals that is not empty has a least member.
LEMMA LeastMember ==
    ASSUME NEW S \in SUBSET Nat, S # {}
    PROVE  \E n \in S : \A m \in S : n <= m
<1>1. \E n \in S : \A m \in S : ~ (<<m, n>> \in OpToRel(<, Nat))
  BY NatLessThanWellFounded, WFMin
<1>2. PICK n \in S : \A m \in S : ~ (<<m, n>> \in OpToRel(<, Nat))
  BY <1>1
<1>3. ASSUME NEW m \in S PROVE n <= m
  <2>1. m \in Nat /\ n \in Nat
    OBVIOUS
  <2>2. ~ (m < n)
    BY <1>2, <1>3, <2>1 DEF OpToRel
  <2> QED
    BY <2>1, <2>2
<1> QED
  BY <1>3

LEMMA FirstWay ==
    ASSUME NEW S \in SUBSET Nat, S # {}
    PROVE  first(S) \in S
BY LeastMember DEF first

\* The ways that hold the block of an address: one at most.
LEMMA WaysWith ==
    ASSUME NEW h, LevelType(h), Consistent(h), NEW a \in Addr
    PROVE  /\ get_index(h, a) \in Sets(h)
           /\ ways_with(h, a) = {w \in Ways(h) : Holds(h, get_index(h, a), w, a)}
           /\ \A w \in ways_with(h, a) : ways_with(h, a) = {w} /\ last(ways_with(h, a)) = w
<1>1. get_index(h, a) \in Sets(h)
  BY DEF Consistent, Geometry
<1>2. DOMAIN h[level].sets[get_index(h, a)] = Ways(h)
  BY <1>1 DEF LevelType
<1>3. ways_with(h, a) = {w \in Ways(h) : Holds(h, get_index(h, a), w, a)}
  BY <1>2 DEF ways_with, Holds, line
<1>4. ASSUME NEW w \in ways_with(h, a)
      PROVE  ways_with(h, a) = {w} /\ last(ways_with(h, a)) = w
  <2>1. \A v \in ways_with(h, a) : v = w
    BY <1>1, <1>3 DEF Consistent, Holds
  <2>2. ways_with(h, a) = {w}
    BY <2>1
  <2>3. w <= w
    BY <1>3 DEF Ways
  <2> QED
    BY <2>2, <2>3 DEF last
<1> QED
  BY <1>1, <1>3, <1>4

-----------------------------------------------------------------------------
(***************************************************************************)
(* Steps of the hierarchy, as far as consistency is concerned.             *)
(***************************************************************************)
SameGeometry(h, g) ==
  /\ size(g) = size(h)
  /\ \A f \in {"config", "num_sets", "offset_bits", "index_bits"} : g[level][f] = h[level][f]

SameLine(l, m) == l.valid = m.valid /\ l.tag = m.tag /\ l.dirty = m.dirty /\ l.data = m.data

LEMMA GeometrySame ==
    ASSUME NEW h, NEW g, SameGeometry(h, g)
    PROVE  /\ Sets(g) = Sets(h) /\ Ways(g) = Ways(h)
           /\ \A a, b : sameBlock(g, a, b) <=> sameBlock(h, a, b)
           /\ \A a : get_index(g, a) = get_index(h, a) /\ get_tag(g, a) = get_tag(h, a)
           /\ \A t, i : reconstruct_addr(g, t, i) = reconstruct_addr(h, t, i)
           /\ Geometry(h) => Geometry(g)
<1>1. /\ g[level].config = h[level].config /\ g[level].num_sets = h[level].num_sets
      /\ g[level].offset_bits = h[level].offset_bits /\ g[level].index_bits = h[level].index_bits
      /\ size(g) = size(h)
  BY DEF SameGeometry
<1>2. Sets(g) = Sets(h) /\ Ways(g) = Ways(h)
  BY <1>1 DEF Sets, Ways
<1>3. \A a, b : sameBlock(g, a, b) <=> sameBlock(h, a, b)
  BY <1>1 DEF sameBlock
<1>4. \A a : get_index(g, a) = get_index(h, a) /\ get_tag(g, a) = get_tag(h, a)
  BY <1>1 DEF get_index, get_tag
<1>5. \A t, i : reconstruct_addr(g, t, i) = reconstruct_addr(h, t, i)
  BY <1>1 DEF reconstruct_addr
<1> QED
  BY <1>2, <1>3, <1>4, <1>5 DEF Geometry

(* The next level changes what no clean line of this level has; the lines
   stay. *)
LEMMA LinesStay ==
    ASSUME NEW h, NEW g, LevelInv(h), nextInv(g), LevelType(g), SameGeometry(h, g),
           \A i \in Sets(h) : \A w \in Ways(h) : SameLine(line(g, i, w), line(h, i, w)),
           \A a \in Addr :
             \/ nextMem(g, a) = nextMem(h, a)
             \/ \E i \in Sets(h) : \E w \in Ways(h) : Holds(h, i, w, a) /\ line(h, i, w).dirty
    PROVE  /\ LevelInv(g)
           /\ \A a \in Addr : ways_with(g, a) = ways_with(h, a) /\ levelMem(g, a) = levelMem(h, a)
<1>1. /\ Sets(g) = Sets(h) /\ Ways(g) = Ways(h) /\ Geometry(g)
      /\ \A a : get_index(g, a) = get_index(h, a) /\ get_tag(g, a) = get_tag(h, a)
  BY GeometrySame DEF LevelInv, Consistent
<1>2. \A i \in Sets(h) : \A w \in Ways(h) :
        /\ line(g, i, w).valid = line(h, i, w).valid /\ line(g, i, w).tag = line(h, i, w).tag
        /\ line(g, i, w).dirty = line(h, i, w).dirty /\ line(g, i, w).data = line(h, i, w).data
  BY DEF SameLine
<1>3. \A i \in Sets(h) : \A w \in Ways(h) : \A a : Holds(g, i, w, a) <=> Holds(h, i, w, a)
  BY <1>1, <1>2 DEF Holds
<1>4. ASSUME NEW i \in Sets(h), NEW w \in Ways(h), NEW a \in Addr,
             Holds(h, i, w, a), ~line(h, i, w).dirty
      PROVE  line(g, i, w).data = nextMem(g, a)
  <2>1. line(h, i, w).data = nextMem(h, a)
    BY <1>4 DEF LevelInv, Consistent
  <2>2. \A j \in Sets(h) : \A v \in Ways(h) : Holds(h, j, v, a) => j = i /\ v = w
    BY <1>4 DEF LevelInv, Consistent, Holds
  <2>3. nextMem(g, a) = nextMem(h, a)
    BY <1>4, <2>2
  <2> QED
    BY <1>2, <2>1, <2>3
<1>5. Consistent(g)
  <2>1. \A i \in Sets(g) : \A w \in Ways(g) :
          IF line(g, i, w).valid THEN \E a \in Addr : Holds(g, i, w, a)
          ELSE ~line(g, i, w).dirty
    BY <1>1, <1>2, <1>3 DEF LevelInv, Consistent
  <2>2. \A i \in Sets(g) : \A v, w \in Ways(g) :
          line(g, i, v).valid /\ line(g, i, w).valid /\ line(g, i, v).tag = line(g, i, w).tag
            => v = w
    BY <1>1, <1>2 DEF LevelInv, Consistent
  <2>3. \A i \in Sets(g) : \A w \in Ways(g) : \A a \in Addr :
          Holds(g, i, w, a) /\ ~line(g, i, w).dirty => line(g, i, w).data = nextMem(g, a)
    BY <1>1, <1>2, <1>3, <1>4
  <2> QED
    BY <1>1, <2>1, <2>2, <2>3 DEF Consistent
<1>6. ASSUME NEW a \in Addr
      PROVE  ways_with(g, a) = ways_with(h, a) /\ levelMem(g, a) = levelMem(h, a)
  <2>1. /\ get_index(h, a) \in Sets(h)
        /\ ways_with(h, a) = {w \in Ways(h) : Holds(h, get_index(h, a), w, a)}
        /\ ways_with(g, a) = {w \in Ways(g) : Holds(g, get_index(g, a), w, a)}
        /\ \A w \in ways_with(h, a) : last(ways_with(h, a)) = w
    BY <1>5, WaysWith DEF LevelInv
  <2>2. ways_with(g, a) = ways_with(h, a)
    BY <1>1, <1>3, <2>1
  <2>3. CASE ways_with(h, a) = {}
    <3>1. nextMem(g, a) = nextMem(h, a)
      BY <2>1, <2>3 DEF Holds
    <3> QED
      BY <2>2, <2>3, <3>1 DEF levelMem
  <2>4. CASE ways_with(h, a) # {}
    <3>1. PICK w \in ways_with(h, a) : last(ways_with(h, a)) = w
      BY <2>1, <2>4
    <3>2. w \in Ways(h)
      BY <2>1
    <3> QED
      BY <1>1, <1>2, <2>1, <2>2, <2>4, <3>1, <3>2 DEF levelMem
  <2> QED
    BY <2>2, <2>3, <2>4
<1> QED
  BY <1>5, <1>6 DEF LevelInv

(* A line takes the block at address a: one that has it already, or one that
   may go because it is not valid or the next level has its data. *)
Expendable(h, i, w) ==
  \A b \in Addr : Holds(h, i, w, b) => line(h, i, w).data = nextMem(h, b)

LEMMA LineTakes ==
    ASSUME NEW h, NEW g, LevelInv(h), nextInv(g), LevelType(g), SameGeometry(h, g),
           \A b \in Addr : nextMem(g, b) = nextMem(h, b),
           NextContract,
           NEW a \in Addr, NEW way \in Ways(h), ways_with(h, a) \subseteq {way},
           way \in ways_with(h, a) \/ Expendable(h, get_index(h, a), way),
           \A i \in Sets(h) : \A w \in Ways(h) :
             i # get_index(h, a) \/ w # way => SameLine(line(g, i, w), line(h, i, w)),
           LET l == line(g, get_index(h, a), way)
           IN  /\ l.valid /\ l.tag = get_tag(h, a)
               /\ l.dirty \/ l.data = nextMem(h, a)
    PROVE  /\ LevelInv(g)
           /\ way \in ways_with(g, a)
           /\ \A b \in Addr :
                levelMem(g, b) = IF sameBlock(h, a, b) THEN line(g, get_index(h, a), way).data
                                 ELSE levelMem(h, b)
<1> DEFINE index == get_index(h, a)
           l == line(g, index, way)
<1>1. /\ Sets(g) = Sets(h) /\ Ways(g) = Ways(h) /\ Geometry(g) /\ Geometry(h)
      /\ \A b : get_index(g, b) = get_index(h, b) /\ get_tag(g, b) = get_tag(h, b)
      /\ index \in Sets(h)
  BY GeometrySame, WaysWith DEF LevelInv, Consistent
<1>2. \A i \in Sets(h) : \A w \in Ways(h) : i # index \/ w # way =>
        /\ line(g, i, w).valid = line(h, i, w).valid /\ line(g, i, w).tag = line(h, i, w).tag
        /\ line(g, i, w).dirty = line(h, i, w).dirty /\ line(g, i, w).data = line(h, i, w).data
  BY DEF SameLine
<1>3. l.valid /\ l.tag = get_tag(h, a) /\ (l.dirty \/ l.data = nextMem(h, a))
  OBVIOUS
<1> HIDE DEF l
<1>4. \A i \in Sets(h) : \A w \in Ways(h) : \A b :
        Holds(g, i, w, b) <=> IF i = index /\ w = way
                              THEN index = get_index(h, b) /\ get_tag(h, a) = get_tag(h, b)
                              ELSE Holds(h, i, w, b)
  BY <1>1, <1>2, <1>3 DEF Holds, l
<1>5. \A b \in Addr : sameBlock(h, a, b) <=>
        index = get_index(h, b) /\ get_tag(h, a) = get_tag(h, b)
  BY <1>1 DEF Geometry
<1>6. \A b \in Addr : sameBlock(h, a, b) => nextMem(h, a) = nextMem(h, b)
  BY DEF NextContract, LevelInv
<1>7. \A w \in Ways(h) : line(h, index, w).valid /\ line(h, index, w).tag = get_tag(h, a) => w = way
  <2>1. \A w \in Ways(h) : Holds(h, index, w, a) => w \in ways_with(h, a)
    BY WaysWith DEF LevelInv
  <2> QED
    BY <2>1 DEF Holds
<1>8. Consistent(g)
  <2>1. ASSUME NEW i \in Sets(h), NEW w \in Ways(h)
        PROVE  IF line(g, i, w).valid THEN \E b \in Addr : Holds(g, i, w, b)
               ELSE ~line(g, i, w).dirty
    <3>1. CASE i = index /\ w = way
      <4>1. Holds(g, i, w, a)
        BY <1>4, <3>1
      <4> QED
        BY <1>3, <3>1, <4>1 DEF l
    <3>2. CASE ~(i = index /\ w = way)
      <4>1. IF line(h, i, w).valid THEN \E b \in Addr : Holds(h, i, w, b)
            ELSE ~line(h, i, w).dirty
        BY DEF LevelInv, Consistent
      <4> QED
        BY <1>2, <1>4, <3>2, <4>1
    <3> QED
      BY <3>1, <3>2
  <2>2. ASSUME NEW i \in Sets(h), NEW v \in Ways(h), NEW w \in Ways(h),
               line(g, i, v).valid, line(g, i, w).valid, line(g, i, v).tag = line(g, i, w).tag
        PROVE  v = w
    <3>1. CASE i = index /\ v = way
      BY <1>2, <1>3, <1>7, <2>2, <3>1 DEF l
    <3>2. CASE i = index /\ w = way
      BY <1>2, <1>3, <1>7, <2>2, <3>2 DEF l
    <3>3. CASE i # index \/ (v # way /\ w # way)
      BY <1>2, <2>2, <3>3 DEF LevelInv, Consistent
    <3> QED
      BY <3>1, <3>2, <3>3
  <2>3. ASSUME NEW i \in Sets(h), NEW w \in Ways(h), NEW b \in Addr,
               Holds(g, i, w, b), ~line(g, i, w).dirty
        PROVE  line(g, i, w).data = nextMem(g, b)
    <3>1. CASE i = index /\ w = way
      BY <1>3, <1>4, <1>5, <1>6, <2>3, <3>1 DEF l
    <3>2. CASE ~(i = index /\ w = way)
      BY <1>2, <1>4, <2>3, <3>2 DEF LevelInv, Consistent
    <3> QED
      BY <3>1, <3>2
  <2> QED
    BY <1>1, <2>1, <2>2, <2>3 DEF Consistent
<1>9. way \in ways_with(g, a)
  BY <1>1, <1>3, <1>4, <1>8, WaysWith
<1>10. ASSUME NEW b \in Addr
       PROVE  levelMem(g, b) = IF sameBlock(h, a, b) THEN l.data ELSE levelMem(h, b)
  <2>1. /\ get_index(h, b) \in Sets(h)
        /\ ways_with(h, b) = {w \in Ways(h) : Holds(h, get_index(h, b), w, b)}
        /\ ways_with(g, b) = {w \in Ways(h) : Holds(g, get_index(h, b), w, b)}
        /\ \A w \in ways_with(h, b) : ways_with(h, b) = {w} /\ last(ways_with(h, b)) = w
        /\ \A w \in ways_with(g, b) : ways_with(g, b) = {w} /\ last(ways_with(g, b)) = w
    BY <1>1, <1>8, WaysWith DEF LevelInv
  <2>2. CASE sameBlock(h, a, b)
    <3>1. way \in ways_with(g, b)
      BY <1>4, <1>5, <2>1, <2>2
    <3> QED
      BY <1>1, <1>5, <2>1, <2>2, <3>1 DEF levelMem, l
  <2>3. CASE ~sameBlock(h, a, b)
    <3>1. ~Holds(g, index, way, b)
      BY <1>1, <1>4, <1>5, <2>3
    <3>2. ASSUME Holds(h, index, way, b)
          PROVE  line(h, index, way).data = nextMem(h, b)
      <4>1. way \notin ways_with(h, a)
        BY <1>5, <2>3, <3>2, WaysWith DEF LevelInv, Holds
      <4> QED
        BY <3>2, <4>1 DEF Expendable
    <3>3. CASE Holds(h, index, way, b)
      <4>1. ways_with(h, b) = {way} /\ last(ways_with(h, b)) = way /\ index = get_index(h, b)
        BY <2>1, <3>3 DEF Holds
      <4>2. ways_with(g, b) = {}
        <5>1. \A w \in Ways(h) : w # way => ~Holds(g, index, w, b)
          BY <1>1, <1>4, <2>1, <4>1
        <5> QED
          BY <2>1, <3>1, <4>1, <5>1
      <4> QED
        BY <2>3, <3>2, <3>3, <4>1, <4>2 DEF levelMem
    <3>4. CASE ~Holds(h, index, way, b)
      <4>1. ways_with(g, b) = ways_with(h, b)
        BY <1>4, <2>1, <3>1, <3>4
      <4>2. ASSUME NEW w \in ways_with(h, b)
            PROVE  line(g, get_index(h, b), w).data = line(h, get_index(h, b), w).data
        BY <1>2, <2>1, <3>4
      <4>3. CASE ways_with(h, b) = {}
        BY <2>3, <4>1, <4>3 DEF levelMem
      <4>4. CASE ways_with(h, b) # {}
        <5>1. PICK w \in ways_with(h, b) : last(ways_with(h, b)) = w
          BY <2>1, <4>4
        <5> QED
          BY <1>1, <2>1, <2>3, <4>1, <4>2, <4>4, <5>1 DEF levelMem
      <4> QED
        BY <4>3, <4>4
    <3> QED
      BY <3>3, <3>4
  <2> QED
    BY <2>2, <2>3
<1> QED
  BY <1>8, <1>9, <1>10 DEF LevelInv, l

-----------------------------------------------------------------------------
(***************************************************************************)
(* Steps that only this level sees.                                        *)
(***************************************************************************)
Put(h, x) == [h EXCEPT ![level] = x]

LEMMA PutSame ==
    ASSUME NextContract, NEW h, nextInv(h), NEW x
    PROVE  /\ Put(h, x)[level] = x /\ Shape(Put(h, x)) /\ nextInv(Put(h, x))
           /\ size(Put(h, x)) = size(h) /\ Put(h, x).cycle = h.cycle
           /\ Data(Put(h, x)) = Data(h) /\ LineType(Put(h, x)) = LineType(h)
           /\ \A a \in Addr : nextMem(Put(h, x), a) = nextMem(h, a)
           /\ x.config = h[level].config => SameBut(h, Put(h, x), Own)
<1>1. level \in {"L1", "L2"} /\ Shape(h)
  BY DEF NextContract
<1>2. level \in DOMAIN h /\ level # "memory" /\ level # "cycle" /\ level # "enable_l2"
  BY <1>1 DEF Shape
<1>3. nextInv(Put(h, x)) /\ \A a \in Addr : nextMem(Put(h, x), a) = nextMem(h, a)
  BY DEF NextContract, SameBelow, Put
<1>4. /\ DOMAIN Put(h, x) = DOMAIN h /\ Put(h, x)[level] = x
      /\ \A k \in {"L1", "L2", "memory", "enable_l2", "cycle"} \ {level} : Put(h, x)[k] = h[k]
  BY <1>1, <1>2 DEF Shape, Put
<1>5. /\ size(Put(h, x)) = size(h) /\ Put(h, x).cycle = h.cycle
      /\ Put(h, x).enable_l2 = h.enable_l2
  BY <1>2, <1>4 DEF size
<1>6. Data(Put(h, x)) = Data(h)
  BY <1>5 DEF Data
<1>7. LineType(Put(h, x)) = LineType(h)
  BY <1>5, <1>6 DEF LineType
<1>8. x.config = h[level].config => SameBut(h, Put(h, x), Own)
  BY <1>1, <1>4, <1>5 DEF SameBut, Own
<1>9. Shape(Put(h, x))
  BY <1>1, <1>4, <1>5 DEF Shape
<1> QED
  BY <1>3, <1>4, <1>5, <1>6, <1>7, <1>8, <1>9

\* A step from h to g that leaves the data as it is.
Stays(h, g) ==
  /\ LevelInv(g) /\ SameGeometry(h, g) /\ SameBut(h, g, Own)
  /\ \A a \in Addr : ways_with(g, a) = ways_with(h, a) /\ levelMem(g, a) = levelMem(h, a)

\* Counters, the times and the ages of lines do not matter to the data.
LEMMA PutStays ==
    ASSUME NextContract, NEW h, LevelInv(h), NEW x,
           DOMAIN x = Fields, x.last_stride \in Int,
           \A f \in {"config", "num_sets", "offset_bits", "index_bits"} : x[f] = h[level][f],
           {x.hits, x.misses, x.write_backs, x.prefetch_issued,
            x.insertion_counter, x.last_block} \subseteq Nat,
           x.sets \in [Sets(h) -> [Ways(h) -> LineType(h)]],
           \A i \in Sets(h) : \A w \in Ways(h) : SameLine(x.sets[i][w], line(h, i, w))
    PROVE  Stays(h, Put(h, x))
<1> DEFINE g == Put(h, x)
<1>1. /\ g[level] = x /\ Shape(g) /\ nextInv(g) /\ size(g) = size(h)
      /\ LineType(g) = LineType(h)
      /\ \A a \in Addr : nextMem(g, a) = nextMem(h, a)
      /\ SameBut(h, g, Own)
  BY PutSame DEF LevelInv
<1> HIDE DEF g
<1>2. SameGeometry(h, g)
  BY <1>1 DEF SameGeometry
<1>3. Sets(g) = Sets(h) /\ Ways(g) = Ways(h)
  BY <1>2, GeometrySame
<1>4. x.config \in Config /\ x.config.block = size(g) /\ x.num_sets \in Nat
  BY <1>1 DEF LevelInv, LevelType
<1>5. x.sets \in [Sets(g) -> [Ways(g) -> LineType(g)]]
  BY <1>1, <1>3
<1>6. LevelType(g)
  BY <1>1, <1>4, <1>5 DEF LevelType
<1>7. \A i \in Sets(h) : \A w \in Ways(h) : SameLine(line(g, i, w), line(h, i, w))
  BY <1>1 DEF line
<1>8. SameBut(h, g, Own)
  BY <1>1 DEF SameBut, Own
<1> QED
  BY <1>1, <1>2, <1>6, <1>7, <1>8, LinesStay DEF g, Stays

LEMMA StaysTwice ==
    ASSUME NEW h, NEW f, NEW g, Stays(h, f), Stays(f, g)
    PROVE  Stays(h, g)
<1>1. SameGeometry(h, g)
  BY DEF Stays, SameGeometry
<1>2. SameBut(h, g, Own)
  BY DEF Stays, SameBut
<1> QED
  BY <1>1, <1>2 DEF Stays

\* The counters of a level.
LEMMA CounterStays ==
    ASSUME NextContract, NEW h, LevelInv(h),
           NEW f \in {"hits", "misses", "write_backs", "prefetch_issued",
                      "insertion_counter", "last_block"},
           NEW n \in Nat
    PROVE  LET g == [h EXCEPT ![level][f] = n]
           IN  /\ Stays(h, g) /\ g[level].sets = h[level].sets
               /\ \A a \in Addr : nextMem(g, a) = nextMem(h, a)
<1> DEFINE lev == h[level]
           x == [lev EXCEPT ![f] = n]
<1>1. [h EXCEPT ![level][f] = n] = Put(h, x)
  BY DEF Put
<1>2. nextInv(h) /\ LevelType(h)
  BY DEF LevelInv
<1>3. /\ DOMAIN lev = Fields /\ lev.last_stride \in Int
      /\ {lev.hits, lev.misses, lev.write_backs, lev.prefetch_issued,
          lev.insertion_counter, lev.last_block} \subseteq Nat
      /\ lev.sets \in [Sets(h) -> [Ways(h) -> LineType(h)]]
  BY <1>2 DEF LevelType
<1> HIDE DEF lev
<1>4. DOMAIN x = Fields /\ x[f] = n /\ \A e \in Fields \ {f} : x[e] = lev[e]
  BY <1>3 DEF Fields
<1> HIDE DEF x
<1>5. /\ x.last_stride = lev.last_stride /\ x.sets = lev.sets
      /\ x.config = lev.config /\ x.num_sets = lev.num_sets
      /\ x.offset_bits = lev.offset_bits /\ x.index_bits = lev.index_bits
  BY <1>4 DEF Fields
<1>6. {x.hits, x.misses, x.write_backs, x.prefetch_issued,
       x.insertion_counter, x.last_block} \subseteq Nat
  <2>1. \A e \in {"hits", "misses", "write_backs", "prefetch_issued",
                  "insertion_counter", "last_block"} : x[e] \in Nat
    BY <1>3, <1>4 DEF Fields
  <2> QED
    BY <2>1
<1>7. \A i \in Sets(h) : \A w \in Ways(h) : SameLine(x.sets[i][w], line(h, i, w))
  BY <1>5 DEF SameLine, line, lev
<1>8. Stays(h, Put(h, x))
  BY <1>3, <1>4, <1>5, <1>6, <1>7, PutStays DEF lev
<1>9. Put(h, x)[level] = x /\ \A a \in Addr : nextMem(Put(h, x), a) = nextMem(h, a)
  BY <1>2, PutSame
<1> QED
  BY <1>1, <1>5, <1>8, <1>9 DEF lev

\* What the prefetcher remembers.
LEMMA UpdateStays ==
    ASSUME NextContract, NEW h, LevelInv(h), NEW a \in Addr
    PROVE  /\ Stays(h, prefetcherUpdate(h, a))
           /\ prefetcherUpdate(h, a)[level].sets = h[level].sets
<1> DEFINE lev == h[level]
           block == a \div lev.config.block
           strided == lev.config.prefetcher \in {"Stride", "Custom"}
           n == Len(calculatePrefetch(h, a))
           x == [lev EXCEPT !.prefetch_issued = @ + n,
                            !.last_block = IF strided THEN block ELSE @,
                            !.last_stride = IF strided THEN block - lev.last_block ELSE @]
<1>1. nextInv(h) /\ LevelType(h) /\ level \in DOMAIN h
  BY DEF LevelInv, NextContract, Shape
<1>2. /\ DOMAIN lev = Fields /\ lev.last_stride \in Int
      /\ {lev.hits, lev.misses, lev.write_backs, lev.prefetch_issued,
          lev.insertion_counter, lev.last_block} \subseteq Nat
      /\ lev.sets \in [Sets(h) -> [Ways(h) -> LineType(h)]]
      /\ lev.config.block \in Nat \ {0}
  BY <1>1 DEF LevelType, Config
<1>3. prefetcherUpdate(h, a) = Put(h, x)
  BY <1>1, <1>2 DEF prefetcherUpdate, Put, Fields
<1>4. n \in Nat
  BY <1>2 DEF calculatePrefetch
<1>5. block \in Nat
  BY <1>2 DEF Addr
<1> HIDE DEF n, block, strided
<1>6. /\ DOMAIN x = Fields /\ x.config = lev.config /\ x.num_sets = lev.num_sets
      /\ x.offset_bits = lev.offset_bits /\ x.index_bits = lev.index_bits
      /\ x.sets = lev.sets /\ x.last_stride \in Int
      /\ x.hits = lev.hits /\ x.misses = lev.misses /\ x.write_backs = lev.write_backs
      /\ x.prefetch_issued \in Nat /\ x.last_block \in Nat
      /\ x.insertion_counter = lev.insertion_counter
  BY <1>2, <1>4, <1>5 DEF Fields
<1> HIDE DEF x
<1>7. \A i \in Sets(h) : \A w \in Ways(h) : SameLine(x.sets[i][w], line(h, i, w))
  BY <1>6 DEF SameLine, line
<1>8. {x.hits, x.misses, x.write_backs, x.prefetch_issued,
       x.insertion_counter, x.last_block} \subseteq Nat
  BY <1>2, <1>6
<1>9. Stays(h, Put(h, x))
  BY <1>2, <1>6, <1>7, <1>8, PutStays
<1>10. Put(h, x)[level] = x
  BY <1>1, PutSame
<1> QED
  BY <1>3, <1>6, <1>9, <1>10

\* The addresses to prefetch are addresses: none, one, or the same one twice.
LEMMA PrefetchAddresses ==
    ASSUME NextContract, NEW h, LevelInv(h), NEW a \in Addr
    PROVE  \/ calculatePrefetch(h, a) = <<>>
           \/ \E b \in Addr : calculatePrefetch(h, a) = <<b>>
           \/ \E b \in Addr : calculatePrefetch(h, a) = <<b, b>>
<1> DEFINE lev == h[level]
           block == a \div lev.config.block
           stride == block - lev.last_block
           ahead == ((block + stride) * lev.config.block) % AddrSpace
           next == ((block + 1) * lev.config.block) % AddrSpace
<1>1. /\ lev.config.block \in Nat \ {0} /\ lev.last_block \in Nat
      /\ AddrSpace \in Nat \ {0}
  BY DEF LevelInv, LevelType, Config, NextContract
<1>2. block \in Nat
  BY <1>1 DEF Addr
<1> HIDE DEF block
<1>3. ahead \in Addr /\ next \in Addr
  <2>1. (block + stride) * lev.config.block \in Int /\ (block + 1) * lev.config.block \in Int
    BY <1>1, <1>2
  <2>2. \A n \in Int : n % AddrSpace \in 0 .. AddrSpace - 1
    BY <1>1
  <2> QED
    BY <2>1, <2>2 DEF Addr
<1> HIDE DEF ahead, next
<1>4. \/ calculatePrefetch(h, a) = <<>>
      \/ calculatePrefetch(h, a) = <<next>>
      \/ calculatePrefetch(h, a) = <<ahead>>
      \/ calculatePrefetch(h, a) = <<ahead>> \o <<ahead>>
      \/ calculatePrefetch(h, a) = <<>> \o <<ahead>>
      \/ calculatePrefetch(h, a) = <<ahead>> \o <<>>
      \/ calculatePrefetch(h, a) = <<>> \o <<>>
  BY DEF calculatePrefetch, ahead, next, block
<1> QED
  BY <1>3, <1>4

-----------------------------------------------------------------------------
(***************************************************************************)
(* Replacement.                                                            *)
(***************************************************************************)
LEMMA MarkedLine ==
    ASSUME NEW h, Shape(h), NEW g, g.cycle = h.cycle, NEW l \in LineType(h)
    PROVE  /\ onHit(g, l) \in LineType(h) /\ SameLine(onHit(g, l), l)
           /\ onMiss(g, l) \in LineType(h) /\ SameLine(onMiss(g, l), l)
<1>1. h.cycle \in Nat
  BY DEF Shape
<1> DEFINE D == Data(h)
<1>2. LineType(h) = [tag : Nat, valid : BOOLEAN, dirty : BOOLEAN, last_access : 0 .. h.cycle,
                     rrpv : 0 .. 3, is_prefetched : BOOLEAN, data : D]
  BY DEF LineType
<1> HIDE DEF D
<1>3. ASSUME NEW n \in 0 .. 3
      PROVE  [l EXCEPT !.rrpv = n] \in LineType(h) /\ SameLine([l EXCEPT !.rrpv = n], l)
  BY <1>2 DEF SameLine
<1>4. ASSUME NEW n \in 0 .. h.cycle
      PROVE  /\ [l EXCEPT !.last_access = n] \in LineType(h)
             /\ SameLine([l EXCEPT !.last_access = n], l)
  BY <1>2 DEF SameLine
<1> QED
  BY <1>1, <1>3, <1>4 DEF onHit, onMiss

\* The search for a victim ends at a way of the set: under SRRIP at one of the
\* greatest rrpv, otherwise at one accessed last as long ago as any.
LEMMA VictimFound ==
    ASSUME NEW h, LevelInv(h), NextContract, NEW i \in Sets(h), NEW policy
    PROVE  LET set == h[level].sets[i]
               victim == getVictim(policy, set)
           IN  /\ victim \in Ways(h)
               /\ policy = "SRRIP" => \A w \in Ways(h) : set[w].rrpv <= set[victim].rrpv
               /\ policy # "SRRIP" =>
                    \A w \in Ways(h) : set[victim].last_access <= set[w].last_access
<1> DEFINE set == h[level].sets[i]
<1>1. /\ set \in [Ways(h) -> LineType(h)]
      /\ Ways(h) \subseteq Nat /\ 0 \in Ways(h)
      /\ h.cycle \in Nat
  BY DEF LevelInv, NextContract, Shape, LevelType, Ways, Config
<1> HIDE DEF set
<1>2. \A w \in Ways(h) : set[w].rrpv \in 0 .. 3 /\ set[w].last_access \in 0 .. h.cycle
  BY <1>1 DEF LineType
<1>3. DOMAIN set = Ways(h)
  BY <1>1
<1>4. CASE policy = "SRRIP"
  <2> DEFINE R == {w \in Ways(h) : \A v \in Ways(h) : set[v].rrpv <= set[w].rrpv}
  <2>1. R # {}
    <3> DEFINE S == {3 - set[w].rrpv : w \in Ways(h)}
    <3>1. S \in SUBSET Nat /\ S # {}
      BY <1>1, <1>2
    <3> HIDE DEF S
    <3>2. PICK n \in S : \A m \in S : n <= m
      BY <3>1, LeastMember
    <3>3. PICK w \in Ways(h) : n = 3 - set[w].rrpv
      BY DEF S
    <3>4. \A v \in Ways(h) : 3 - set[w].rrpv <= 3 - set[v].rrpv
      BY <3>2, <3>3 DEF S
    <3>5. \A v \in Ways(h) : set[v].rrpv <= set[w].rrpv
      BY <1>2, <3>4
    <3> QED
      BY <3>5
  <2>2. R \in SUBSET Nat
    BY <1>1
  <2>3. getVictim(policy, set) = first(R)
    BY <1>3, <1>4 DEF getVictim
  <2> HIDE DEF R
  <2>4. first(R) \in R
    BY <2>1, <2>2, FirstWay
  <2> QED
    BY <1>4, <2>3, <2>4 DEF R, set
<1>5. CASE policy # "SRRIP"
  <2> DEFINE R == {w \in Ways(h) : \A v \in Ways(h) : set[w].last_access <= set[v].last_access}
  <2>1. R # {}
    <3> DEFINE S == {set[w].last_access : w \in Ways(h)}
    <3>1. S \in SUBSET Nat /\ S # {}
      BY <1>1, <1>2
    <3> HIDE DEF S
    <3>2. PICK n \in S : \A m \in S : n <= m
      BY <3>1, LeastMember
    <3>3. PICK w \in Ways(h) : n = set[w].last_access
      BY DEF S
    <3> QED
      BY <3>2, <3>3 DEF S
  <2>2. R \in SUBSET Nat
    BY <1>1
  <2>3. getVictim(policy, set) = first(R)
    BY <1>3, <1>5 DEF getVictim
  <2> HIDE DEF R
  <2>4. first(R) \in R
    BY <2>1, <2>2, FirstWay
  <2> QED
    BY <1>5, <2>3, <2>4 DEF R, set
<1> QED
  BY <1>4, <1>5

\* Ageing a set keeps every rrpv within its two bits.
LEMMA AgedStays ==
    ASSUME NextContract, NEW h, LevelInv(h), NEW i \in Sets(h), NEW policy
    PROVE  LET set == h[level].sets[i]
               g == [h EXCEPT ![level].sets[i] = aged(policy, set)]
           IN  /\ Stays(h, g)
               /\ \A w \in Ways(h) : SameLine(line(g, i, w), set[w])
<1> DEFINE lev == h[level]
           set == lev.sets[i]
           x == [lev EXCEPT !.sets[i] = aged(policy, set)]
<1>1. nextInv(h) /\ LevelType(h) /\ level \in DOMAIN h /\ Shape(h)
  BY DEF LevelInv, NextContract, Shape
<1>2. /\ DOMAIN lev = Fields /\ lev.last_stride \in Int
      /\ {lev.hits, lev.misses, lev.write_backs, lev.prefetch_issued,
          lev.insertion_counter, lev.last_block} \subseteq Nat
      /\ lev.sets \in [Sets(h) -> [Ways(h) -> LineType(h)]]
  BY <1>1 DEF LevelType
<1>3. set \in [Ways(h) -> LineType(h)]
  BY <1>2
<1>4. /\ aged(policy, set) \in [Ways(h) -> LineType(h)]
      /\ \A w \in Ways(h) : SameLine(aged(policy, set)[w], set[w])
  <2>1. CASE policy = "SRRIP"
    <3> DEFINE age == 3 - set[getVictim(policy, set)].rrpv
    <3>1. /\ getVictim(policy, set) \in Ways(h)
          /\ \A w \in Ways(h) : set[w].rrpv <= set[getVictim(policy, set)].rrpv
      BY <2>1, VictimFound
    <3> HIDE DEF set
    <3>2. \A w \in Ways(h) : set[w] \in LineType(h) /\ set[w].rrpv \in 0 .. 3
      BY <1>3 DEF LineType
    <3>3. age \in 0 .. 3 /\ \A w \in Ways(h) : set[w].rrpv + age \in 0 .. 3
      BY <3>1, <3>2
    <3>4. aged(policy, set) = [w \in Ways(h) |-> [set[w] EXCEPT !.rrpv = @ + age]]
      BY <1>3, <2>1 DEF aged
    <3> HIDE DEF age
    <3>5. ASSUME NEW w \in Ways(h)
          PROVE  LET l == [set[w] EXCEPT !.rrpv = @ + age]
                 IN  l \in LineType(h) /\ SameLine(l, set[w])
      <4>1. set[w].rrpv + age \in 0 .. 3 /\ set[w] \in LineType(h)
        BY <3>2, <3>3
      <4> QED
        BY <4>1 DEF LineType, SameLine
    <3> QED
      BY <3>4, <3>5
  <2>2. CASE policy # "SRRIP"
    BY <1>3, <2>2 DEF aged, SameLine
  <2> QED
    BY <2>1, <2>2
<1>5. [h EXCEPT ![level].sets[i] = aged(policy, set)] = Put(h, x)
  BY DEF Put
<1> HIDE DEF lev
<1> DEFINE A == aged(policy, set)
<1>6. A \in [Ways(h) -> LineType(h)] /\ \A w \in Ways(h) : SameLine(A[w], set[w])
  BY <1>4
<1> HIDE DEF A
<1>7. /\ DOMAIN x = Fields /\ x.config = lev.config /\ x.num_sets = lev.num_sets
      /\ x.offset_bits = lev.offset_bits /\ x.index_bits = lev.index_bits
      /\ x.last_stride = lev.last_stride
      /\ x.hits = lev.hits /\ x.misses = lev.misses /\ x.write_backs = lev.write_backs
      /\ x.prefetch_issued = lev.prefetch_issued /\ x.last_block = lev.last_block
      /\ x.insertion_counter = lev.insertion_counter
      /\ x.sets = [lev.sets EXCEPT ![i] = A]
  BY <1>2 DEF Fields, A
<1> HIDE DEF x
<1>8. x.sets \in [Sets(h) -> [Ways(h) -> LineType(h)]]
  BY <1>2, <1>6, <1>7
<1>9. \A j \in Sets(h) : \A w \in Ways(h) : SameLine(x.sets[j][w], lev.sets[j][w])
  BY <1>2, <1>6, <1>7 DEF SameLine
<1>10. {x.hits, x.misses, x.write_backs, x.prefetch_issued,
        x.insertion_counter, x.last_block} \subseteq Nat
  BY <1>2, <1>7
<1>11. Stays(h, Put(h, x))
  BY <1>2, <1>7, <1>8, <1>9, <1>10, PutStays DEF line, lev
<1>12. Put(h, x)[level] = x
  BY <1>1, PutSame
<1> QED
  BY <1>5, <1>9, <1>11, <1>12 DEF line, lev

-----------------------------------------------------------------------------
(***************************************************************************)
(* Calls of the next level.                                                *)
(***************************************************************************)
LEMMA NextCall ==
    ASSUME NextContract, NEW h, nextInv(h), LevelType(h), NEW a \in Addr,
           NEW type, NEW patch, Request(h, type, patch)
    PROVE  LET done == next_access(h, a, type, patch)
           IN  /\ nextInv(done.h) /\ LevelType(done.h) /\ SameGeometry(h, done.h)
               /\ done.h[level] = h[level] /\ done.h.cycle = h.cycle
               /\ SameBut(h, done.h, Own)
               /\ done.data = patched(nextMem(h, a), patch) /\ done.data \in Data(h)
               /\ done.lat \in Nat
               /\ \A b \in Addr : nextMem(done.h, b) =
                    IF sameBlock(h, a, b) THEN patched(nextMem(h, a), patch) ELSE nextMem(h, b)
<1> DEFINE done == next_access(h, a, type, patch)
           g == done.h
<1>1. /\ nextInv(g) /\ SameBut(h, g, Below)
      /\ done.data = patched(nextMem(h, a), patch) /\ done.lat \in Nat
      /\ \A b \in Addr : nextMem(g, b) =
           IF sameBlock(h, a, b) THEN patched(nextMem(h, a), patch) ELSE nextMem(h, b)
  BY DEF NextContract, NextAnswers
<1>2. level \in {"L1", "L2"} /\ Shape(h) /\ nextMem(h, a) \in Data(h)
  BY DEF NextContract
<1>3. done.data \in Data(h)
  BY <1>1, <1>2, PatchedType
<1> HIDE DEF g
<1>4. g[level] = h[level] /\ g.cycle = h.cycle /\ size(g) = size(h)
  BY <1>1, <1>2 DEF SameBut, Own, Below
<1>5. Sets(g) = Sets(h) /\ Ways(g) = Ways(h) /\ LineType(g) = LineType(h)
  BY <1>4 DEF Sets, Ways, LineType, Data
<1>6. LevelType(g)
  BY <1>4, <1>5 DEF LevelType
<1>7. SameGeometry(h, g)
  BY <1>4 DEF SameGeometry
<1>8. SameBut(h, g, Own)
  BY <1>1 DEF SameBut, Own, Below, Own
<1> QED
  BY <1>1, <1>3, <1>4, <1>6, <1>7, <1>8 DEF g

\* A victim that is dirty is written back: then every line of the set may go.
LEMMA VictimWrittenBack ==
    ASSUME NextContract, NEW h, LevelInv(h), NEW i \in Sets(h), NEW way \in Ways(h),
           NEW l, SameLine(l, line(h, i, way))
    PROVE  LET g == write_back_victim(h, l, i)
           IN  /\ Stays(h, g) /\ g[level].sets = h[level].sets
               /\ Expendable(g, i, way)
<1>1. /\ l.dirty = line(h, i, way).dirty /\ l.tag = line(h, i, way).tag
      /\ l.data = line(h, i, way).data /\ l.valid = line(h, i, way).valid
  BY DEF SameLine
<1>2. nextInv(h) /\ LevelType(h) /\ Consistent(h) /\ level \in {"L1", "L2"} /\ Shape(h)
  BY DEF LevelInv, NextContract
<1>3. CASE ~l.dirty
  <2>1. write_back_victim(h, l, i) = h
    BY <1>3 DEF write_back_victim
  <2>2. SameGeometry(h, h)
    BY DEF SameGeometry
  <2>3. SameBut(h, h, Own)
    BY DEF SameBut
  <2>4. Stays(h, h)
    BY <2>2, <2>3 DEF Stays
  <2>5. Expendable(h, i, way)
    BY <1>1, <1>2, <1>3 DEF Expendable, Consistent
  <2> QED
    BY <2>1, <2>4, <2>5
<1>4. CASE l.dirty
  <2> DEFINE n == h[level].write_backs + 1
             f == [h EXCEPT ![level]["write_backs"] = n]
             at == reconstruct_addr(h, l.tag, i)
             g == next_access(f, at, "w", l.data).h
  <2>1. write_back_victim(h, l, i) = g
    BY <1>4 DEF write_back_victim
  <2>2. n \in Nat
    BY <1>2 DEF LevelType
  <2> HIDE DEF n
  <2>3. Stays(h, f) /\ f[level].sets = h[level].sets
    BY <2>2, CounterStays
  <2> HIDE DEF f
  <2>5. PICK a \in Addr : Holds(h, i, way, a)
    BY <1>1, <1>2, <1>4 DEF Consistent
  <2>6. i = get_index(h, a) /\ l.tag = get_tag(h, a)
    BY <1>1, <2>5 DEF Holds
  <2>7. at \in Addr /\ sameBlock(h, a, at)
    BY <1>2, <2>6 DEF Consistent, Geometry
  <2> HIDE DEF at
  <2>8. SameGeometry(h, f) /\ LevelInv(f) /\ nextInv(f) /\ LevelType(f)
    BY <2>3 DEF Stays, LevelInv
  <2>9. /\ Sets(f) = Sets(h) /\ Ways(f) = Ways(h)
        /\ \A b, c : sameBlock(f, b, c) <=> sameBlock(h, b, c)
        /\ \A b : get_index(f, b) = get_index(h, b) /\ get_tag(f, b) = get_tag(h, b)
        /\ \A j, w : line(f, j, w) = line(h, j, w)
    BY <2>3, <2>8, GeometrySame DEF line
  <2>10. l.data \in Data(f)
    <3>1. line(f, i, way) \in LineType(f)
      BY <2>8, <2>9 DEF LevelType, line
    <3> QED
      BY <1>1, <2>9, <3>1 DEF LineType
  <2>11. Request(f, "w", l.data)
    BY <2>10 DEF Request, Data
  <2>12. /\ nextInv(g) /\ LevelType(g) /\ SameGeometry(f, g)
         /\ g[level] = f[level] /\ SameBut(f, g, Own)
         /\ \A b \in Addr : nextMem(g, b) =
              IF sameBlock(f, at, b) THEN patched(nextMem(f, at), l.data) ELSE nextMem(f, b)
    BY <2>7, <2>8, <2>11, NextCall
  <2>13. nextMem(f, at) \in Data(f) /\ Shape(f)
    BY <2>7, <2>8 DEF NextContract
  <2>14. patched(nextMem(f, at), l.data) = l.data
    BY <2>10, <2>11, <2>13, PatchedType
  <2> HIDE DEF g
  <2>15. \A b \in Addr : sameBlock(f, at, b) <=> Holds(h, i, way, b)
    <3>1. \A b \in Addr : sameBlock(h, at, b) <=> sameBlock(h, a, b)
      BY <2>7 DEF sameBlock
    <3>2. \A b \in Addr : sameBlock(h, a, b) <=> i = get_index(h, b) /\ l.tag = get_tag(h, b)
      BY <1>2, <2>6 DEF Consistent, Geometry
    <3> QED
      BY <1>1, <2>5, <2>9, <3>1, <3>2 DEF Holds
  <2>16. \A b \in Addr : nextMem(g, b) = IF Holds(h, i, way, b) THEN l.data ELSE nextMem(f, b)
    BY <2>12, <2>14, <2>15
  <2>17. \A j \in Sets(f) : \A w \in Ways(f) : SameLine(line(g, j, w), line(f, j, w))
    BY <2>12 DEF line, SameLine
  <2>18. \A b \in Addr :
           \/ nextMem(g, b) = nextMem(f, b)
           \/ \E j \in Sets(f) : \E w \in Ways(f) : Holds(f, j, w, b) /\ line(f, j, w).dirty
    <3>1. \A b \in Addr : Holds(h, i, way, b) => Holds(f, i, way, b) /\ line(f, i, way).dirty
      BY <1>1, <1>4, <2>9 DEF Holds
    <3> QED
      BY <2>9, <2>16, <3>1
  <2>19. Stays(f, g)
    BY <2>8, <2>12, <2>17, <2>18, LinesStay DEF Stays
  <2>20. Stays(h, g)
    BY <2>3, <2>19, StaysTwice
  <2>21. Expendable(g, i, way)
    <3>1. /\ \A b : get_index(g, b) = get_index(f, b) /\ get_tag(g, b) = get_tag(f, b)
          /\ line(g, i, way) = line(f, i, way)
      BY <2>12, GeometrySame DEF line
    <3>2. \A b \in Addr : Holds(g, i, way, b) => Holds(h, i, way, b)
      BY <2>9, <3>1 DEF Holds
    <3> QED
      BY <1>1, <2>9, <2>16, <3>1, <3>2 DEF Expendable
  <2> QED
    BY <2>1, <2>3, <2>12, <2>20, <2>21
<1> QED
  BY <1>3, <1>4

-----------------------------------------------------------------------------
(***************************************************************************)
(* Accesses.                                                               *)
(***************************************************************************)

\* One line is replaced.
LEMMA LineReplaced ==
    ASSUME NextContract, NEW h, LevelInv(h), NEW i \in Sets(h), NEW way \in Ways(h),
           NEW l \in LineType(h)
    PROVE  LET g == [h EXCEPT ![level].sets[i][way] = l]
           IN  /\ nextInv(g) /\ LevelType(g) /\ SameGeometry(h, g) /\ SameBut(h, g, Own)
               /\ line(g, i, way) = l
               /\ \A j \in Sets(h) : \A w \in Ways(h) :
                    j # i \/ w # way => SameLine(line(g, j, w), line(h, j, w))
               /\ \A a \in Addr : nextMem(g, a) = nextMem(h, a)
<1> DEFINE lev == h[level]
           x == [lev EXCEPT !.sets[i][way] = l]
           g == Put(h, x)
<1>1. nextInv(h) /\ LevelType(h)
  BY DEF LevelInv
<1>2. /\ DOMAIN lev = Fields
      /\ lev.sets \in [Sets(h) -> [Ways(h) -> LineType(h)]]
  BY <1>1 DEF LevelType
<1>3. [h EXCEPT ![level].sets[i][way] = l] = g
  BY DEF Put
<1> HIDE DEF lev
<1>4. /\ DOMAIN x = Fields /\ x.config = lev.config /\ x.num_sets = lev.num_sets
      /\ x.offset_bits = lev.offset_bits /\ x.index_bits = lev.index_bits
      /\ x.last_stride = lev.last_stride
      /\ x.hits = lev.hits /\ x.misses = lev.misses /\ x.write_backs = lev.write_backs
      /\ x.prefetch_issued = lev.prefetch_issued /\ x.last_block = lev.last_block
      /\ x.insertion_counter = lev.insertion_counter
      /\ x.sets = [lev.sets EXCEPT ![i][way] = l]
  BY <1>2 DEF Fields
<1> HIDE DEF x
<1>5. /\ x.sets \in [Sets(h) -> [Ways(h) -> LineType(h)]]
      /\ x.sets[i][way] = l
      /\ \A j \in Sets(h) : \A w \in Ways(h) : j # i \/ w # way => x.sets[j][w] = lev.sets[j][w]
  BY <1>2, <1>4
<1>6. /\ g[level] = x /\ Shape(g) /\ nextInv(g) /\ size(g) = size(h)
      /\ LineType(g) = LineType(h)
      /\ \A a \in Addr : nextMem(g, a) = nextMem(h, a)
      /\ SameBut(h, g, Own)
  <2>1. x.config = h[level].config
    BY <1>4 DEF lev
  <2> QED
    BY <1>1, <2>1, PutSame
<1> HIDE DEF g
<1>7. SameGeometry(h, g)
  BY <1>4, <1>6 DEF SameGeometry, lev
<1>8. Sets(g) = Sets(h) /\ Ways(g) = Ways(h)
  BY <1>7, GeometrySame
<1>9. LevelType(g)
  <2>1. g[level].sets \in [Sets(g) -> [Ways(g) -> LineType(g)]]
    BY <1>5, <1>6, <1>8
  <2>2. {x.hits, x.misses, x.write_backs, x.prefetch_issued,
         x.insertion_counter, x.last_block} \subseteq Nat
    BY <1>1, <1>4 DEF LevelType, lev
  <2>3. /\ x.last_stride \in Int /\ x.config \in Config /\ x.config.block = size(g)
        /\ x.num_sets \in Nat
    BY <1>1, <1>4, <1>6 DEF LevelType, lev
  <2> QED
    BY <1>4, <1>6, <2>1, <2>2, <2>3 DEF LevelType
<1>10. /\ line(g, i, way) = l
       /\ \A j \in Sets(h) : \A w \in Ways(h) :
            j # i \/ w # way => SameLine(line(g, j, w), line(h, j, w))
  BY <1>5, <1>6 DEF line, SameLine, lev
<1> QED
  BY <1>3, <1>6, <1>7, <1>9, <1>10

LEMMA LevelMemType ==
    ASSUME NextContract, NEW h, LevelInv(h)
    PROVE  /\ \A a \in Addr : levelMem(h, a) \in Data(h)
           /\ \A a, b \in Addr : sameBlock(h, a, b) => levelMem(h, a) = levelMem(h, b)
<1>1. nextInv(h) /\ LevelType(h) /\ Consistent(h)
  BY DEF LevelInv
<1>2. ASSUME NEW a \in Addr PROVE levelMem(h, a) \in Data(h)
  <2>1. CASE ways_with(h, a) = {}
    BY <1>1, <2>1 DEF levelMem, NextContract
  <2>2. CASE ways_with(h, a) # {}
    <3>1. PICK w \in Ways(h) : last(ways_with(h, a)) = w /\ get_index(h, a) \in Sets(h)
      BY <1>1, <2>2, WaysWith
    <3>2. line(h, get_index(h, a), w) \in LineType(h)
      BY <1>1, <3>1 DEF LevelType, line
    <3> QED
      BY <2>2, <3>1, <3>2 DEF levelMem, LineType
  <2> QED
    BY <2>1, <2>2
<1>3. ASSUME NEW a \in Addr, NEW b \in Addr, sameBlock(h, a, b)
      PROVE  levelMem(h, a) = levelMem(h, b)
  <2>1. get_index(h, a) = get_index(h, b) /\ get_tag(h, a) = get_tag(h, b)
    BY <1>1, <1>3 DEF Consistent, Geometry
  <2>2. ways_with(h, a) = ways_with(h, b)
    BY <2>1 DEF ways_with
  <2>3. nextMem(h, a) = nextMem(h, b)
    BY <1>1, <1>3 DEF NextContract
  <2> QED
    BY <2>1, <2>2, <2>3 DEF levelMem
<1> QED
  BY <1>2, <1>3

\* The answer to a request for the bytes at address a, and what it leaves.
Answers(h, done, a, patch) ==
  /\ LevelInv(done.h) /\ SameGeometry(h, done.h) /\ SameBut(h, done.h, Own)
  /\ done.data = patched(levelMem(h, a), patch) /\ done.data \in Data(h)
  /\ done.lat \in Nat
  /\ \A b \in Addr : levelMem(done.h, b) = IF sameBlock(h, a, b) THEN done.data
                                           ELSE levelMem(h, b)

\* A miss or a prefetch.
LEMMA Installs ==
    ASSUME NextContract, NEW h, LevelInv(h), NEW a \in Addr, NEW type, NEW patch,
           Request(h, type, patch), ways_with(h, a) = {}, NEW prefetched \in BOOLEAN
    PROVE  Answers(h, install(h, a, type, patch, prefetched), a, patch)
<1> DEFINE i == get_index(h, a)
           policy == h[level].config.policy
           set == h[level].sets[i]
           free == {w \in DOMAIN set : ~set[w].valid}
           way == IF free # {} THEN first(free) ELSE getVictim(policy, set)
           h1 == IF free # {} THEN h ELSE [h EXCEPT ![level].sets[i] = aged(policy, set)]
           h2 == write_back_victim(h1, set[way], i)
           fetched == next_access(h2, a, "r", <<>>)
           n == IF policy = "BIP" THEN fetched.h[level].insertion_counter + 1
                ELSE fetched.h[level].insertion_counter
           h3 == [fetched.h EXCEPT ![level]["insertion_counter"] = n]
           data == patched(fetched.data, patch)
           l == onMiss(h3, [h3[level].sets[i][way] EXCEPT
                              !.valid = TRUE, !.tag = get_tag(h, a), !.dirty = (type = "w"),
                              !.is_prefetched = prefetched, !.data = data])
           g == [h3 EXCEPT ![level].sets[i][way] = l]
<1>1. install(h, a, type, patch, prefetched) = [h |-> g, data |-> data, lat |-> fetched.lat]
  BY DEF install
<1>2. nextInv(h) /\ LevelType(h) /\ Consistent(h) /\ Shape(h)
  BY DEF LevelInv, NextContract
<1>3. i \in Sets(h) /\ get_tag(h, a) \in Nat
  BY <1>2 DEF Consistent, Geometry
<1>4. set \in [Ways(h) -> LineType(h)] /\ DOMAIN set = Ways(h) /\ Ways(h) \subseteq Nat
  BY <1>2, <1>3 DEF LevelType, Ways
<1> HIDE DEF i, policy
<1>5. way \in Ways(h)
  <2>1. CASE free # {}
    <3>1. free \in SUBSET Nat /\ free \subseteq Ways(h)
      BY <1>4
    <3> HIDE DEF free
    <3>2. first(free) \in free
      BY <2>1, <3>1, FirstWay
    <3> QED
      BY <2>1, <3>1, <3>2
  <2>2. CASE free = {}
    BY <1>3, <2>2, VictimFound
  <2> QED
    BY <2>1, <2>2
<1>6. Stays(h, h1) /\ SameLine(set[way], line(h1, i, way))
  <2>1. CASE free # {}
    <3>1. h1 = h
      BY <2>1
    <3>2. SameGeometry(h, h) /\ SameBut(h, h, Own)
      BY DEF SameGeometry, SameBut
    <3>3. SameLine(set[way], line(h, i, way))
      BY DEF SameLine, line
    <3> QED
      BY <3>1, <3>2, <3>3 DEF Stays
  <2>2. CASE free = {}
    <3>1. h1 = [h EXCEPT ![level].sets[i] = aged(policy, set)]
      BY <2>2
    <3> HIDE DEF h1, way
    <3>2. Stays(h, h1) /\ \A w \in Ways(h) : SameLine(line(h1, i, w), set[w])
      BY <1>3, <3>1, AgedStays
    <3>3. SameLine(line(h1, i, way), set[way])
      BY <1>5, <3>2
    <3> QED
      BY <3>2, <3>3 DEF SameLine
  <2> QED
    BY <2>1, <2>2
<1> HIDE DEF way, h1
<1>7. Sets(h1) = Sets(h) /\ Ways(h1) = Ways(h) /\ LevelInv(h1)
  BY <1>6, GeometrySame DEF Stays
<1> DEFINE old == set[way]
<1>8. SameLine(old, line(h1, i, way)) /\ h2 = write_back_victim(h1, old, i)
  BY <1>6
<1> HIDE DEF old, h2, set
<1>9. Stays(h1, h2) /\ h2[level].sets = h1[level].sets /\ Expendable(h2, i, way)
  BY <1>3, <1>5, <1>7, <1>8, VictimWrittenBack
<1>10. Stays(h, h2)
  BY <1>6, <1>9, StaysTwice
<1>11. /\ LevelInv(h2) /\ nextInv(h2) /\ LevelType(h2) /\ Shape(h2)
       /\ nextMem(h2, a) \in Data(h2)
       /\ \A b \in Addr : sameBlock(h2, a, b) => nextMem(h2, a) = nextMem(h2, b)
  BY <1>10 DEF Stays, LevelInv, NextContract
<1>12. Request(h2, "r", <<>>)
  BY DEF Request
<1>13. patched(nextMem(h2, a), <<>>) = nextMem(h2, a)
  BY <1>11, <1>12, PatchedType
<1>14. /\ nextInv(fetched.h) /\ LevelType(fetched.h) /\ SameGeometry(h2, fetched.h)
       /\ fetched.h[level] = h2[level] /\ SameBut(h2, fetched.h, Own)
       /\ fetched.data = nextMem(h2, a) /\ fetched.data \in Data(h2)
       /\ fetched.lat \in Nat
       /\ \A b \in Addr : nextMem(fetched.h, b) =
            IF sameBlock(h2, a, b) THEN nextMem(h2, a) ELSE nextMem(h2, b)
  BY <1>11, <1>12, <1>13, NextCall
<1> HIDE DEF fetched
<1>15. \A b \in Addr : nextMem(fetched.h, b) = nextMem(h2, b)
  BY <1>11, <1>14
<1>16. Stays(h2, fetched.h)
  <2>1. \A j \in Sets(h2) : \A w \in Ways(h2) : SameLine(line(fetched.h, j, w), line(h2, j, w))
    BY <1>14 DEF line, SameLine
  <2> QED
    BY <1>11, <1>14, <1>15, <2>1, LinesStay DEF Stays
<1>17. n \in Nat
  BY <1>14 DEF LevelType
<1> HIDE DEF n
<1>18. /\ Stays(fetched.h, h3) /\ h3[level].sets = fetched.h[level].sets
       /\ \A b \in Addr : nextMem(h3, b) = nextMem(fetched.h, b)
  BY <1>16, <1>17, CounterStays DEF Stays
<1> HIDE DEF h3
<1>19. Stays(h2, h3)
  BY <1>16, <1>18, StaysTwice
<1>20. Stays(h, h3)
  BY <1>10, <1>19, StaysTwice
<1>21. /\ LevelInv(h3) /\ nextInv(h3) /\ LevelType(h3) /\ Shape(h3)
       /\ SameGeometry(h, h3) /\ SameBut(h, h3, Own)
       /\ ways_with(h3, a) = {} /\ ways_with(h2, a) = {}
       /\ \A b \in Addr : levelMem(h3, b) = levelMem(h, b)
  BY <1>10, <1>20 DEF Stays, LevelInv, NextContract
<1>22. /\ h3.cycle = h.cycle /\ size(h3) = size(h) /\ LineType(h3) = LineType(h)
       /\ Data(h3) = Data(h)
       /\ Sets(h3) = Sets(h) /\ Ways(h3) = Ways(h)
       /\ get_index(h3, a) = i /\ get_tag(h3, a) = get_tag(h, a)
       /\ \A b : sameBlock(h3, a, b) <=> sameBlock(h, a, b)
  <2>1. h3.cycle = h.cycle /\ size(h3) = size(h)
    BY <1>2, <1>21 DEF SameBut, Own, NextContract
  <2>2. Data(h3) = Data(h) /\ LineType(h3) = LineType(h)
    BY <2>1 DEF Data, LineType
  <2>3. /\ Sets(h3) = Sets(h) /\ Ways(h3) = Ways(h)
        /\ get_index(h3, a) = i /\ get_tag(h3, a) = get_tag(h, a)
        /\ \A b : sameBlock(h3, a, b) <=> sameBlock(h, a, b)
    BY <1>21, GeometrySame DEF i
  <2> QED
    BY <2>1, <2>2, <2>3
<1>23. fetched.data = nextMem(h3, a) /\ nextMem(h3, a) = levelMem(h, a)
  <2>1. nextMem(h3, a) = levelMem(h3, a)
    BY <1>21 DEF levelMem
  <2> QED
    BY <1>14, <1>15, <1>18, <1>21, <2>1
<1>24. levelMem(h, a) \in Data(h)
  BY LevelMemType
<1>25. data \in Data(h) /\ data = patched(levelMem(h, a), patch)
  BY <1>2, <1>23, <1>24, PatchedType
<1>26. type = "r" => data = nextMem(h3, a)
  BY <1>2, <1>23, <1>24, PatchedType DEF Request
<1> HIDE DEF data
<1> DEFINE o == h3[level].sets[i][way]
           m == [o EXCEPT !.valid = TRUE, !.tag = get_tag(h, a), !.dirty = (type = "w"),
                          !.is_prefetched = prefetched, !.data = data]
<1>27. o \in LineType(h)
  BY <1>3, <1>5, <1>21, <1>22 DEF LevelType
<1> HIDE DEF o
<1>28. m \in LineType(h) /\ m.valid /\ m.tag = get_tag(h, a) /\ m.data = data
       /\ (m.dirty <=> type = "w")
  <2> DEFINE D == Data(h)
             C == h.cycle
             T == get_tag(h, a)
  <2>1. o \in [tag : Nat, valid : BOOLEAN, dirty : BOOLEAN, last_access : 0 .. C,
               rrpv : 0 .. 3, is_prefetched : BOOLEAN, data : D] /\ data \in D /\ T \in Nat
    BY <1>3, <1>25, <1>27 DEF LineType
  <2>2. LineType(h) = [tag : Nat, valid : BOOLEAN, dirty : BOOLEAN, last_access : 0 .. C,
               rrpv : 0 .. 3, is_prefetched : BOOLEAN, data : D]
    BY DEF LineType
  <2> HIDE DEF D, C, T
  <2>3. LET mm == [o EXCEPT !.valid = TRUE, !.tag = T, !.dirty = (type = "w"),
                          !.is_prefetched = prefetched, !.data = data]
        IN  /\ mm \in [tag : Nat, valid : BOOLEAN, dirty : BOOLEAN, last_access : 0 .. C,
                       rrpv : 0 .. 3, is_prefetched : BOOLEAN, data : D]
            /\ mm.valid /\ mm.tag = T /\ mm.data = data /\ (mm.dirty <=> type = "w")
    BY <2>1
  <2> QED
    BY <2>2, <2>3 DEF T
<1>29. l = onMiss(h3, m)
  BY DEF o
<1> HIDE DEF m, l
<1>30. l \in LineType(h) /\ l.valid /\ l.tag = get_tag(h, a) /\ l.data = data
       /\ (l.dirty <=> type = "w")
  BY <1>2, <1>22, <1>28, <1>29, MarkedLine DEF SameLine
<1>31. /\ nextInv(g) /\ LevelType(g) /\ SameGeometry(h3, g) /\ SameBut(h3, g, Own)
       /\ line(g, i, way) = l
       /\ \A j \in Sets(h3) : \A w \in Ways(h3) :
            j # i \/ w # way => SameLine(line(g, j, w), line(h3, j, w))
       /\ \A b \in Addr : nextMem(g, b) = nextMem(h3, b)
  <2>1. LevelInv(h3) /\ i \in Sets(h3) /\ way \in Ways(h3) /\ l \in LineType(h3)
    BY <1>3, <1>5, <1>21, <1>22, <1>30
  <2> QED
    BY ONLY NextContract, <2>1, LineReplaced
<1> HIDE DEF g
<1>32. Expendable(h3, i, way)
  <2>1. \A b : get_index(h3, b) = get_index(h2, b) /\ get_tag(h3, b) = get_tag(h2, b)
    BY <1>19, GeometrySame DEF Stays
  <2>2. line(h3, i, way) = line(h2, i, way)
    BY <1>14, <1>18 DEF line
  <2> QED
    BY <1>9, <1>15, <1>18, <2>1, <2>2 DEF Expendable, Holds
<1>33. /\ LevelInv(g)
       /\ \A b \in Addr : levelMem(g, b) =
            IF sameBlock(h3, a, b) THEN line(g, i, way).data ELSE levelMem(h3, b)
  <2>1. l.dirty \/ l.data = nextMem(h3, a)
    BY <1>26, <1>30 DEF Request
  <2> QED
    BY <1>5, <1>21, <1>22, <1>30, <1>31, <1>32, <2>1, LineTakes
<1>34. SameGeometry(h, g)
  BY <1>21, <1>31 DEF SameGeometry
<1>35. SameBut(h, g, Own)
  BY <1>21, <1>31 DEF SameBut
<1> QED
  BY <1>1, <1>14, <1>21, <1>22, <1>25, <1>30, <1>31, <1>33, <1>34, <1>35 DEF Answers

LEMMA Hits ==
    ASSUME NextContract, NEW h, LevelInv(h), NEW a \in Addr, NEW type, NEW patch,
           Request(h, type, patch), ways_with(h, a) # {}
    PROVE  Answers(h, hit(h, a, type, patch), a, patch)
<1> DEFINE i == get_index(h, a)
           way == last(ways_with(h, a))
           old == h[level].sets[i][way]
           data == patched(old.data, patch)
           m == [touched(old, type) EXCEPT !.data = data]
           l == onHit(h, m)
           n == h[level].hits + 1
           f == [h EXCEPT ![level]["hits"] = n]
           g == [f EXCEPT ![level].sets[i][way] = l]
<1>1. nextInv(h) /\ LevelType(h) /\ Consistent(h) /\ Shape(h) /\ level \in DOMAIN h
  BY DEF LevelInv, NextContract, Shape
<1>2. hit(h, a, type, patch) = [h |-> g, data |-> data, lat |-> 0]
  <2>1. DOMAIN h[level] = Fields
    BY <1>1 DEF LevelType
  <2>2. f[level].sets = h[level].sets
    BY <1>1, <2>1 DEF Fields
  <2>3. g = [h EXCEPT ![level].hits = @ + 1,
                      ![level].sets[i][way] = onHit(h, [touched(@, type) EXCEPT !.data = data])]
    BY <1>1, <2>1 DEF Fields
  <2> QED
    BY <2>3 DEF hit
<1>3. /\ i \in Sets(h) /\ way \in Ways(h) /\ ways_with(h, a) = {way}
      /\ Holds(h, i, way, a)
  BY <1>1, WaysWith
<1>4. old \in LineType(h) /\ old = line(h, i, way)
  BY <1>1, <1>3 DEF LevelType, line
<1>5. old.data = levelMem(h, a)
  BY <1>4 DEF levelMem
<1>6. old.tag = get_tag(h, a) /\ old.valid
  BY <1>3, <1>4 DEF Holds
<1>7. old.data \in Data(h) /\ data \in Data(h) /\ (type = "r" => data = old.data)
  <2>1. old.data \in Data(h)
    BY <1>4 DEF LineType
  <2> QED
    BY <1>1, <2>1, PatchedType DEF Request
<1>8. ~old.dirty => old.data = nextMem(h, a)
  BY <1>1, <1>3, <1>4 DEF Consistent
<1>9. n \in Nat
  BY <1>1 DEF LevelType
<1> HIDE DEF i, way, n
<1>10. /\ Stays(h, f) /\ f[level].sets = h[level].sets
       /\ \A b \in Addr : nextMem(f, b) = nextMem(h, b)
  BY <1>9, CounterStays
<1> HIDE DEF old, f
<1>11. /\ LevelInv(f) /\ SameGeometry(h, f) /\ SameBut(h, f, Own)
       /\ ways_with(f, a) = {way}
       /\ \A b \in Addr : levelMem(f, b) = levelMem(h, b)
  BY <1>3, <1>10 DEF Stays
<1>12. /\ Sets(f) = Sets(h) /\ Ways(f) = Ways(h)
       /\ get_index(f, a) = i /\ get_tag(f, a) = get_tag(h, a)
       /\ \A b : sameBlock(f, a, b) <=> sameBlock(h, a, b)
  BY <1>11, GeometrySame DEF i
<1>13. LineType(f) = LineType(h)
  <2>1. f.cycle = h.cycle /\ size(f) = size(h)
    BY <1>1, <1>11 DEF SameBut, Own, NextContract
  <2> QED
    BY <2>1 DEF LineType, Data
<1>14. /\ m \in LineType(h) /\ m.valid /\ m.tag = get_tag(h, a) /\ m.data = data
       /\ (m.dirty <=> old.dirty \/ type = "w")
  <2> DEFINE D == Data(h)
             C == h.cycle
  <2>1. old \in [tag : Nat, valid : BOOLEAN, dirty : BOOLEAN, last_access : 0 .. C,
                 rrpv : 0 .. 3, is_prefetched : BOOLEAN, data : D] /\ data \in D
    BY <1>4, <1>7 DEF LineType
  <2>2. LineType(h) = [tag : Nat, valid : BOOLEAN, dirty : BOOLEAN, last_access : 0 .. C,
                       rrpv : 0 .. 3, is_prefetched : BOOLEAN, data : D]
    BY DEF LineType
  <2> HIDE DEF D, C, data
  <2> DEFINE dd == old.dirty \/ type = "w"
  <2>3. dd \in BOOLEAN
    OBVIOUS
  <2> HIDE DEF dd
  <2>4. m = [old EXCEPT !.dirty = dd, !.is_prefetched = FALSE, !.data = data]
    BY <2>1 DEF touched, dd
  <2> HIDE DEF m
  <2>5. /\ m \in [tag : Nat, valid : BOOLEAN, dirty : BOOLEAN, last_access : 0 .. C,
                  rrpv : 0 .. 3, is_prefetched : BOOLEAN, data : D]
        /\ m.valid = old.valid /\ m.tag = old.tag /\ m.data = data /\ m.dirty = dd
    BY <2>1, <2>3, <2>4
  <2> QED
    BY <1>6, <2>2, <2>5 DEF dd
<1> HIDE DEF data, m
<1>15. /\ l \in LineType(h) /\ l.valid /\ l.tag = get_tag(h, a) /\ l.data = data
       /\ (l.dirty <=> old.dirty \/ type = "w")
  BY <1>1, <1>14, MarkedLine DEF SameLine
<1> HIDE DEF l
<1>16. /\ nextInv(g) /\ LevelType(g) /\ SameGeometry(f, g) /\ SameBut(f, g, Own)
       /\ line(g, i, way) = l
       /\ \A j \in Sets(f) : \A w \in Ways(f) :
            j # i \/ w # way => SameLine(line(g, j, w), line(f, j, w))
       /\ \A b \in Addr : nextMem(g, b) = nextMem(f, b)
  <2>1. LevelInv(f) /\ i \in Sets(f) /\ way \in Ways(f) /\ l \in LineType(f)
    BY <1>3, <1>11, <1>12, <1>13, <1>15
  <2> QED
    BY ONLY NextContract, <2>1, LineReplaced
<1> HIDE DEF g
<1>17. /\ LevelInv(g)
       /\ \A b \in Addr : levelMem(g, b) =
            IF sameBlock(f, a, b) THEN line(g, i, way).data ELSE levelMem(f, b)
  <2>1. l.dirty \/ l.data = nextMem(f, a)
    BY <1>7, <1>8, <1>10, <1>15 DEF Request
  <2> QED
    BY <1>3, <1>11, <1>12, <1>15, <1>16, <2>1, LineTakes
<1>18. SameGeometry(h, g)
  BY <1>11, <1>16 DEF SameGeometry
<1>19. SameBut(h, g, Own)
  BY <1>11, <1>16 DEF SameBut
<1>20. data = patched(levelMem(h, a), patch)
  BY <1>5 DEF data
<1> QED
  BY <1>2, <1>7, <1>11, <1>12, <1>15, <1>16, <1>17, <1>18, <1>19, <1>20 DEF Answers

-----------------------------------------------------------------------------
\* The data stays; a block may come and another go.
Keeps(h, g) ==
  /\ LevelInv(g) /\ SameGeometry(h, g) /\ SameBut(h, g, Own)
  /\ \A a \in Addr : levelMem(g, a) = levelMem(h, a)

LEMMA KeepsTwice ==
    ASSUME NEW h, NEW f, NEW g, Keeps(h, f), Keeps(f, g)
    PROVE  Keeps(h, g)
BY DEF Keeps, SameGeometry, SameBut

LEMMA PrefetchKeeps ==
    ASSUME NextContract, NEW h, LevelInv(h), NEW a \in Addr
    PROVE  Keeps(h, install_prefetch(h, a))
<1>1. CASE ways_with(h, a) # {}
  BY <1>1 DEF install_prefetch, Keeps, SameGeometry, SameBut
<1>2. CASE ways_with(h, a) = {}
  <2> DEFINE done == install(h, a, "r", <<>>, TRUE)
  <2>1. Request(h, "r", <<>>) /\ Shape(h)
    BY DEF Request, LevelInv, NextContract
  <2>2. Answers(h, done, a, <<>>)
    BY <1>2, <2>1, Installs
  <2>3. install_prefetch(h, a) = done.h
    BY <1>2 DEF install_prefetch
  <2> HIDE DEF done
  <2>4. /\ \A b \in Addr : levelMem(h, b) \in Data(h)
        /\ \A b \in Addr : sameBlock(h, a, b) => levelMem(h, a) = levelMem(h, b)
    BY LevelMemType
  <2>5. patched(levelMem(h, a), <<>>) = levelMem(h, a)
    BY <2>1, <2>4, PatchedType
  <2> QED
    BY <2>2, <2>3, <2>4, <2>5 DEF Answers, Keeps
<1> QED
  BY <1>1, <1>2

\* Prefetches are issued in order: what the fold over at most two is.
LEMMA FoldNone ==
    ASSUME NEW h
    PROVE  FoldLeft(install_prefetch, h, <<>>) = h
<1> DEFINE eq(f) == f = [s \in SUBSET DOMAIN << >> |->
                           IF s = {} THEN h
                           ELSE install_prefetch(f[s \ {Max(s)}], << >>[Max(s)])]
           it == [s \in SUBSET {} |-> h]
<1>1. eq(it)
  OBVIOUS
<1>2. \A f : eq(f) => f[DOMAIN << >>] = h
  OBVIOUS
<1>3. FoldLeft(install_prefetch, h, <<>>) = (CHOOSE f : eq(f))[DOMAIN << >>]
  BY DEF FoldLeft, MapThenFoldSet
<1> HIDE DEF eq, it
<1> QED
  BY <1>1, <1>2, <1>3

LEMMA FoldOne ==
    ASSUME NEW h, NEW q, DOMAIN q = {1}
    PROVE  FoldLeft(install_prefetch, h, q) = install_prefetch(h, q[1])
<1> DEFINE a == q[1]
           step(f, s) == IF s = {} THEN h ELSE install_prefetch(f[s \ {Max(s)}], q[Max(s)])
           eq(f) == f = [s \in SUBSET DOMAIN q |-> step(f, s)]
           it == [s \in SUBSET {1} |-> IF s = {} THEN h ELSE install_prefetch(h, a)]
<1>1. q[1] = a
  OBVIOUS
<1>2. Max({1}) = 1 /\ {1} \ {1} = {} /\ SUBSET {1} = {{}, {1}}
  BY DEF Max
<1>3. FoldLeft(install_prefetch, h, q) = (CHOOSE f : eq(f))[DOMAIN q]
  BY DEF FoldLeft, MapThenFoldSet
<1>4. \A f : eq(f) <=> f = [s \in SUBSET {1} |-> step(f, s)]
  OBVIOUS
<1> HIDE DEF eq, a
<1>5. eq(it)
  <2>1. it[{}] = h /\ it[{1}] = install_prefetch(h, a)
    BY <1>2
  <2>2. step(it, {}) = h /\ step(it, {1}) = install_prefetch(h, a)
    BY <1>1, <1>2, <2>1
  <2> HIDE DEF step
  <2>3. \A s \in SUBSET {1} : it[s] = step(it, s)
    BY <1>2, <2>1, <2>2
  <2>4. it = [s \in SUBSET {1} |-> step(it, s)]
    BY <2>3
  <2> QED
    BY <1>4, <2>4
<1>6. ASSUME NEW f, eq(f) PROVE f[{1}] = install_prefetch(h, a)
  <2>1. f[{}] = step(f, {}) /\ f[{1}] = step(f, {1})
    BY <1>2, <1>4, <1>6
  <2> QED
    BY <1>1, <1>2, <2>1
<1> HIDE DEF it
<1> QED
  BY <1>1, <1>3, <1>5, <1>6 DEF a

LEMMA FoldTwo ==
    ASSUME NEW h, NEW q, DOMAIN q = {1, 2}
    PROVE  FoldLeft(install_prefetch, h, q) = install_prefetch(install_prefetch(h, q[1]), q[2])
<1> DEFINE a == q[1]
           b == q[2]
           step(f, s) == IF s = {} THEN h ELSE install_prefetch(f[s \ {Max(s)}], q[Max(s)])
           eq(f) == f = [s \in SUBSET DOMAIN q |-> step(f, s)]
           both == install_prefetch(install_prefetch(h, a), b)
           it == [s \in SUBSET {1, 2} |->
                    IF s = {} THEN h
                    ELSE IF s = {1} THEN install_prefetch(h, a)
                    ELSE IF s = {2} THEN install_prefetch(h, b)
                    ELSE both]
<1>1. q[1] = a /\ q[2] = b
  OBVIOUS
<1>2. Max({1}) = 1 /\ Max({2}) = 2 /\ Max({1, 2}) = 2
  BY DEF Max
<1>3. /\ {1} \ {1} = {} /\ {2} \ {2} = {} /\ {1, 2} \ {2} = {1}
      /\ SUBSET {1, 2} = {{}, {1}, {2}, {1, 2}}
      /\ {1} # {} /\ {2} # {} /\ {1, 2} # {} /\ {1} # {2} /\ {1} # {1, 2} /\ {2} # {1, 2}
  OBVIOUS
<1>4. FoldLeft(install_prefetch, h, q) = (CHOOSE f : eq(f))[DOMAIN q]
  BY DEF FoldLeft, MapThenFoldSet
<1>5. \A f : eq(f) <=> f = [s \in SUBSET {1, 2} |-> step(f, s)]
  OBVIOUS
<1> HIDE DEF eq, both, a, b
<1>6. eq(it)
  <2>1. /\ it[{}] = h /\ it[{1}] = install_prefetch(h, a)
        /\ it[{2}] = install_prefetch(h, b) /\ it[{1, 2}] = both
    BY <1>3
  <2>2. step(it, {}) = h
    OBVIOUS
  <2>3. step(it, {1}) = install_prefetch(h, a)
    BY <1>1, <1>2, <1>3, <2>1
  <2>4. step(it, {2}) = install_prefetch(h, b)
    BY <1>1, <1>2, <1>3, <2>1
  <2>5. step(it, {1, 2}) = both
    BY <1>1, <1>2, <1>3, <2>1 DEF both
  <2> HIDE DEF step
  <2>6. \A s \in SUBSET {1, 2} : it[s] = step(it, s)
    BY <1>3, <2>1, <2>2, <2>3, <2>4, <2>5
  <2>7. it = [s \in SUBSET {1, 2} |-> step(it, s)]
    BY <2>6
  <2> QED
    BY <1>5, <2>7
<1>7. ASSUME NEW g, eq(g) PROVE g[{1, 2}] = both
  <2>1. /\ g[{}] = step(g, {}) /\ g[{1}] = step(g, {1}) /\ g[{1, 2}] = step(g, {1, 2})
    <3> HIDE DEF step
    <3>1. g = [s \in SUBSET {1, 2} |-> step(g, s)]
      BY <1>5, <1>7
    <3>2. \A s \in SUBSET {1, 2} : g[s] = step(g, s)
      BY <3>1
    <3> QED
      BY <1>3, <3>2
  <2>2. g[{}] = h
    BY <2>1
  <2>3. g[{1}] = install_prefetch(h, a)
    BY <1>1, <1>2, <1>3, <2>1, <2>2
  <2> QED
    BY <1>1, <1>2, <1>3, <2>1, <2>3 DEF both
<1> HIDE DEF it
<1> QED
  BY <1>1, <1>4, <1>6, <1>7 DEF a, b, both

LEMMA PrefetchesKeep ==
    ASSUME NextContract, NEW h, LevelInv(h), NEW q,
           \/ q = <<>>
           \/ \E b \in Addr : q = <<b>>
           \/ \E b, c \in Addr : q = <<b, c>>
    PROVE  Keeps(h, FoldLeft(install_prefetch, h, q))
<1>1. CASE q = <<>>
  BY <1>1, FoldNone DEF Keeps, SameGeometry, SameBut
<1>2. CASE \E b \in Addr : q = <<b>>
  <2>1. PICK b \in Addr : q = <<b>>
    BY <1>2
  <2>2. DOMAIN q = {1} /\ q[1] = b
    BY <2>1
  <2>3. FoldLeft(install_prefetch, h, q) = install_prefetch(h, b)
    BY <2>2, FoldOne
  <2> QED
    BY <2>3, PrefetchKeeps
<1>3. CASE \E b, c \in Addr : q = <<b, c>>
  <2>1. PICK b \in Addr, c \in Addr : q = <<b, c>>
    BY <1>3
  <2> DEFINE f == install_prefetch(h, b)
             g == install_prefetch(f, c)
  <2>2. FoldLeft(install_prefetch, h, q) = g
    <3>1. DOMAIN q = {1, 2} /\ q[1] = b /\ q[2] = c
      BY <2>1
    <3> QED
      BY <3>1, FoldTwo
  <2>3. Keeps(h, f)
    BY PrefetchKeeps
  <2> HIDE DEF f
  <2>4. Keeps(f, g)
    BY <2>3, PrefetchKeeps DEF Keeps
  <2> HIDE DEF g
  <2> QED
    BY <2>2, <2>3, <2>4, KeepsTwice
<1> QED
  BY <1>1, <1>2, <1>3

(* An access to the level answers as an access to the memory would: it returns
   the block with all writes to it, and leaves every other as it was. *)
LEMMA AccessAnswers ==
    ASSUME NextContract, NEW h, LevelInv(h), NEW a \in Addr, NEW type, NEW patch,
           Request(h, type, patch)
    PROVE  Answers(h, access(h, a, type, patch), a, patch)
<1> DEFINE n == h[level].misses + 1
           f == [h EXCEPT ![level]["misses"] = n]
           demand == IF ways_with(h, a) # {} THEN hit(h, a, type, patch)
                     ELSE install(f, a, type, patch, FALSE)
           q == calculatePrefetch(demand.h, a)
           u == prefetcherUpdate(demand.h, a)
           g == FoldLeft(install_prefetch, u, q)
           lat == h[level].config.latency + demand.lat
<1>1. access(h, a, type, patch) = [h |-> g, data |-> demand.data, lat |-> lat]
  BY DEF access
<1>2. Answers(h, demand, a, patch)
  <2>1. CASE ways_with(h, a) # {}
    BY <2>1, Hits
  <2>2. CASE ways_with(h, a) = {}
    <3> DEFINE d == install(f, a, type, patch, FALSE)
    <3>1. demand = d
      BY <2>2
    <3>2. n \in Nat
      BY DEF LevelInv, LevelType
    <3> HIDE DEF n
    <3>3. Stays(h, f)
      BY <3>2, CounterStays
    <3> HIDE DEF f
    <3>4. /\ LevelInv(f) /\ SameGeometry(h, f) /\ SameBut(h, f, Own) /\ ways_with(f, a) = {}
          /\ \A b \in Addr : levelMem(f, b) = levelMem(h, b)
      BY <2>2, <3>3 DEF Stays
    <3>5. f.cycle = h.cycle /\ size(f) = size(h)
      BY <3>4 DEF SameBut, Own, NextContract
    <3>6. Request(f, type, patch)
      BY <3>5 DEF Request
    <3>7. Answers(f, d, a, patch)
      BY <3>4, <3>6, Installs
    <3> HIDE DEF d
    <3>8. \A b : sameBlock(f, a, b) <=> sameBlock(h, a, b)
      BY <3>5 DEF sameBlock
    <3>9. Data(f) = Data(h)
      BY <3>5 DEF Data
    <3>10. SameGeometry(h, d.h)
      BY <3>4, <3>7 DEF Answers, SameGeometry
    <3>11. SameBut(h, d.h, Own)
      BY <3>4, <3>7 DEF Answers, SameBut
    <3> QED
      BY <3>1, <3>4, <3>7, <3>8, <3>9, <3>10, <3>11 DEF Answers
  <2> QED
    BY <2>1, <2>2
<1> HIDE DEF demand
<1>3. LevelInv(demand.h)
  BY <1>2 DEF Answers
<1>4. Stays(demand.h, u)
  BY <1>3, UpdateStays
<1>5. Keeps(u, g)
  <2>1. \/ q = <<>>
        \/ \E b \in Addr : q = <<b>>
        \/ \E b, c \in Addr : q = <<b, c>>
    BY <1>3, PrefetchAddresses
  <2>2. LevelInv(u)
    BY <1>4 DEF Stays
  <2> HIDE DEF q, u
  <2> QED
    BY <2>1, <2>2, PrefetchesKeep
<1>6. lat \in Nat
  <2>1. h[level].config.latency \in Nat
    BY DEF LevelInv, LevelType, Config
  <2> QED
    BY <1>2, <2>1 DEF Answers
<1> HIDE DEF g, u, q, lat
<1>7. Keeps(demand.h, g)
  <2>1. Keeps(demand.h, u)
    BY <1>4 DEF Stays, Keeps
  <2> QED
    BY <1>5, <2>1, KeepsTwice
<1>8. SameGeometry(h, g)
  BY <1>2, <1>7 DEF Answers, Keeps, SameGeometry
<1>9. SameBut(h, g, Own)
  BY <1>2, <1>7 DEF Answers, Keeps, SameBut
<1> QED
  BY <1>1, <1>2, <1>6, <1>7, <1>8, <1>9 DEF Answers, Keeps

\* Time passes.
LEMMA TimePasses ==
    ASSUME NextContract, NEW h, LevelInv(h), NEW n \in Nat, n >= h.cycle
    PROVE  LET g == [h EXCEPT !.cycle = n]
           IN  /\ LevelInv(g) /\ SameGeometry(h, g)
               /\ \A a \in Addr : levelMem(g, a) = levelMem(h, a)
<1> DEFINE g == [h EXCEPT !.cycle = n]
<1>1. nextInv(h) /\ LevelType(h) /\ Shape(h) /\ level \in {"L1", "L2"}
  BY DEF LevelInv, NextContract
<1>2. nextInv(g) /\ \A a \in Addr : nextMem(g, a) = nextMem(h, a)
  BY <1>1 DEF NextContract, SameBelow
<1>3. g[level] = h[level] /\ g.memory = h.memory /\ g.cycle = n
  BY <1>1 DEF Shape
<1> HIDE DEF g
<1>4. size(g) = size(h) /\ Sets(g) = Sets(h) /\ Ways(g) = Ways(h)
  BY <1>3 DEF size, Sets, Ways
<1>5. SameGeometry(h, g)
  BY <1>3, <1>4 DEF SameGeometry
<1>6. LineType(h) \subseteq LineType(g)
  <2>1. 0 .. h.cycle \subseteq 0 .. g.cycle
    BY <1>1, <1>3 DEF Shape
  <2>2. Data(h) \subseteq Data(g)
    BY <1>4, <2>1 DEF Data
  <2> QED
    BY <2>1, <2>2 DEF LineType
<1>7. LevelType(g)
  <2>1. h[level].sets \in [Sets(h) -> [Ways(h) -> LineType(h)]]
    BY <1>1 DEF LevelType
  <2>2. g[level].sets \in [Sets(g) -> [Ways(g) -> LineType(g)]]
    BY <1>3, <1>4, <1>6, <2>1
  <2> QED
    BY <1>1, <1>3, <1>4, <2>2 DEF LevelType
<1>8. \A i \in Sets(h) : \A w \in Ways(h) : SameLine(line(g, i, w), line(h, i, w))
  BY <1>3 DEF line, SameLine
<1> QED
  BY <1>2, <1>5, <1>7, <1>8, LinesStay DEF g

-----------------------------------------------------------------------------
(***************************************************************************)
(* The geometry, and a level as its constructor leaves it.                 *)
(***************************************************************************)
LEMMA Division ==
    ASSUME NEW n \in Nat, NEW d \in Nat \ {0}
    PROVE  /\ n \div d \in Nat /\ n % d \in 0 .. d - 1
           /\ n = d * (n \div d) + (n % d)
OBVIOUS

LEMMA Quotients ==
    ASSUME NEW d \in Nat \ {0}, NEW p \in Nat, NEW q \in Nat, p < q
    PROVE  d * q >= d * p + d
<1>1. q - p - 1 \in Nat /\ q = p + 1 + (q - p - 1)
  OBVIOUS
<1> DEFINE k == q - p - 1
<1>2. k \in Nat /\ q = p + 1 + k
  BY <1>1
<1> HIDE DEF k
<1>3. d * q = d * p + d + d * k
  BY <1>2
<1>4. d * k >= 0 /\ d * k \in Int /\ d * p \in Int
  BY <1>2
<1> QED
  BY <1>3, <1>4

LEMMA DivisionUnique ==
    ASSUME NEW n \in Nat, NEW d \in Nat \ {0}, NEW q \in Nat, NEW r \in 0 .. d - 1, n = d * q + r
    PROVE  n \div d = q /\ n % d = r
<1> DEFINE p == n \div d
           s == n % d
<1>1. p \in Nat /\ s \in 0 .. d - 1 /\ n = d * p + s
  BY Division
<1> HIDE DEF p, s
<1>2. d * p \in Nat /\ d * q \in Nat
  BY <1>1
<1>3. ~(p < q)
  BY <1>1, <1>2, Quotients
<1>4. ~(q < p)
  BY <1>1, <1>2, Quotients
<1>5. p = q
  BY <1>1, <1>3, <1>4
<1>6. s = r
  BY <1>1, <1>2, <1>5
<1> QED
  BY <1>5, <1>6 DEF p, s

\* Address a is made of block number q and offset r, and q of tag t and index i.
Divided(B, S, a, q, r, t, i) ==
  /\ B \in Nat \ {0} /\ S \in Nat \ {0} /\ a \in Nat
  /\ q \in Nat /\ r \in 0 .. B - 1 /\ a = B * q + r
  /\ t \in Nat /\ i \in 0 .. S - 1 /\ q = S * t + i

LEMMA AddressDivided ==
    ASSUME NEW B, NEW S, NEW a, NEW q, NEW r, NEW t, NEW i, Divided(B, S, a, q, r, t, i)
    PROVE  /\ a \div (B * S) = t /\ t * (B * S) + i * B = q * B
           /\ q * B \in 0 .. a /\ (q * B) \div B = q
<1> USE DEF Divided
<1>1. B * S \in Nat /\ B * S # 0
  OBVIOUS
<1>2. B * i \in Nat /\ B * i + r \in 0 .. B * S - 1
  <2>1. B * S >= B * i + B
    BY Quotients
  <2>2. B * i \in Nat
    OBVIOUS
  <2> QED
    BY <1>1, <2>1, <2>2
<1>3. B * q = (B * S) * t + B * i
  OBVIOUS
<1>4. a = (B * S) * t + (B * i + r)
  <2>1. (B * S) * t \in Int /\ B * i \in Int
    BY <1>1, <1>2
  <2> QED
    BY <1>3, <2>1
<1>5. a \div (B * S) = t
  BY <1>1, <1>2, <1>4, DivisionUnique
<1>6. t * (B * S) + i * B = q * B
  BY <1>3
<1>7. q * B \in 0 .. a
  <2>1. q * B = B * q /\ B * q \in Nat
    OBVIOUS
  <2> QED
    BY <2>1
<1>8. (q * B) \div B = q
  <2>1. q * B = B * q + 0 /\ q * B \in Nat /\ 0 \in 0 .. B - 1
    OBVIOUS
  <2> QED
    BY <2>1, DivisionUnique
<1> QED
  BY <1>5, <1>6, <1>7, <1>8

LEMMA GeometryExact ==
    ASSUME AddrSpace \in Nat \ {0}, NEW h, NEW config, PowersOfTwo(config),
           config.size \in Nat, config.assoc \in Nat \ {0}, config.block \in Nat \ {0},
           config.size \div (config.block * config.assoc) \in Nat \ {0},
           size(h) = config.block, h[level] = CacheLevel(config)
    PROVE  Geometry(h)
<1> DEFINE B == config.block
           S == config.size \div (B * config.assoc)
           o == log2(B)
           s == log2(S)
<1>1. /\ h[level].offset_bits = o /\ h[level].index_bits = s /\ h[level].num_sets = S
      /\ B \in Nat \ {0} /\ S \in Nat \ {0}
  BY DEF CacheLevel
<1>2. /\ 2^o = B /\ 2^(o + s) = B * S
      /\ \A n \in 0 .. AddrSpace - 1 :
           /\ BitAnd(n, S - 1) = n % S
           /\ \A i \in 0 .. S - 1 :
                n * (B * S) < AddrSpace => BitOr(n * (B * S), i * B) = n * (B * S) + i * B
  BY DEF PowersOfTwo
<1> HIDE DEF B, S, o, s
<1>3. ASSUME NEW a \in Addr
      PROVE  /\ get_index(h, a) = (a \div B) % S /\ get_tag(h, a) = (a \div B) \div S
             /\ (a \div B) % S \in 0 .. S - 1 /\ (a \div B) \div S \in Nat
             /\ reconstruct_addr(h, (a \div B) \div S, (a \div B) % S) = (a \div B) * B
             /\ (a \div B) * B \in Addr /\ ((a \div B) * B) \div B = a \div B
             /\ a \div B = S * ((a \div B) \div S) + ((a \div B) % S)
  <2> DEFINE q == a \div B
             t == q \div S
             i == q % S
  <2>1. a \in Nat /\ a < AddrSpace
    BY DEF Addr
  <2> DEFINE r == a % B
  <2>2. q \in Nat /\ q <= a /\ r \in 0 .. B - 1 /\ a = B * q + r
    <3>1. q \in Nat /\ q <= a
      BY <1>1, <2>1
    <3>2. r \in 0 .. B - 1 /\ a = B * q + r
      BY <1>1, <2>1, Division
    <3> QED
      BY <3>1, <3>2
  <2> HIDE DEF q, r
  <2>3. t \in Nat /\ i \in 0 .. S - 1 /\ q = S * t + i
    BY <1>1, <2>2, Division
  <2> HIDE DEF t, i
  <2>4. /\ a \div (B * S) = t /\ t * (B * S) + i * B = q * B
        /\ q * B \in 0 .. a /\ (q * B) \div B = q
    <3>1. Divided(B, S, a, q, r, t, i)
      BY <1>1, <2>1, <2>2, <2>3 DEF Divided
    <3> QED
      BY <3>1, AddressDivided
  <2>5. get_index(h, a) = BitAnd(q, S - 1)
    BY <1>1, <1>2 DEF get_index, q
  <2>6. q \in 0 .. AddrSpace - 1
    BY <2>1, <2>2
  <2>7. get_index(h, a) = i
    BY <1>2, <2>5, <2>6 DEF i
  <2>8. get_tag(h, a) = t
    BY <1>1, <1>2, <2>4 DEF get_tag
  <2>9. t * (B * S) \in Nat /\ t * (B * S) < AddrSpace /\ t \in 0 .. AddrSpace - 1
    <3>1. t * (B * S) \in Nat /\ i * B \in Nat
      BY <1>1, <2>3
    <3>2. t <= q
      <4>1. t = 0 \/ S * t >= S * 0 + S
        BY <1>1, <2>3, Quotients
      <4>2. t <= S * t /\ S * t \in Nat
        BY <1>1, <2>3
      <4> QED
        BY <2>2, <2>3, <4>2
    <3> QED
      BY <2>1, <2>2, <2>4, <2>3, <3>1, <3>2
  <2>10. reconstruct_addr(h, t, i) = (q * B) % AddrSpace
    <3>1. reconstruct_addr(h, t, i) = BitOr(t * (B * S), i * B) % AddrSpace
      BY <1>1, <1>2 DEF reconstruct_addr
    <3> QED
      BY <1>2, <2>4, <2>3, <2>9, <3>1
  <2>11. q * B \in Addr /\ (q * B) % AddrSpace = q * B
    BY <2>1, <2>4 DEF Addr
  <2> QED
    BY <2>4, <2>3, <2>7, <2>8, <2>10, <2>11 DEF q, t, i
<1>4. Sets(h) = 0 .. S - 1 /\ size(h) = B
  BY <1>1 DEF Sets, B
<1>5. \A a \in Addr :
        /\ get_index(h, a) \in Sets(h) /\ get_tag(h, a) \in Nat
        /\ reconstruct_addr(h, get_tag(h, a), get_index(h, a)) \in Addr
        /\ sameBlock(h, a, reconstruct_addr(h, get_tag(h, a), get_index(h, a)))
  BY <1>3, <1>4 DEF sameBlock
<1>6. ASSUME NEW a \in Addr, NEW b \in Addr
      PROVE  sameBlock(h, a, b)
               <=> get_index(h, a) = get_index(h, b) /\ get_tag(h, a) = get_tag(h, b)
  <2>1. sameBlock(h, a, b) <=> a \div B = b \div B
    BY <1>4 DEF sameBlock
  <2>2. /\ a \div B = S * get_tag(h, a) + get_index(h, a)
        /\ b \div B = S * get_tag(h, b) + get_index(h, b)
    BY <1>3
  <2>3. /\ get_index(h, a) = (a \div B) % S /\ get_tag(h, a) = (a \div B) \div S
        /\ get_index(h, b) = (b \div B) % S /\ get_tag(h, b) = (b \div B) \div S
    BY <1>3
  <2>4. CASE a \div B = b \div B
    BY <2>1, <2>3, <2>4
  <2>5. CASE get_index(h, a) = get_index(h, b) /\ get_tag(h, a) = get_tag(h, b)
    BY <2>1, <2>2, <2>5
  <2> QED
    BY <2>1, <2>4, <2>5
<1> QED
  BY <1>5, <1>6 DEF Geometry

\* A level as it is constructed is empty.
LEMMA StartConsistent ==
    ASSUME NextContract, NEW h, nextInv(h), NEW config \in Config, PowersOfTwo(config),
           config.size \div (config.block * config.assoc) \in Nat \ {0},
           size(h) = config.block, h[level] = CacheLevel(config)
    PROVE  LevelInv(h) /\ \A a \in Addr : levelMem(h, a) = nextMem(h, a)
<1> DEFINE sets == config.size \div (config.block * config.assoc)
           empty == CacheLine(config.block)
<1>1. Shape(h) /\ AddrSpace \in Nat \ {0}
  BY DEF NextContract
<1>2. /\ config.size \in Nat /\ config.assoc \in Nat \ {0} /\ config.block \in Nat \ {0}
  BY DEF Config
<1>3. Geometry(h)
  BY <1>1, <1>2, GeometryExact
<1>4. empty \in LineType(h) /\ ~empty.valid /\ ~empty.dirty
  <2>1. 0 \in 0 .. h.cycle
    BY <1>1 DEF Shape
  <2>2. [o \in 0 .. config.block - 1 |-> 0] \in Data(h)
    BY <2>1 DEF Data
  <2> DEFINE D == Data(h)
             zeros == [o \in 0 .. config.block - 1 |-> 0]
  <2>3. zeros \in D
    BY <2>2
  <2>4. empty = [tag |-> 0, valid |-> FALSE, dirty |-> FALSE, last_access |-> 0, rrpv |-> 3,
                 is_prefetched |-> FALSE, data |-> zeros]
    BY DEF CacheLine
  <2>5. LineType(h) = [tag : Nat, valid : BOOLEAN, dirty : BOOLEAN, last_access : 0 .. h.cycle,
                       rrpv : 0 .. 3, is_prefetched : BOOLEAN, data : D]
    BY DEF LineType
  <2> HIDE DEF D, zeros, empty
  <2> QED
    BY <2>1, <2>3, <2>4, <2>5
<1> HIDE DEF empty
<1>5. h[level] = [config |-> config, num_sets |-> sets,
         offset_bits |-> log2(config.block), index_bits |-> log2(sets),
         sets |-> [i \in 0 .. sets - 1 |-> [w \in 0 .. config.assoc - 1 |-> empty]],
         hits |-> 0, misses |-> 0, write_backs |-> 0, prefetch_issued |-> 0,
         insertion_counter |-> 0, last_block |-> 0, last_stride |-> 0]
  BY DEF CacheLevel, empty
<1> HIDE DEF sets
<1>6. /\ DOMAIN h[level] = Fields /\ h[level].config = config /\ h[level].num_sets = sets
      /\ h[level].sets = [i \in 0 .. sets - 1 |-> [w \in 0 .. config.assoc - 1 |-> empty]]
      /\ h[level].hits = 0 /\ h[level].misses = 0 /\ h[level].write_backs = 0
      /\ h[level].prefetch_issued = 0 /\ h[level].insertion_counter = 0
      /\ h[level].last_block = 0 /\ h[level].last_stride = 0
  BY <1>5 DEF Fields
<1>7. Sets(h) = 0 .. sets - 1 /\ Ways(h) = 0 .. config.assoc - 1
  BY <1>6 DEF Sets, Ways
<1>8. \A i \in Sets(h) : \A w \in Ways(h) : line(h, i, w) = empty
  BY <1>6, <1>7 DEF line
<1>9. LevelType(h)
  <2>1. h[level].sets \in [Sets(h) -> [Ways(h) -> LineType(h)]]
    BY <1>4, <1>6, <1>7
  <2>2. h[level].num_sets \in Nat /\ h[level].last_stride \in Int
    BY <1>6 DEF sets
  <2>3. {h[level].hits, h[level].misses, h[level].write_backs, h[level].prefetch_issued,
         h[level].insertion_counter, h[level].last_block} \subseteq Nat
    BY <1>6
  <2>4. h[level].config \in Config /\ h[level].config.block = size(h) /\ DOMAIN h[level] = Fields
    BY <1>6
  <2> QED
    BY <2>1, <2>2, <2>3, <2>4 DEF LevelType
<1>10. Consistent(h)
  BY <1>3, <1>4, <1>8 DEF Consistent, Holds
<1>11. ASSUME NEW a \in Addr PROVE levelMem(h, a) = nextMem(h, a)
  <2>1. ways_with(h, a) = {}
    BY <1>4, <1>8, <1>9, <1>10, WaysWith DEF Holds
  <2> QED
    BY <2>1 DEF levelMem
<1> QED
  BY <1>9, <1>10, <1>11 DEF LevelInv

\* What happens above a level does not concern it.
LEMMA AboveIrrelevant ==
    ASSUME NextContract, NEW h, LevelInv(h), NEW g, nextInv(g), g[level] = h[level],
           size(g) = size(h), g.cycle = h.cycle, \A a \in Addr : nextMem(g, a) = nextMem(h, a)
    PROVE  LevelInv(g) /\ \A a \in Addr : levelMem(g, a) = levelMem(h, a)
<1>1. SameGeometry(h, g)
  BY DEF SameGeometry
<1>2. Sets(g) = Sets(h) /\ Ways(g) = Ways(h) /\ LineType(g) = LineType(h)
  BY DEF Sets, Ways, LineType, Data
<1>3. LevelType(g)
  BY <1>2 DEF LevelInv, LevelType
<1>4. \A i \in Sets(h) : \A w \in Ways(h) : SameLine(line(g, i, w), line(h, i, w))
  BY DEF line, SameLine
<1> QED
  BY <1>1, <1>3, <1>4, LinesStay

-----------------------------------------------------------------------------
(***************************************************************************)
(* What an access does to the lines and to the counters: which way a block *)
(* goes to, and how often the next level is called.  The next level counts *)
(* its calls in nextCount, answers within one of the times nextLat, and    *)
(* keeps nextOk.                                                           *)
(***************************************************************************)
\* The next level has been called n times on the way from h to g.
Calls(h, g, n) ==
  /\ nextCount(g) = nextCount(h) + n /\ nextLat(g) = nextLat(h)
  /\ nextOk(h) => nextOk(g)

CountContract ==
  \A h : nextInv(h) =>
    /\ nextCount(h) \in Nat /\ nextLat(h) \in SUBSET Nat
    /\ \A x : Calls(h, [h EXCEPT ![level] = x], 0)
    /\ \A a \in Addr : \A type, patch : Request(h, type, patch) =>
         LET done == next_access(h, a, type, patch)
         IN  Calls(h, done.h, 1) /\ done.lat \in nextLat(h)

\* The same block, with the same time of access unless SRRIP ages the set.
SameMark(policy, l, m) ==
  /\ l.valid = m.valid /\ l.tag = m.tag /\ l.dirty = m.dirty
  /\ policy # "SRRIP" => l.last_access = m.last_access

SameMarks(h, g, i, way) ==
  \A j \in Sets(h) : \A w \in Ways(h) :
    j # i \/ w # way => SameMark(h[level].config.policy, line(g, j, w), line(h, j, w))

bit(p) == IF p THEN 1 ELSE 0

\* The way is free, or that of the policy's victim.
Replaceable(h, i, way) ==
  line(h, i, way).valid =>
    \A w \in Ways(h) :
      /\ line(h, i, w).valid
      /\ h[level].config.policy # "SRRIP" =>
           line(h, i, way).last_access <= line(h, i, w).last_access

\* The way has the block at address a, accessed now; the other lines stay.
Takes(h, g, a, way) ==
  LET new == line(g, get_index(h, a), way)
  IN  /\ SameMarks(h, g, get_index(h, a), way)
      /\ new.valid /\ new.tag = get_tag(h, a)
      /\ h[level].config.policy = "LRU" => new.last_access = h.cycle

\* A block has taken a way.
Installed(h, g, a, type, way) ==
  LET i == get_index(h, a)
  IN  /\ way \in Ways(h) /\ Replaceable(h, i, way) /\ Takes(h, g, a, way)
      /\ line(g, i, way).dirty <=> type = "w"
      /\ \A f \in {"hits", "misses", "prefetch_issued"} : g[level][f] = h[level][f]
      /\ g[level].write_backs = h[level].write_backs + bit(line(h, i, way).dirty)
      /\ Calls(h, g, 1 + bit(line(h, i, way).dirty))

LEMMA PutCalls ==
    ASSUME NextContract, CountContract, NEW h, nextInv(h), NEW f, NEW n
    PROVE  Calls(h, [h EXCEPT ![level][f] = n], 0)
<1>1. [h EXCEPT ![level][f] = n] = [h EXCEPT ![level] = [h[level] EXCEPT ![f] = n]]
  OBVIOUS
<1> QED
  BY <1>1 DEF CountContract

LEMMA CallsTwice ==
    ASSUME CountContract, NEW h, nextInv(h), NEW f, NEW g, NEW m \in Nat, NEW n \in Nat,
           Calls(h, f, m), Calls(f, g, n)
    PROVE  Calls(h, g, m + n)
<1>1. nextCount(h) \in Nat
  BY DEF CountContract
<1> QED
  BY <1>1 DEF Calls

\* A victim that is dirty is written back by one call.
LEMMA WriteBackEffect ==
    ASSUME NextContract, CountContract, NEW h, LevelInv(h), NEW i \in Sets(h),
           NEW way \in Ways(h), NEW l, SameLine(l, line(h, i, way))
    PROVE  LET g == write_back_victim(h, l, i)
           IN  /\ \A f \in Fields \ {"write_backs"} : g[level][f] = h[level][f]
               /\ g[level].write_backs = h[level].write_backs + bit(l.dirty)
               /\ Calls(h, g, bit(l.dirty))
<1>1. /\ l.dirty = line(h, i, way).dirty /\ l.tag = line(h, i, way).tag
      /\ l.data = line(h, i, way).data /\ l.valid = line(h, i, way).valid
  BY DEF SameLine
<1>2. /\ nextInv(h) /\ LevelType(h) /\ Consistent(h) /\ level \in {"L1", "L2"} /\ Shape(h)
      /\ nextCount(h) \in Nat
  BY DEF LevelInv, NextContract, CountContract
<1>3. CASE ~l.dirty
  <2>1. write_back_victim(h, l, i) = h
    BY <1>3 DEF write_back_victim
  <2>2. h[level].write_backs \in Nat
    BY <1>2 DEF LevelType
  <2> QED
    BY <1>2, <1>3, <2>1, <2>2 DEF bit, Calls
<1>4. CASE l.dirty
  <2> DEFINE n == h[level].write_backs + 1
             f == [h EXCEPT ![level]["write_backs"] = n]
             at == reconstruct_addr(h, l.tag, i)
             g == next_access(f, at, "w", l.data).h
  <2>1. write_back_victim(h, l, i) = g
    BY <1>4 DEF write_back_victim
  <2>2. n \in Nat
    BY <1>2 DEF LevelType
  <2>3. \A k \in Fields \ {"write_backs"} : f[level][k] = h[level][k]
    BY <1>2 DEF Shape
  <2>4. f[level].write_backs = n
    BY <1>2 DEF Shape, LevelType, Fields
  <2>5. Calls(h, f, 0)
    BY <1>2, PutCalls
  <2> HIDE DEF n
  <2>6. Stays(h, f) /\ f[level].sets = h[level].sets
    BY <2>2, CounterStays
  <2> HIDE DEF f
  <2>7. PICK a \in Addr : Holds(h, i, way, a)
    BY <1>1, <1>2, <1>4 DEF Consistent
  <2>8. at \in Addr
    BY <1>1, <1>2, <2>7 DEF Consistent, Geometry, Holds
  <2> HIDE DEF at
  <2>9. SameGeometry(h, f) /\ LevelInv(f) /\ nextInv(f) /\ LevelType(f)
    BY <2>6 DEF Stays, LevelInv
  <2>10. Request(f, "w", l.data)
    <3>1. Sets(f) = Sets(h) /\ Ways(f) = Ways(h) /\ line(f, i, way) = line(h, i, way)
      BY <2>6, <2>9, GeometrySame DEF line
    <3>2. line(f, i, way) \in LineType(f)
      BY <2>9, <3>1 DEF LevelType, line
    <3>3. l.data \in Data(f)
      BY <1>1, <3>1, <3>2 DEF LineType
    <3> QED
      BY <3>3 DEF Request, Data
  <2>11. g[level] = f[level]
    BY <2>8, <2>9, <2>10, NextCall
  <2>12. Calls(f, g, 1)
    BY <2>8, <2>9, <2>10 DEF CountContract
  <2> HIDE DEF g
  <2>13. Calls(h, g, 1)
    BY <1>2, <2>5, <2>12, CallsTwice
  <2> QED
    BY <1>4, <2>1, <2>3, <2>4, <2>11, <2>13 DEF bit, n
<1> QED
  BY <1>3, <1>4

\* A set is aged without a call, and only SRRIP changes times by it.
LEMMA AgedEffect ==
    ASSUME NextContract, CountContract, NEW h, LevelInv(h), NEW i \in Sets(h)
    PROVE  LET policy == h[level].config.policy
               g == [h EXCEPT ![level].sets[i] = aged(policy, h[level].sets[i])]
           IN  /\ \A f \in Fields \ {"sets"} : g[level][f] = h[level][f]
               /\ \A j \in Sets(h) : \A w \in Ways(h) :
                    SameMark(policy, line(g, j, w), line(h, j, w))
               /\ Calls(h, g, 0)
<1> DEFINE policy == h[level].config.policy
           A == aged(policy, h[level].sets[i])
           S == [h[level].sets EXCEPT ![i] = A]
           g == [h EXCEPT ![level].sets[i] = A]
<1>1. g = [h EXCEPT ![level]["sets"] = S]
  OBVIOUS
<1>2. /\ nextInv(h) /\ LevelType(h) /\ Shape(h) /\ level \in DOMAIN h
      /\ DOMAIN h[level] = Fields /\ "sets" \in Fields /\ DOMAIN h[level].sets = Sets(h)
  BY DEF LevelInv, NextContract, Shape, LevelType, Fields
<1>3. \A w \in Ways(h) : SameLine(line(g, i, w), h[level].sets[i][w])
  BY AgedStays
<1>4. policy # "SRRIP" => A = h[level].sets[i]
  BY DEF aged
<1> HIDE DEF A
<1>5. /\ \A f \in Fields \ {"sets"} : g[level][f] = h[level][f]
      /\ g[level].sets = S
  BY <1>1, <1>2
<1>6. Calls(h, g, 0)
  BY <1>1, <1>2, PutCalls
<1> HIDE DEF g
<1>7. ASSUME NEW j \in Sets(h), NEW w \in Ways(h)
      PROVE  SameMark(policy, line(g, j, w), line(h, j, w))
  <2>1. CASE j = i
    BY <1>2, <1>3, <1>4, <1>5, <2>1 DEF SameLine, SameMark, line
  <2>2. CASE j # i
    BY <1>2, <1>5, <2>2 DEF SameMark, line
  <2> QED
    BY <2>1, <2>2
<1> QED
  BY <1>5, <1>6, <1>7 DEF g, A

\* A miss or a prefetch: one way takes the block.
LEMMA InstallEffect ==
    ASSUME NextContract, CountContract, NEW h, LevelInv(h), NEW a \in Addr, NEW type, NEW patch,
           Request(h, type, patch), NEW prefetched \in BOOLEAN
    PROVE  LET done == install(h, a, type, patch, prefetched)
           IN  /\ \E way \in Ways(h) : Installed(h, done.h, a, type, way)
               /\ done.lat \in nextLat(h)
<1> DEFINE i == get_index(h, a)
           policy == h[level].config.policy
           set == h[level].sets[i]
           free == {w \in DOMAIN set : ~set[w].valid}
           way == IF free # {} THEN first(free) ELSE getVictim(policy, set)
           h1 == IF free # {} THEN h ELSE [h EXCEPT ![level].sets[i] = aged(policy, set)]
           h2 == write_back_victim(h1, set[way], i)
           fetched == next_access(h2, a, "r", <<>>)
           n == IF policy = "BIP" THEN fetched.h[level].insertion_counter + 1
                ELSE fetched.h[level].insertion_counter
           h3 == [fetched.h EXCEPT ![level]["insertion_counter"] = n]
           data == patched(fetched.data, patch)
           l == onMiss(h3, [h3[level].sets[i][way] EXCEPT
                              !.valid = TRUE, !.tag = get_tag(h, a), !.dirty = (type = "w"),
                              !.is_prefetched = prefetched, !.data = data])
           g == [h3 EXCEPT ![level].sets[i][way] = l]
           d == bit(set[way].dirty)
<1>1. install(h, a, type, patch, prefetched) = [h |-> g, data |-> data, lat |-> fetched.lat]
  BY DEF install
<1>2. nextInv(h) /\ LevelType(h) /\ Consistent(h) /\ Shape(h) /\ level \in {"L1", "L2"}
  BY DEF LevelInv, NextContract
<1>3. i \in Sets(h) /\ get_tag(h, a) \in Nat
  BY <1>2 DEF Consistent, Geometry
<1>4. set \in [Ways(h) -> LineType(h)] /\ DOMAIN set = Ways(h) /\ Ways(h) \subseteq Nat
  BY <1>2, <1>3 DEF LevelType, Ways
<1>5. /\ way \in Ways(h)
      /\ set[way].valid =>
           \A w \in Ways(h) : /\ set[w].valid
                              /\ policy # "SRRIP" => set[way].last_access <= set[w].last_access
  <2>1. CASE free # {}
    <3>1. free \in SUBSET Nat /\ free \subseteq Ways(h) /\ \A w \in free : ~set[w].valid
      BY <1>4
    <3> HIDE DEF free
    <3>2. first(free) \in free /\ way = first(free)
      BY <2>1, <3>1, FirstWay
    <3> HIDE DEF way
    <3> QED
      BY <2>1, <3>1, <3>2
  <2>2. CASE free = {}
    <3>1. \A w \in Ways(h) : set[w].valid
      BY <1>4, <2>2
    <3>2. way = getVictim(policy, set)
      BY <2>2
    <3> HIDE DEF free, way
    <3> QED
      BY <1>3, <3>1, <3>2, VictimFound
  <2> QED
    BY <2>1, <2>2
<1>6. Stays(h, h1) /\ SameLine(set[way], line(h1, i, way))
  <2>1. CASE free # {}
    <3>1. h1 = h
      BY <2>1
    <3>2. SameGeometry(h, h) /\ SameBut(h, h, Own)
      BY DEF SameGeometry, SameBut
    <3>3. SameLine(set[way], line(h, i, way))
      BY DEF SameLine, line
    <3> QED
      BY <3>1, <3>2, <3>3 DEF Stays
  <2>2. CASE free = {}
    <3>1. h1 = [h EXCEPT ![level].sets[i] = aged(policy, set)]
      BY <2>2
    <3> HIDE DEF h1, way
    <3>2. Stays(h, h1) /\ \A w \in Ways(h) : SameLine(line(h1, i, w), set[w])
      BY <1>3, <3>1, AgedStays
    <3>3. SameLine(line(h1, i, way), set[way])
      BY <1>5, <3>2
    <3> QED
      BY <3>2, <3>3 DEF SameLine
  <2> QED
    BY <2>1, <2>2
<1>7. /\ \A f \in Fields \ {"sets"} : h1[level][f] = h[level][f]
      /\ \A j \in Sets(h) : \A w \in Ways(h) : SameMark(policy, line(h1, j, w), line(h, j, w))
      /\ Calls(h, h1, 0)
  <2>1. CASE free # {}
    <3>1. h1 = h
      BY <2>1
    <3>2. nextCount(h) \in Nat
      BY <1>2 DEF CountContract
    <3> QED
      BY <3>1, <3>2 DEF SameMark, Calls
  <2>2. CASE free = {}
    <3>1. h1 = [h EXCEPT ![level].sets[i] = aged(policy, set)]
      BY <2>2
    <3> HIDE DEF h1, way, free, i
    <3> QED
      BY <1>3, <3>1, AgedEffect
  <2> QED
    BY <2>1, <2>2
<1> HIDE DEF way, h1
<1>8. Sets(h1) = Sets(h) /\ Ways(h1) = Ways(h) /\ LevelInv(h1) /\ nextInv(h1)
  BY <1>6, GeometrySame DEF Stays, LevelInv
<1> DEFINE old == set[way]
<1>9. /\ SameLine(old, line(h1, i, way)) /\ h2 = write_back_victim(h1, old, i)
      /\ d = bit(old.dirty) /\ d \in Nat
  BY <1>6 DEF bit
<1>10. old = line(h, i, way)
  BY DEF line
<1> HIDE DEF old, h2, set, i, policy, d
<1>11. Stays(h1, h2) /\ h2[level].sets = h1[level].sets
  BY <1>3, <1>5, <1>8, <1>9, VictimWrittenBack
<1>12. /\ \A f \in Fields \ {"write_backs"} : h2[level][f] = h1[level][f]
       /\ h2[level].write_backs = h1[level].write_backs + d
       /\ Calls(h1, h2, d)
  BY <1>3, <1>5, <1>8, <1>9, WriteBackEffect
<1>13. LevelInv(h2) /\ nextInv(h2) /\ LevelType(h2) /\ Request(h2, "r", <<>>)
  BY <1>11 DEF Stays, LevelInv, Request
<1>14. /\ nextInv(fetched.h) /\ fetched.h[level] = h2[level] /\ fetched.h.cycle = h2.cycle
       /\ Shape(fetched.h) /\ DOMAIN fetched.h[level] = Fields
  <2>1. nextInv(fetched.h) /\ fetched.h[level] = h2[level] /\ fetched.h.cycle = h2.cycle
    BY <1>13, NextCall
  <2> QED
    BY <1>13, <2>1 DEF NextContract, LevelType
<1>15. Calls(h2, fetched.h, 1) /\ fetched.lat \in nextLat(h2)
  BY <1>13 DEF CountContract
<1> HIDE DEF fetched
<1>16. /\ \A f \in Fields \ {"insertion_counter"} : h3[level][f] = fetched.h[level][f]
       /\ h3.cycle = fetched.h.cycle /\ Shape(h3) /\ nextInv(h3)
       /\ DOMAIN h3[level] = Fields
  <2>1. /\ h3.cycle = fetched.h.cycle /\ Shape(h3) /\ DOMAIN h3[level] = Fields
        /\ \A f \in Fields \ {"insertion_counter"} : h3[level][f] = fetched.h[level][f]
    BY <1>2, <1>14 DEF Shape, size
  <2>2. h3 = [fetched.h EXCEPT ![level] = [fetched.h[level] EXCEPT !["insertion_counter"] = n]]
    OBVIOUS
  <2>3. nextInv(h3)
    BY <1>14, <2>2 DEF NextContract, SameBelow
  <2> QED
    BY <2>1, <2>3
<1>17. Calls(fetched.h, h3, 0)
  BY <1>14, PutCalls
<1> HIDE DEF n, h3
<1> DEFINE o == h3[level].sets[i][way]
           m == [o EXCEPT !.valid = TRUE, !.tag = get_tag(h, a), !.dirty = (type = "w"),
                          !.is_prefetched = prefetched, !.data = data]
<1>18. h3[level].sets = h1[level].sets /\ h3.cycle = h.cycle
       /\ h3[level].config = h[level].config
  BY <1>2, <1>6, <1>7, <1>11, <1>12, <1>14, <1>16 DEF Fields, Stays, SameBut, Own
<1>19. o \in [tag : Nat, valid : BOOLEAN, dirty : BOOLEAN, last_access : 0 .. h1.cycle,
              rrpv : 0 .. 3, is_prefetched : BOOLEAN, data : Data(h1)]
  BY <1>3, <1>5, <1>8, <1>18 DEF LevelInv, LevelType, LineType
<1> HIDE DEF o, data
<1>20. m.valid /\ m.tag = get_tag(h, a) /\ (m.dirty <=> type = "w")
       /\ DOMAIN m = {"tag", "valid", "dirty", "last_access", "rrpv", "is_prefetched", "data"}
  BY <1>19
<1> HIDE DEF m
<1>21. l = onMiss(h3, m)
  BY DEF o, m
<1> HIDE DEF l
<1>22. /\ l.valid /\ l.tag = get_tag(h, a) /\ (l.dirty <=> type = "w")
       /\ h[level].config.policy = "LRU" => l.last_access = h.cycle
  BY <1>18, <1>20, <1>21 DEF onMiss
<1> DEFINE S == [h3[level].sets EXCEPT ![i][way] = l]
<1>23. g = [h3 EXCEPT ![level]["sets"] = S]
  OBVIOUS
<1>24. /\ level \in DOMAIN h3 /\ DOMAIN h3[level] = Fields /\ "sets" \in Fields
       /\ h1[level].sets \in [Sets(h) -> [Ways(h) -> LineType(h1)]]
  <2>1. level \in DOMAIN h3 /\ "sets" \in Fields
    BY <1>2, <1>16 DEF Fields, Shape
  <2> QED
    BY <1>8, <1>16, <2>1 DEF LevelInv, LevelType
<1>25. /\ \A f \in Fields \ {"sets"} : g[level][f] = h3[level][f]
       /\ g[level].sets = S
  BY <1>23, <1>24
<1>26. Calls(h3, g, 0)
  BY <1>16, <1>23, PutCalls
<1> HIDE DEF g
<1>27. Calls(h, g, 1 + d)
  <2>1. Calls(h, h2, 0 + d)
    BY <1>2, <1>7, <1>9, <1>12, CallsTwice
  <2>2. Calls(h2, h3, 1 + 0)
    BY <1>13, <1>15, <1>17, CallsTwice
  <2>3. Calls(h2, g, 1 + 0 + 0)
    BY <1>13, <1>26, <2>2, CallsTwice
  <2>4. Calls(h, g, 0 + d + (1 + 0 + 0))
    BY <1>2, <1>9, <2>1, <2>3, CallsTwice
  <2>5. 0 + d + (1 + 0 + 0) = 1 + d
    BY <1>9
  <2> QED
    BY <2>4, <2>5
<1>28. line(g, i, way) = l
  BY <1>3, <1>5, <1>18, <1>24, <1>25 DEF line
<1>29. SameMarks(h, g, i, way)
  <2> SUFFICES ASSUME NEW j \in Sets(h), NEW w \in Ways(h), j # i \/ w # way
               PROVE  SameMark(policy, line(g, j, w), line(h, j, w))
    BY DEF SameMarks, policy
  <2>1. line(g, j, w) = line(h1, j, w)
    BY <1>18, <1>24, <1>25 DEF line
  <2> QED
    BY <1>7, <2>1
<1>30. /\ \A f \in {"hits", "misses", "prefetch_issued"} : g[level][f] = h[level][f]
       /\ g[level].write_backs = h[level].write_backs + d
  BY <1>7, <1>12, <1>14, <1>16, <1>25 DEF Fields
<1>31. Replaceable(h, i, way)
  BY <1>5, <1>10 DEF line, set, Replaceable, policy
<1>32. Installed(h, g, a, type, way)
  <2>1. Takes(h, g, a, way)
    BY <1>22, <1>28, <1>29 DEF Takes, i
  <2> QED
    BY <1>5, <1>9, <1>10, <1>22, <1>27, <1>28, <1>30, <1>31, <2>1 DEF Installed, i
<1>33. nextLat(h2) = nextLat(h)
  BY <1>7, <1>12 DEF Calls
<1> QED
  BY <1>1, <1>5, <1>15, <1>32, <1>33

\* A hit touches the line that has the block, and no other.
Touched(h, g, a, type, way) ==
  LET i == get_index(h, a)
  IN  /\ way \in Ways(h) /\ Holds(h, i, way, a) /\ Takes(h, g, a, way)
      /\ line(g, i, way).dirty <=> line(h, i, way).dirty \/ type = "w"
      /\ g[level].hits = h[level].hits + 1
      /\ \A f \in {"misses", "prefetch_issued", "write_backs"} : g[level][f] = h[level][f]
      /\ Calls(h, g, 0)

LEMMA HitEffect ==
    ASSUME NextContract, CountContract, NEW h, LevelInv(h), NEW a \in Addr, NEW type, NEW patch,
           ways_with(h, a) # {}
    PROVE  LET done == hit(h, a, type, patch)
           IN  /\ \E way \in Ways(h) : Touched(h, done.h, a, type, way)
               /\ done.lat = 0
<1> DEFINE i == get_index(h, a)
           way == last(ways_with(h, a))
           old == h[level].sets[i][way]
           data == patched(old.data, patch)
           m == [touched(old, type) EXCEPT !.data = data]
           l == onHit(h, m)
           n == h[level].hits + 1
           f == [h EXCEPT ![level]["hits"] = n]
           S == [f[level].sets EXCEPT ![i][way] = l]
           g == [f EXCEPT ![level]["sets"] = S]
<1>1. /\ nextInv(h) /\ LevelType(h) /\ Consistent(h) /\ Shape(h)
      /\ level \in DOMAIN h /\ DOMAIN h[level] = Fields
      /\ "hits" \in Fields /\ "sets" \in Fields
  BY DEF LevelInv, NextContract, Shape, LevelType, Fields
<1>2. f[level].sets = h[level].sets
  BY <1>1
<1>3. hit(h, a, type, patch) = [h |-> g, data |-> data, lat |-> 0]
  <2>1. g = [h EXCEPT ![level].hits = @ + 1,
                      ![level].sets[i][way] = onHit(h, [touched(@, type) EXCEPT !.data = data])]
    BY <1>1, <1>2
  <2> QED
    BY <2>1 DEF hit
<1>4. i \in Sets(h) /\ way \in Ways(h) /\ Holds(h, i, way, a)
  BY <1>1, WaysWith
<1>5. /\ DOMAIN f[level] = Fields /\ f[level].hits = n
      /\ \A k \in Fields \ {"hits"} : f[level][k] = h[level][k]
  BY <1>1
<1>6. Calls(h, f, 0)
  BY <1>1, PutCalls
<1>7. nextInv(f) /\ level \in DOMAIN f
  <2>1. f = [h EXCEPT ![level] = [h[level] EXCEPT !["hits"] = n]]
    OBVIOUS
  <2> QED
    BY <1>1, <2>1 DEF NextContract, SameBelow
<1> HIDE DEF n, f
<1>8. Calls(f, g, 0)
  BY <1>7, PutCalls
<1>9. Calls(h, g, 0 + 0)
  BY <1>1, <1>6, <1>8, CallsTwice
<1>10. /\ g[level].sets = S
       /\ \A k \in Fields \ {"sets"} : g[level][k] = f[level][k]
  BY <1>1, <1>5, <1>7
<1>11. old \in [tag : Nat, valid : BOOLEAN, dirty : BOOLEAN, last_access : 0 .. h.cycle,
                rrpv : 0 .. 3, is_prefetched : BOOLEAN, data : Data(h)]
       /\ old = line(h, i, way) /\ old.valid /\ old.tag = get_tag(h, a)
  <2>1. old \in LineType(h) /\ old = line(h, i, way)
    BY <1>1, <1>4 DEF LevelType, line
  <2> QED
    BY <1>4, <2>1 DEF LineType, Holds
<1> HIDE DEF g, old, way, i, data
<1>12. /\ m.valid /\ m.tag = get_tag(h, a) /\ (m.dirty <=> old.dirty \/ type = "w")
       /\ DOMAIN m = {"tag", "valid", "dirty", "last_access", "rrpv", "is_prefetched", "data"}
  BY <1>11 DEF touched
<1> HIDE DEF m
<1>13. /\ l.valid /\ l.tag = get_tag(h, a) /\ (l.dirty <=> old.dirty \/ type = "w")
       /\ h[level].config.policy = "LRU" => l.last_access = h.cycle
  BY <1>12 DEF onHit
<1> HIDE DEF l
<1>14. h[level].sets \in [Sets(h) -> [Ways(h) -> LineType(h)]]
  BY <1>1 DEF LevelType
<1>15. line(g, i, way) = l
  BY <1>2, <1>4, <1>10, <1>14 DEF line
<1>16. SameMarks(h, g, i, way)
  <2> SUFFICES ASSUME NEW j \in Sets(h), NEW w \in Ways(h), j # i \/ w # way
               PROVE  line(g, j, w) = line(h, j, w)
    BY DEF SameMarks, SameMark
  <2> QED
    BY <1>2, <1>10, <1>14 DEF line
<1>17. /\ g[level].hits = h[level].hits + 1
       /\ \A k \in {"misses", "prefetch_issued", "write_backs"} : g[level][k] = h[level][k]
  BY <1>5, <1>10 DEF Fields, n
<1>18. Touched(h, g, a, type, way)
  <2>1. Takes(h, g, a, way)
    BY <1>13, <1>15, <1>16 DEF Takes, i
  <2> QED
    BY <1>4, <1>9, <1>11, <1>13, <1>15, <1>17, <2>1 DEF Touched, i
<1> QED
  BY <1>3, <1>4, <1>18

\* The prefetcher counts what it issues.
LEMMA UpdateEffect ==
    ASSUME NextContract, CountContract, NEW h, LevelInv(h), NEW a \in Addr
    PROVE  LET u == prefetcherUpdate(h, a)
           IN  /\ \A f \in {"sets", "hits", "misses", "write_backs"} : u[level][f] = h[level][f]
               /\ u[level].prefetch_issued = h[level].prefetch_issued
                                               + Len(calculatePrefetch(h, a))
               /\ Calls(h, u, 0)
<1> DEFINE lev == h[level]
           block == a \div lev.config.block
           strided == lev.config.prefetcher \in {"Stride", "Custom"}
           x == [lev EXCEPT !.prefetch_issued = @ + Len(calculatePrefetch(h, a)),
                            !.last_block = IF strided THEN block ELSE @,
                            !.last_stride = IF strided THEN block - lev.last_block ELSE @]
<1>1. nextInv(h) /\ level \in DOMAIN h /\ DOMAIN lev = Fields
  BY DEF LevelInv, LevelType, NextContract, Shape
<1>2. prefetcherUpdate(h, a) = [h EXCEPT ![level] = x]
  BY <1>1 DEF prefetcherUpdate, Fields
<1>3. /\ \A f \in {"sets", "hits", "misses", "write_backs"} : x[f] = lev[f]
      /\ x.prefetch_issued = lev.prefetch_issued + Len(calculatePrefetch(h, a))
  BY <1>1 DEF Fields
<1> HIDE DEF x
<1>4. Calls(h, [h EXCEPT ![level] = x], 0)
  BY <1>1 DEF CountContract
<1> QED
  BY <1>1, <1>2, <1>3, <1>4

\* A prefetch finds the block, or installs it as a miss does.
LEMMA PrefetchEffect ==
    ASSUME NextContract, CountContract, NEW h, LevelInv(h), NEW a \in Addr
    PROVE  LET g == install_prefetch(h, a)
           IN  \/ ways_with(h, a) # {} /\ g = h
               \/ ways_with(h, a) = {} /\ \E way \in Ways(h) : Installed(h, g, a, "r", way)
<1>1. CASE ways_with(h, a) # {}
  BY <1>1 DEF install_prefetch
<1>2. CASE ways_with(h, a) = {}
  <2>1. install_prefetch(h, a) = install(h, a, "r", <<>>, TRUE).h
    BY <1>2 DEF install_prefetch
  <2>2. Request(h, "r", <<>>)
    BY DEF Request
  <2> QED
    BY <1>2, <2>1, <2>2, InstallEffect
<1> QED
  BY <1>1, <1>2

\* What a demand does, before anything is prefetched.
HitBy(h, u, a, type, way) ==
  LET i == get_index(h, a)
  IN  /\ way \in Ways(h) /\ Holds(h, i, way, a) /\ Takes(h, u, a, way)
      /\ line(u, i, way).dirty <=> line(h, i, way).dirty \/ type = "w"
      /\ u[level].hits = h[level].hits + 1 /\ u[level].misses = h[level].misses
      /\ u[level].write_backs = h[level].write_backs
      /\ Calls(h, u, 0)

MissBy(h, u, a, type, way) ==
  LET i == get_index(h, a)
      d == bit(line(h, i, way).dirty)
  IN  /\ way \in Ways(h) /\ ways_with(h, a) = {}
      /\ Replaceable(h, i, way) /\ Takes(h, u, a, way)
      /\ line(u, i, way).dirty <=> type = "w"
      /\ u[level].hits = h[level].hits /\ u[level].misses = h[level].misses + 1
      /\ u[level].write_backs = h[level].write_backs + d
      /\ Calls(h, u, 1 + d)

\* What is prefetched then.
Prefetched(h, q) ==
  /\ \/ q = <<>>
     \/ \E b \in Addr : q = <<b>>
     \/ \E b \in Addr : q = <<b, b>>
  /\ h[level].config.prefetcher = "None" => q = <<>>

\* An access is a hit or a miss that takes lat, then the prefetches q.
Demanded(h, done, a, type, u, q, lat) ==
  /\ done.h = FoldLeft(install_prefetch, u, q) /\ done.lat = h[level].config.latency + lat
  /\ LevelInv(u) /\ SameGeometry(h, u) /\ u.cycle = h.cycle
  /\ Prefetched(h, q) /\ u[level].prefetch_issued = h[level].prefetch_issued + Len(q)
  /\ \E way \in Ways(h) : \/ HitBy(h, u, a, type, way) /\ lat = 0
                          \/ MissBy(h, u, a, type, way) /\ lat \in nextLat(h)

LEMMA AccessEffect ==
    ASSUME NextContract, CountContract, NEW h, LevelInv(h), NEW a \in Addr, NEW type, NEW patch,
           Request(h, type, patch)
    PROVE  \E u, q, lat : Demanded(h, access(h, a, type, patch), a, type, u, q, lat)
<1> DEFINE n == h[level].misses + 1
           f == [h EXCEPT ![level]["misses"] = n]
           demand == IF ways_with(h, a) # {} THEN hit(h, a, type, patch)
                     ELSE install(f, a, type, patch, FALSE)
           q == calculatePrefetch(demand.h, a)
           u == prefetcherUpdate(demand.h, a)
           g == FoldLeft(install_prefetch, u, q)
           lat == h[level].config.latency + demand.lat
<1>1. access(h, a, type, patch) = [h |-> g, data |-> demand.data, lat |-> lat]
  BY DEF access
<1>2. /\ nextInv(h) /\ LevelType(h) /\ Shape(h) /\ level \in {"L1", "L2"}
      /\ level \in DOMAIN h /\ DOMAIN h[level] = Fields /\ "misses" \in Fields
      /\ nextCount(h) \in Nat
  BY DEF LevelInv, NextContract, Shape, LevelType, Fields, CountContract
<1>3. n \in Nat
  BY <1>2 DEF LevelType
<1>4. /\ f[level].misses = n
      /\ \A k \in Fields \ {"misses"} : f[level][k] = h[level][k]
  BY <1>2
<1>5. Calls(h, f, 0)
  BY <1>2, PutCalls
<1> HIDE DEF n
<1>6. Stays(h, f)
  BY <1>3, CounterStays
<1> HIDE DEF f
<1>7. /\ LevelInv(f) /\ SameGeometry(h, f) /\ SameBut(h, f, Own)
      /\ ways_with(f, a) = ways_with(h, a)
  BY <1>6 DEF Stays
<1>8. f.cycle = h.cycle /\ size(f) = size(h) /\ nextInv(f)
  BY <1>2, <1>7 DEF SameBut, Own, LevelInv
<1>9. Request(f, type, patch)
  BY <1>8 DEF Request
<1>10. /\ Sets(f) = Sets(h) /\ Ways(f) = Ways(h)
       /\ get_index(f, a) = get_index(h, a) /\ get_tag(f, a) = get_tag(h, a)
  BY <1>7, GeometrySame
<1>11. /\ \A j, w : line(f, j, w) = line(h, j, w)
       /\ f[level].config = h[level].config
  BY <1>4 DEF line, Fields
<1>12. /\ LevelInv(demand.h) /\ SameGeometry(h, demand.h) /\ SameBut(h, demand.h, Own)
  <2>1. CASE ways_with(h, a) # {}
    <3>1. Answers(h, demand, a, patch)
      BY <2>1, Hits
    <3> QED
      BY <3>1 DEF Answers
  <2>2. CASE ways_with(h, a) = {}
    <3>1. demand = install(f, a, type, patch, FALSE)
      BY <2>2
    <3> HIDE DEF demand
    <3>2. Answers(f, demand, a, patch)
      BY <1>7, <1>9, <2>2, <3>1, Installs
    <3> QED
      BY <1>7, <3>2 DEF Answers, SameGeometry, SameBut
  <2> QED
    BY <2>1, <2>2
<1>13. \E way \in Ways(h) :
         \/ HitBy(h, demand.h, a, type, way) /\ demand.lat = 0
         \/ MissBy(h, demand.h, a, type, way) /\ demand.lat \in nextLat(h)
  <2>1. CASE ways_with(h, a) # {}
    <3>1. demand = hit(h, a, type, patch)
      BY <2>1
    <3> HIDE DEF demand
    <3>2. PICK way \in Ways(h) : Touched(h, demand.h, a, type, way) /\ demand.lat = 0
      BY <2>1, <3>1, HitEffect
    <3> QED
      BY <3>2 DEF Touched, HitBy
  <2>2. CASE ways_with(h, a) = {}
    <3>1. demand = install(f, a, type, patch, FALSE)
      BY <2>2
    <3> HIDE DEF demand
    <3>2. PICK way \in Ways(f) : Installed(f, demand.h, a, type, way) /\ demand.lat \in nextLat(f)
      BY <1>7, <1>9, <3>1, InstallEffect
    <3> DEFINE d == bit(line(h, get_index(h, a), way).dirty)
    <3>3. d \in Nat
      BY DEF bit
    <3> HIDE DEF d
    <3>4. /\ Replaceable(h, get_index(h, a), way) /\ Takes(h, demand.h, a, way)
          /\ line(demand.h, get_index(h, a), way).dirty <=> type = "w"
          /\ Calls(f, demand.h, 1 + d)
      BY <1>8, <1>10, <1>11, <3>2 DEF Installed, Replaceable, Takes, SameMarks, d
    <3>5. /\ demand.h[level].hits = h[level].hits /\ demand.h[level].misses = n
          /\ demand.h[level].write_backs = h[level].write_backs + d
      BY <1>4, <1>10, <1>11, <3>2 DEF Installed, Fields, d
    <3>6. Calls(h, demand.h, 0 + (1 + d))
      BY <1>2, <1>5, <3>3, <3>4, CallsTwice
    <3>7. demand.lat \in nextLat(h)
      BY <1>5, <3>2 DEF Calls
    <3>8. MissBy(h, demand.h, a, type, way)
      BY <1>10, <2>2, <3>2, <3>3, <3>4, <3>5, <3>6 DEF MissBy, d, n
    <3> QED
      BY <1>10, <3>2, <3>7, <3>8
  <2> QED
    BY <2>1, <2>2
<1>14. demand.h[level].prefetch_issued = h[level].prefetch_issued
  <2>1. CASE ways_with(h, a) # {}
    <3>1. demand = hit(h, a, type, patch)
      BY <2>1
    <3> HIDE DEF demand
    <3> QED
      BY <2>1, <3>1, HitEffect DEF Touched
  <2>2. CASE ways_with(h, a) = {}
    <3>1. demand = install(f, a, type, patch, FALSE)
      BY <2>2
    <3> HIDE DEF demand
    <3>2. PICK way \in Ways(f) : Installed(f, demand.h, a, type, way)
      BY <1>7, <1>9, <3>1, InstallEffect
    <3>3. demand.h[level].prefetch_issued = f[level].prefetch_issued
      BY <3>2 DEF Installed
    <3> QED
      BY <1>4, <3>3 DEF Fields
  <2> QED
    BY <2>1, <2>2
<1> HIDE DEF demand
<1>15. /\ \A k \in {"sets", "hits", "misses", "write_backs"} : u[level][k] = demand.h[level][k]
       /\ u[level].prefetch_issued = h[level].prefetch_issued + Len(q)
       /\ Calls(demand.h, u, 0)
  BY <1>12, <1>14, UpdateEffect
<1>16. Stays(demand.h, u)
  BY <1>12, UpdateStays
<1>17. LevelInv(u) /\ SameGeometry(h, u) /\ u.cycle = h.cycle
  BY <1>2, <1>12, <1>16 DEF Stays, SameGeometry, SameBut, Own
<1>18. Prefetched(h, q)
  <2>1. \/ q = <<>>
        \/ \E b \in Addr : q = <<b>>
        \/ \E b \in Addr : q = <<b, b>>
    BY <1>12, PrefetchAddresses
  <2>2. h[level].config.prefetcher = "None" => q = <<>>
    BY <1>12 DEF calculatePrefetch, SameGeometry
  <2> HIDE DEF q
  <2> QED
    BY <2>1, <2>2 DEF Prefetched
<1> HIDE DEF u
<1>19. \A j, w : line(u, j, w) = line(demand.h, j, w)
  BY <1>15 DEF line
<1>20. ASSUME NEW m \in Nat, Calls(h, demand.h, m) PROVE Calls(h, u, m)
  <2>1. Calls(h, u, m + 0)
    BY <1>2, <1>15, <1>20, CallsTwice
  <2> QED
    BY <2>1
<1>21. \E way \in Ways(h) :
         \/ HitBy(h, u, a, type, way) /\ demand.lat = 0
         \/ MissBy(h, u, a, type, way) /\ demand.lat \in nextLat(h)
  <2>1. PICK way \in Ways(h) :
          \/ HitBy(h, demand.h, a, type, way) /\ demand.lat = 0
          \/ MissBy(h, demand.h, a, type, way) /\ demand.lat \in nextLat(h)
    BY <1>13
  <2>2. Takes(h, demand.h, a, way) => Takes(h, u, a, way)
    BY <1>19 DEF Takes, SameMarks
  <2>3. HitBy(h, demand.h, a, type, way) => HitBy(h, u, a, type, way)
    BY <1>15, <1>19, <1>20, <2>2 DEF HitBy
  <2>4. 1 + bit(line(h, get_index(h, a), way).dirty) \in Nat
    BY DEF bit
  <2>5. MissBy(h, demand.h, a, type, way) => MissBy(h, u, a, type, way)
    BY <1>15, <1>19, <1>20, <2>2, <2>4 DEF MissBy
  <2> QED
    BY <2>1, <2>3, <2>5
<1> HIDE DEF q
<1>22. Demanded(h, access(h, a, type, patch), a, type, u, q, demand.lat)
  BY <1>1, <1>15, <1>17, <1>18, <1>21 DEF Demanded
<1> QED
  BY <1>22

-----------------------------------------------------------------------------
(***************************************************************************)
(* LRU does not prefetch over the block just demanded.                     *)
(***************************************************************************)
\* Way w of set i was accessed now, and every other one before.
Newest(h, i, w) ==
  /\ line(h, i, w).last_access = h.cycle
  /\ \A v \in Ways(h) : v # w => line(h, i, v).last_access < h.cycle

LEMMA PrefetchSpares ==
    ASSUME NextContract, CountContract, NEW h, LevelInv(h), NEW a \in Addr, NEW b \in Addr,
           h[level].config.policy = "LRU", h[level].config.assoc > 1,
           NEW w \in Ways(h), Holds(h, get_index(h, a), w, a), Newest(h, get_index(h, a), w)
    PROVE  LET g == install_prefetch(h, b)
           IN  ways_with(g, a) # {} /\ ways_with(g, b) # {} /\ LevelInv(g)
<1> DEFINE g == install_prefetch(h, b)
           i == get_index(h, a)
<1>1. Keeps(h, g)
  BY PrefetchKeeps
<1>2. /\ LevelInv(g) /\ LevelType(g) /\ Consistent(g) /\ SameGeometry(h, g)
      /\ LevelType(h) /\ Consistent(h) /\ Shape(h)
  BY <1>1 DEF Keeps, LevelInv, NextContract
<1>3. /\ Sets(g) = Sets(h) /\ Ways(g) = Ways(h)
      /\ \A c : get_index(g, c) = get_index(h, c) /\ get_tag(g, c) = get_tag(h, c)
  BY <1>2, GeometrySame
<1>4. CASE ways_with(h, b) # {}
  <2>1. g = h
    BY <1>4, PrefetchEffect
  <2> HIDE DEF g
  <2>2. w \in ways_with(h, a)
    BY <1>2, WaysWith
  <2> QED
    BY <1>4, <2>1, <2>2 DEF g
<1>5. CASE ways_with(h, b) = {}
  <2>1. PICK v \in Ways(h) : Installed(h, g, b, "r", v)
    BY <1>5, PrefetchEffect
  <2> HIDE DEF g
  <2>2. v # w \/ get_index(h, b) # i
    <3> SUFFICES ASSUME v = w, get_index(h, b) = i PROVE FALSE
      OBVIOUS
    <3>1. \A x \in Ways(h) : line(h, i, w).last_access <= line(h, i, x).last_access
      BY <2>1 DEF Installed, Replaceable, Holds
    <3>2. PICK x \in Ways(h) : x # w
      <4>1. h[level].config.assoc \in Nat
        BY <1>2 DEF LevelType, Config
      <4>2. 0 \in Ways(h) /\ 1 \in Ways(h)
        BY <4>1 DEF Ways
      <4> QED
        BY <4>2
    <3>3. i \in Sets(h)
      BY <1>2 DEF Consistent, Geometry
    <3>4. line(h, i, x).last_access \in 0 .. h.cycle
      BY <1>2, <3>3 DEF LevelType, LineType, line
    <3> QED
      BY <1>2, <3>1, <3>2, <3>4 DEF Newest, Shape
  <2>3. i \in Sets(h)
    BY <1>2 DEF Consistent, Geometry
  <2>4. Holds(g, i, w, a)
    <3>1. SameMark(h[level].config.policy, line(g, i, w), line(h, i, w))
      BY <2>1, <2>2, <2>3 DEF Installed, Takes, SameMarks
    <3> QED
      BY <1>3, <3>1 DEF Holds, SameMark
  <2>5. Holds(g, get_index(h, b), v, b)
    BY <1>3, <2>1 DEF Installed, Takes, Holds
  <2>6. w \in ways_with(g, a) /\ v \in ways_with(g, b)
    BY <1>2, <1>3, <2>4, <2>5, WaysWith
  <2> QED
    BY <1>2, <2>6 DEF g
<1> QED
  BY <1>4, <1>5

LEMMA AccessSpares ==
    ASSUME NextContract, CountContract, NEW h, LevelInv(h), NEW a \in Addr, NEW type, NEW patch,
           Request(h, type, patch),
           h[level].config.policy = "LRU", h[level].config.assoc > 1,
           \A i \in Sets(h) : \A w \in Ways(h) : line(h, i, w).last_access < h.cycle
    PROVE  ways_with(access(h, a, type, patch).h, a) # {}
<1> DEFINE i == get_index(h, a)
           done == access(h, a, type, patch)
<1>1. PICK u, q, lat : Demanded(h, done, a, type, u, q, lat)
  BY AccessEffect
<1> HIDE DEF done
<1>2. PICK way \in Ways(h) : HitBy(h, u, a, type, way) \/ MissBy(h, u, a, type, way)
  BY <1>1 DEF Demanded
<1>3. Takes(h, u, a, way)
  BY <1>2 DEF HitBy, MissBy
<1>4. /\ LevelInv(u) /\ LevelType(u) /\ Consistent(u) /\ SameGeometry(h, u) /\ u.cycle = h.cycle
      /\ u[level].config = h[level].config
  BY <1>1 DEF Demanded, LevelInv, SameGeometry
<1>5. /\ Sets(u) = Sets(h) /\ Ways(u) = Ways(h)
      /\ \A c : get_index(u, c) = get_index(h, c) /\ get_tag(u, c) = get_tag(h, c)
  BY <1>4, GeometrySame
<1>6. i \in Sets(h)
  BY DEF LevelInv, Consistent, Geometry
<1>7. Holds(u, i, way, a)
  BY <1>3, <1>5 DEF Takes, Holds
<1>8. Newest(u, i, way)
  BY <1>3, <1>4, <1>5, <1>6 DEF Takes, SameMarks, SameMark, Newest
<1>9. way \in ways_with(u, a)
  BY <1>4, <1>5, <1>7, WaysWith
<1>10. done.h = FoldLeft(install_prefetch, u, q) /\ Prefetched(h, q)
  BY <1>1 DEF Demanded
<1>11. CASE q = <<>>
  BY <1>9, <1>10, <1>11, FoldNone DEF done
<1>12. ASSUME NEW b \in Addr
       PROVE  LET g == install_prefetch(u, b)
              IN  ways_with(g, a) # {} /\ ways_with(g, b) # {} /\ LevelInv(g)
  BY <1>4, <1>5, <1>7, <1>8, PrefetchSpares
<1>13. CASE \E b \in Addr : q = <<b>>
  <2>1. PICK b \in Addr : q = <<b>>
    BY <1>13
  <2>2. DOMAIN q = {1} /\ q[1] = b
    BY <2>1
  <2>3. done.h = install_prefetch(u, b)
    BY <1>10, <2>2, FoldOne
  <2> QED
    BY <1>12, <2>3 DEF done
<1>14. CASE \E b \in Addr : q = <<b, b>>
  <2>1. PICK b \in Addr : q = <<b, b>>
    BY <1>14
  <2>2. DOMAIN q = {1, 2} /\ q[1] = b /\ q[2] = b
    BY <2>1
  <2>3. done.h = install_prefetch(install_prefetch(u, b), b)
    BY <1>10, <2>2, FoldTwo
  <2>4. install_prefetch(install_prefetch(u, b), b) = install_prefetch(u, b)
    BY <1>12 DEF install_prefetch
  <2> QED
    BY <1>12, <2>3, <2>4 DEF done
<1> QED
  BY <1>10, <1>11, <1>13, <1>14 DEF Prefetched

\* Without a prefetcher the demand is all there is.
LEMMA AccessAlone ==
    ASSUME NextContract, CountContract, NEW h, LevelInv(h), NEW a \in Addr, NEW type, NEW patch,
           Request(h, type, patch), h[level].config.prefetcher = "None"
    PROVE  LET g == access(h, a, type, patch).h
           IN  \E way \in Ways(h) : HitBy(h, g, a, type, way) \/ MissBy(h, g, a, type, way)
<1> DEFINE done == access(h, a, type, patch)
<1>1. PICK u, q, lat : Demanded(h, done, a, type, u, q, lat)
  BY AccessEffect
<1> HIDE DEF done
<1>2. q = <<>> /\ done.h = FoldLeft(install_prefetch, u, q)
  BY <1>1 DEF Demanded, Prefetched
<1>3. done.h = u
  BY <1>2, FoldNone
<1>4. \E way \in Ways(h) : HitBy(h, u, a, type, way) \/ MissBy(h, u, a, type, way)
  BY <1>1 DEF Demanded
<1> QED
  BY <1>3, <1>4 DEF done

-----------------------------------------------------------------------------
(***************************************************************************)
(* What the counters of a level add up to.                                 *)
(***************************************************************************)
Dirty(h) == {p \in Sets(h) \X Ways(h) : line(h, p[1], p[2]).dirty}

\* Blocks written back, or still to be.
Owed(h) == h[level].write_backs + Cardinality(Dirty(h))

\* The calls that neither a miss nor a write-back accounts for.
Spare(h) == nextCount(h) - h[level].misses - h[level].write_backs

LEMMA DirtyFinite ==
    ASSUME NEW h, LevelType(h)
    PROVE  IsFiniteSet(Dirty(h)) /\ Cardinality(Dirty(h)) \in Nat
<1> DEFINE m == h[level].num_sets - 1
           n == h[level].config.assoc - 1
<1>1. m \in Int /\ n \in Int
  BY DEF LevelType, Config
<1>2. IsFiniteSet(Sets(h)) /\ IsFiniteSet(Ways(h))
  <2> HIDE DEF m, n
  <2>1. IsFiniteSet(0 .. m) /\ IsFiniteSet(0 .. n)
    BY <1>1, FS_Interval
  <2> QED
    BY <2>1 DEF Sets, Ways, m, n
<1>3. IsFiniteSet(Sets(h) \X Ways(h))
  BY <1>2, FS_Product
<1>4. IsFiniteSet(Dirty(h))
  BY <1>3, FS_Subset DEF Dirty
<1> QED
  BY <1>4, FS_CardinalityType

\* The set without x, and with or without it.
LEMMA WithOrWithout ==
    ASSUME NEW S, IsFiniteSet(S), NEW x
    PROVE  Cardinality(S) = Cardinality(S \ {x}) + bit(x \in S)
<1>1. /\ Cardinality(S \ {x}) = IF x \in S THEN Cardinality(S) - 1 ELSE Cardinality(S)
      /\ Cardinality(S) \in Nat
  BY FS_RemoveElement, FS_CardinalityType
<1> QED
  BY <1>1 DEF bit

LEMMA DirtyChanges ==
    ASSUME NEW h, NEW g, LevelType(h), LevelType(g), SameGeometry(h, g),
           NEW i \in Sets(h), NEW way \in Ways(h), SameMarks(h, g, i, way)
    PROVE  Cardinality(Dirty(g)) + bit(line(h, i, way).dirty)
             = Cardinality(Dirty(h)) + bit(line(g, i, way).dirty)
<1> DEFINE p == <<i, way>>
           D == Dirty(h)
           E == Dirty(g)
<1>1. Sets(g) = Sets(h) /\ Ways(g) = Ways(h)
  BY GeometrySame
<1>2. D \ {p} = E \ {p}
  <2>1. ASSUME NEW q \in Sets(h) \X Ways(h), q # p
        PROVE  line(g, q[1], q[2]).dirty = line(h, q[1], q[2]).dirty
    <3>1. q[1] # i \/ q[2] # way
      BY <2>1
    <3> QED
      BY <3>1 DEF SameMarks, SameMark
  <2> QED
    BY <1>1, <2>1 DEF Dirty
<1>3. (p \in D <=> line(h, i, way).dirty) /\ (p \in E <=> line(g, i, way).dirty)
  BY <1>1 DEF Dirty
<1>4. IsFiniteSet(D) /\ IsFiniteSet(E) /\ Cardinality(D) \in Nat /\ Cardinality(E) \in Nat
  BY DirtyFinite
<1> HIDE DEF D, E, p
<1> DEFINE c == Cardinality(D \ {p})
           d == bit(p \in D)
           e == bit(p \in E)
<1>5. Cardinality(D) = c + d /\ Cardinality(E) = c + e
  BY <1>2, <1>4, WithOrWithout
<1>6. d = bit(line(h, i, way).dirty) /\ e = bit(line(g, i, way).dirty)
  BY <1>3 DEF bit
<1>7. d \in Nat /\ e \in Nat /\ c \in Nat
  <2>1. c \in Nat
    BY <1>4, FS_RemoveElement, FS_CardinalityType
  <2> QED
    BY <2>1 DEF bit
<1> HIDE DEF c, d, e
<1> QED
  BY <1>5, <1>6, <1>7 DEF D, E

\* From h to g: n more accesses, the write of `writes` lines, and as many more
\* calls as misses, write-backs and at most p prefetches account for.
Tally(h, g, n, writes, p) ==
  /\ g[level].hits + g[level].misses = h[level].hits + h[level].misses + n
  /\ Owed(g) <= Owed(h) + writes
  /\ Spare(g) \in Spare(h) .. Spare(h) + p
  /\ nextLat(g) = nextLat(h)
  /\ nextOk(h) => nextOk(g)

LEMMA FiguresType ==
    ASSUME CountContract, NEW h, LevelInv(h)
    PROVE  /\ h[level].hits \in Nat /\ h[level].misses \in Nat /\ h[level].write_backs \in Nat
           /\ h[level].prefetch_issued \in Nat /\ nextCount(h) \in Nat /\ LevelType(h)
           /\ Cardinality(Dirty(h)) \in Nat
           /\ Owed(h) \in Nat /\ Spare(h) \in Int
<1>1. /\ h[level].hits \in Nat /\ h[level].misses \in Nat /\ h[level].write_backs \in Nat
      /\ h[level].prefetch_issued \in Nat /\ nextCount(h) \in Nat /\ LevelType(h)
  BY DEF LevelInv, LevelType, CountContract
<1>2. Cardinality(Dirty(h)) \in Nat
  BY <1>1, DirtyFinite
<1> QED
  BY <1>1, <1>2 DEF Owed, Spare

LEMMA TallyTwice ==
    ASSUME CountContract, NEW h, LevelInv(h), NEW f, LevelInv(f), NEW g, LevelInv(g),
           NEW n \in Nat, NEW writes \in Nat, NEW p \in Nat, NEW q \in Nat,
           Tally(h, f, n, writes, p), Tally(f, g, 0, 0, q)
    PROVE  Tally(h, g, n, writes, p + q)
<1>1. /\ Owed(h) \in Nat /\ Owed(f) \in Nat /\ Owed(g) \in Nat
      /\ Spare(h) \in Int /\ Spare(f) \in Int /\ Spare(g) \in Int
      /\ f[level].hits + f[level].misses \in Nat
  BY FiguresType
<1> QED
  BY <1>1 DEF Tally

\* A prefetch is a call that neither a miss nor a write-back accounts for.
LEMMA PrefetchTally ==
    ASSUME NextContract, CountContract, NEW h, LevelInv(h), NEW a \in Addr
    PROVE  LET g == install_prefetch(h, a)
           IN  /\ Tally(h, g, 0, 0, 1) /\ LevelInv(g)
               /\ g[level].misses = h[level].misses
               /\ g[level].prefetch_issued = h[level].prefetch_issued
<1> DEFINE g == install_prefetch(h, a)
<1>1. LevelInv(g) /\ SameGeometry(h, g)
  BY PrefetchKeeps DEF Keeps
<1>2. /\ h[level].hits \in Nat /\ h[level].misses \in Nat /\ h[level].write_backs \in Nat
      /\ nextCount(h) \in Nat /\ LevelType(h) /\ LevelType(g)
      /\ Owed(h) \in Nat /\ Spare(h) \in Int
      /\ Cardinality(Dirty(h)) \in Nat /\ Cardinality(Dirty(g)) \in Nat
  BY <1>1, FiguresType
<1>3. CASE ways_with(h, a) # {}
  <2>1. g = h
    BY <1>3, PrefetchEffect
  <2> QED
    BY <1>1, <1>2, <2>1 DEF Tally
<1>4. CASE ways_with(h, a) = {}
  <2>1. PICK way \in Ways(h) : Installed(h, g, a, "r", way)
    BY <1>4, PrefetchEffect
  <2> HIDE DEF g
  <2> DEFINE i == get_index(h, a)
             d == bit(line(h, i, way).dirty)
  <2>2. i \in Sets(h)
    BY DEF LevelInv, Consistent, Geometry
  <2>3. ~line(g, i, way).dirty
    BY <2>1 DEF Installed
  <2>4. Cardinality(Dirty(g)) + d = Cardinality(Dirty(h)) + bit(line(g, i, way).dirty)
    BY <1>1, <1>2, <2>1, <2>2, DirtyChanges DEF Installed, Takes
  <2>5. Cardinality(Dirty(g)) + d = Cardinality(Dirty(h)) + 0
    BY <2>3, <2>4 DEF bit
  <2>6. /\ g[level].hits = h[level].hits /\ g[level].misses = h[level].misses
        /\ g[level].prefetch_issued = h[level].prefetch_issued
        /\ g[level].write_backs = h[level].write_backs + d
        /\ Calls(h, g, 1 + d)
    BY <2>1 DEF Installed
  <2>7. d \in Nat
    BY DEF bit
  <2> HIDE DEF d, i
  <2>8. Owed(g) = Owed(h)
    BY <1>2, <2>5, <2>6, <2>7 DEF Owed
  <2>9. Spare(g) = Spare(h) + 1
    BY <1>2, <2>6, <2>7 DEF Spare, Calls
  <2>10. Tally(h, g, 0, 0, 1)
    BY <1>2, <2>6, <2>8, <2>9 DEF Tally, Calls
  <2> QED
    BY <1>1, <2>6, <2>10 DEF g
<1> QED
  BY <1>3, <1>4

\* An access is one more hit or one more miss; a miss costs what the next level
\* takes, and the prefetches cost nothing.
LEMMA AccessTally ==
    ASSUME NextContract, CountContract, NEW h, LevelInv(h), NEW a \in Addr, NEW type, NEW patch,
           Request(h, type, patch)
    PROVE  LET done == access(h, a, type, patch)
           IN  /\ \E p \in Nat :
                    /\ done.h[level].prefetch_issued = h[level].prefetch_issued + p
                    /\ Tally(h, done.h, 1, bit(type = "w"), p)
               /\ \E lat : /\ done.lat = h[level].config.latency + lat
                          /\ \/ done.h[level].misses = h[level].misses /\ lat = 0
                             \/ /\ done.h[level].misses = h[level].misses + 1
                                /\ lat \in nextLat(h)
<1> DEFINE done == access(h, a, type, patch)
           i == get_index(h, a)
           writes == bit(type = "w")
<1>1. PICK u, q, lat : Demanded(h, done, a, type, u, q, lat)
  BY AccessEffect
<1> HIDE DEF done
<1>2. /\ LevelInv(u) /\ SameGeometry(h, u) /\ Prefetched(h, q)
      /\ done.h = FoldLeft(install_prefetch, u, q) /\ done.lat = h[level].config.latency + lat
      /\ u[level].prefetch_issued = h[level].prefetch_issued + Len(q)
  BY <1>1 DEF Demanded
<1>3. /\ h[level].hits \in Nat /\ h[level].misses \in Nat /\ h[level].write_backs \in Nat
      /\ nextCount(h) \in Nat /\ LevelType(h) /\ LevelType(u)
      /\ Owed(h) \in Nat /\ Spare(h) \in Int
      /\ Cardinality(Dirty(h)) \in Nat /\ Cardinality(Dirty(u)) \in Nat
  BY <1>2, FiguresType
<1>4. PICK way \in Ways(h) : \/ HitBy(h, u, a, type, way) /\ lat = 0
                             \/ MissBy(h, u, a, type, way) /\ lat \in nextLat(h)
  BY <1>1 DEF Demanded
<1> DEFINE d == bit(line(h, i, way).dirty)
           e == bit(line(u, i, way).dirty)
<1>5. i \in Sets(h)
  BY DEF LevelInv, Consistent, Geometry
<1>6. Cardinality(Dirty(u)) + d = Cardinality(Dirty(h)) + e
  BY <1>2, <1>3, <1>4, <1>5, DirtyChanges DEF HitBy, MissBy, Takes
<1>7. d \in Nat /\ e \in Nat /\ writes \in Nat
  BY DEF bit
<1>8. Tally(h, u, 1, writes, 0)
  <2>1. CASE HitBy(h, u, a, type, way)
    <3>1. e <= d + writes
      BY <2>1 DEF HitBy, bit
    <3>2. /\ u[level].hits = h[level].hits + 1 /\ u[level].misses = h[level].misses
          /\ u[level].write_backs = h[level].write_backs
          /\ Calls(h, u, 0)
      BY <2>1 DEF HitBy
    <3> HIDE DEF d, e, writes
    <3>3. Owed(u) <= Owed(h) + writes
      BY <1>3, <1>6, <1>7, <3>1, <3>2 DEF Owed
    <3>4. Spare(u) = Spare(h)
      BY <1>3, <3>2 DEF Spare, Calls
    <3> QED
      BY <1>3, <3>2, <3>3, <3>4 DEF Tally, Calls
  <2>2. CASE MissBy(h, u, a, type, way)
    <3>1. e = writes
      BY <2>2 DEF MissBy, bit
    <3>2. /\ u[level].hits = h[level].hits /\ u[level].misses = h[level].misses + 1
          /\ u[level].write_backs = h[level].write_backs + d
          /\ Calls(h, u, 1 + d)
      BY <2>2 DEF MissBy
    <3> HIDE DEF d, e, writes
    <3>3. Owed(u) <= Owed(h) + writes
      BY <1>3, <1>6, <1>7, <3>1, <3>2 DEF Owed
    <3>4. Spare(u) = Spare(h)
      BY <1>3, <1>7, <3>2 DEF Spare, Calls
    <3> QED
      BY <1>3, <3>2, <3>3, <3>4 DEF Tally, Calls
  <2> QED
    BY <1>4, <2>1, <2>2
<1>9. \/ u[level].misses = h[level].misses /\ lat = 0
      \/ u[level].misses = h[level].misses + 1 /\ lat \in nextLat(h)
  BY <1>4 DEF HitBy, MissBy
<1> HIDE DEF d, e, writes, i
<1>10. /\ Tally(h, done.h, 1, writes, Len(q)) /\ done.h[level].misses = u[level].misses
       /\ done.h[level].prefetch_issued = u[level].prefetch_issued
       /\ Len(q) \in Nat
  <2>1. CASE q = <<>>
    <3>1. done.h = u
      BY <1>2, <2>1, FoldNone
    <3> QED
      BY <1>8, <2>1, <3>1
  <2>2. CASE \E b \in Addr : q = <<b>>
    <3>1. PICK b \in Addr : q = <<b>>
      BY <2>2
    <3>2. DOMAIN q = {1} /\ q[1] = b /\ Len(q) = 1
      BY <3>1
    <3> DEFINE f == install_prefetch(u, b)
    <3>3. done.h = f
      BY <1>2, <3>2, FoldOne
    <3>4. /\ Tally(u, f, 0, 0, 1) /\ LevelInv(f)
          /\ f[level].misses = u[level].misses
          /\ f[level].prefetch_issued = u[level].prefetch_issued
      BY <1>2, PrefetchTally
    <3> HIDE DEF f
    <3>5. Tally(h, f, 1, writes, 0 + 1)
      BY <1>2, <1>7, <1>8, <3>4, TallyTwice
    <3> QED
      BY <3>2, <3>3, <3>4, <3>5
  <2>3. CASE \E b \in Addr : q = <<b, b>>
    <3>1. PICK b \in Addr : q = <<b, b>>
      BY <2>3
    <3>2. DOMAIN q = {1, 2} /\ q[1] = b /\ q[2] = b /\ Len(q) = 2
      BY <3>1
    <3> DEFINE f == install_prefetch(u, b)
               g == install_prefetch(f, b)
    <3>3. done.h = g
      BY <1>2, <3>2, FoldTwo
    <3>4. /\ Tally(u, f, 0, 0, 1) /\ LevelInv(f)
          /\ f[level].misses = u[level].misses
          /\ f[level].prefetch_issued = u[level].prefetch_issued
      BY <1>2, PrefetchTally
    <3> HIDE DEF f
    <3>5. /\ Tally(f, g, 0, 0, 1) /\ LevelInv(g)
          /\ g[level].misses = f[level].misses
          /\ g[level].prefetch_issued = f[level].prefetch_issued
      BY <3>4, PrefetchTally
    <3> HIDE DEF g
    <3>6. Tally(h, f, 1, writes, 0 + 1)
      BY <1>2, <1>7, <1>8, <3>4, TallyTwice
    <3>7. Tally(h, g, 1, writes, 0 + 1 + 1)
      BY <1>7, <3>4, <3>5, <3>6, TallyTwice
    <3> QED
      BY <3>2, <3>3, <3>4, <3>5, <3>7
  <2> QED
    BY <1>2, <2>1, <2>2, <2>3 DEF Prefetched
<1> QED
  BY <1>2, <1>9, <1>10 DEF done, writes
=============================================================================
