-------------------------- MODULE MemDisplayProof --------------------------
(***************************************************************************)
(* The memory window shows every store, for every size of memory and every *)
(* sequence of stores that are at most three bytes off their alignment.    *)
(***************************************************************************)
EXTENDS MemDisplay, TLAPS

\* A window of whole rows inside the memory, with a cell for every word.
Rows(w) ==
  /\ w.min \in Nat /\ w.min % 16 = 0
  /\ w.cnt \in Nat /\ w.cnt % 16 = 0
  /\ w.min + w.cnt <= MemSize
  /\ DOMAIN w.cells = cellsOf(w.min, w.cnt)

\* Every cell is right but perhaps those of `stale`.
ShowsBut(m, w, stale) ==
  Rows(w) /\ \A a \in DOMAIN w.cells \ stale : w.cells[a] = get_word_val(m, a)

Display == Window(minAddr, memCnt, cells)

DisplayInv ==
  /\ DOMAIN mem = 0 .. MemSize - 1
  /\ ShowsBut(mem, Display, {})
  /\ \A a \in DOMAIN mem : mem[a] # loaded[a] => align(a, 8) \in DOMAIN cells

\* The range that covers addr, in whole rows, covers the old one too.
LEMMA GrowsToRows ==
    ASSUME NEW w, Rows(w), NEW addr \in Nat, addr % 8 = 0, addr + 8 <= MemSize
    PROVE  LET g == grown(w, addr)
               cnt == align((g.min % 16) + g.cnt + 15, 16)
               min == align(g.min, 16)
           IN  /\ min \in Nat /\ min % 16 = 0 /\ cnt \in Nat /\ cnt % 16 = 0
               /\ min + cnt <= MemSize
               /\ min <= addr /\ addr + 8 <= min + cnt
               /\ w.cnt # 0 => min <= w.min /\ w.min + w.cnt <= min + cnt
<1> DEFINE g == grown(w, addr)
           r == addr % 16
           row == addr - r
           n == w.min
           c == w.cnt
           cnt == align((g.min % 16) + g.cnt + 15, 16)
           min == align(g.min, 16)
<1> SUFFICES /\ min \in Nat /\ min % 16 = 0 /\ cnt \in Nat /\ cnt % 16 = 0
             /\ min + cnt <= MemSize
             /\ min <= addr /\ addr + 8 <= min + cnt
             /\ c # 0 => min <= n /\ n + c <= min + cnt
  OBVIOUS
<1>1. /\ n \in Nat /\ n % 16 = 0 /\ c \in Nat /\ c % 16 = 0
      /\ n + c <= MemSize /\ MemSize \in Nat /\ MemSize % 16 = 0
  BY SizeAssumption DEF Rows
<1>2. row \in Nat /\ row % 16 = 0 /\ r \in {0, 8} /\ addr = row + r /\ row + 16 <= MemSize
  BY <1>1
<1>3. /\ (c = 0 => g.min = addr /\ g.cnt = 8)
      /\ (c # 0 /\ addr < n => g.min = addr /\ g.cnt = n + c - addr)
      /\ (c # 0 /\ addr >= n + c => g.min = n /\ g.cnt = addr - n + 8)
      /\ (c # 0 /\ ~(addr < n) /\ ~(addr >= n + c) => g.min = n /\ g.cnt = c)
  BY <1>1 DEF grown
<1> HIDE DEF g, n, c, r, row
<1>4. CASE c = 0
  <2>1. min = row
    BY <1>2, <1>3, <1>4 DEF align, r, row
  <2>2. (g.min % 16) + g.cnt + 15 = r + 23
    BY <1>2, <1>3, <1>4 DEF r
  <2>3. cnt = 16
    BY <1>2, <2>2 DEF align
  <2> QED
    BY <1>1, <1>2, <1>4, <2>1, <2>2, <2>3
<1>5. CASE c # 0 /\ addr < n
  <2>1. min = row
    BY <1>2, <1>3, <1>5 DEF align, r, row
  <2> DEFINE k == n + c - row
  <2>2. k \in Nat /\ k % 16 = 0 /\ (g.min % 16) + g.cnt + 15 = k + 15
    <3>1. (n + c) % 16 = 0 /\ k \in Nat
      BY <1>1, <1>2, <1>5
    <3>2. g.cnt = k - r /\ g.min % 16 = r
      BY <1>1, <1>2, <1>3, <1>5 DEF r
    <3> QED
      BY <1>1, <1>2, <3>1, <3>2
  <2> HIDE DEF k
  <2>3. cnt = k
    BY <2>2 DEF align
  <2>4. row <= n /\ row + k = n + c
    BY <1>1, <1>2, <1>5 DEF k
  <2>5. addr + 8 <= row + k
    BY <1>1, <1>2, <1>5, <2>2, <2>4
  <2> QED
    BY <1>1, <1>2, <1>5, <2>1, <2>2, <2>3, <2>4, <2>5
<1>6. CASE c # 0 /\ addr >= n + c
  <2>1. min = n /\ g.min % 16 = 0
    BY <1>1, <1>3, <1>6 DEF align
  <2> DEFINE k == row - n + 16
  <2>2. k \in Nat /\ k % 16 = 0 /\ g.cnt = k - 8 + r
    <3>1. row >= n
      BY <1>1, <1>2, <1>6
    <3> QED
      BY <1>1, <1>2, <1>3, <1>6, <3>1
  <2>3. (g.min % 16) + g.cnt + 15 = k + r + 7 /\ row = n + k - 16
    BY <1>1, <1>2, <2>1, <2>2
  <2>4. n + c <= n + k
    BY <1>1, <1>2, <1>6
  <2> HIDE DEF k
  <2>5. cnt = k
    <3>1. align(k + r + 7, 16) = k
      BY <1>2, <2>2 DEF align
    <3> QED
      BY <2>3, <3>1
  <2> QED
    BY <1>1, <1>2, <1>6, <2>1, <2>2, <2>3, <2>4, <2>5
<1>7. CASE c # 0 /\ ~(addr < n) /\ ~(addr >= n + c)
  <2>1. min = n /\ g.min % 16 = 0 /\ g.cnt = c
    BY <1>1, <1>3, <1>7 DEF align
  <2>2. (g.min % 16) + g.cnt + 15 = c + 15
    BY <1>1, <2>1
  <2>3. cnt = c
    BY <1>1, <2>2 DEF align
  <2>4. addr + 8 <= n + c
    BY <1>1, <1>7
  <2> QED
    BY <1>1, <1>7, <2>1, <2>2, <2>3, <2>4
<1> QED
  BY <1>1, <1>4, <1>5, <1>6, <1>7

\* One more cell is right after set_memory, and none is lost.
LEMMA SetShows ==
    ASSUME NEW m, NEW w, NEW stale, ShowsBut(m, w, stale),
           w = Window(w.min, w.cnt, w.cells),
           NEW addr \in Nat, addr % 8 = 0, addr + 8 <= MemSize
    PROVE  LET v == set_memory(m, w, addr, get_word_val(m, addr))
           IN  /\ ShowsBut(m, v, stale \ {addr})
               /\ v = Window(v.min, v.cnt, v.cells)
               /\ addr \in DOMAIN v.cells /\ DOMAIN w.cells \subseteq DOMAIN v.cells
<1> DEFINE g == grown(w, addr)
           cnt == align((g.min % 16) + g.cnt + 15, 16)
           min == align(g.min, 16)
           val == get_word_val(m, addr)
           v == set_memory(m, w, addr, val)
<1>1. v = IF min # w.min \/ cnt # w.cnt THEN create_memory_display(m, min, cnt)
          ELSE setMem(w, addr, val)
  BY DEF set_memory
<1>2. /\ min \in Nat /\ min % 16 = 0 /\ cnt \in Nat /\ cnt % 16 = 0
      /\ min + cnt <= MemSize
      /\ min <= addr /\ addr + 8 <= min + cnt
      /\ w.cnt # 0 => min <= w.min /\ w.min + w.cnt <= min + cnt
  BY GrowsToRows DEF ShowsBut
<1>3. /\ w.min \in Nat /\ w.cnt \in Nat
      /\ DOMAIN w.cells = cellsOf(w.min, w.cnt)
      /\ \A a \in DOMAIN w.cells \ stale : w.cells[a] = get_word_val(m, a)
  BY DEF ShowsBut, Rows
<1> HIDE DEF min, cnt, g, val
<1>4. addr \in cellsOf(min, cnt)
  BY <1>2 DEF cellsOf
<1>5. CASE min # w.min \/ cnt # w.cnt
  <2>1. v = Window(min, cnt, [a \in cellsOf(min, cnt) |-> get_word_val(m, a)])
    BY <1>1, <1>5 DEF create_memory_display
  <2> HIDE DEF v
  <2>2. /\ v.min = min /\ v.cnt = cnt /\ DOMAIN v.cells = cellsOf(min, cnt)
        /\ \A a \in DOMAIN v.cells : v.cells[a] = get_word_val(m, a)
    BY <2>1 DEF Window
  <2>3. cellsOf(w.min, w.cnt) \subseteq cellsOf(min, cnt)
    BY <1>2, <1>3 DEF cellsOf
  <2>4. v = Window(v.min, v.cnt, v.cells)
    BY <2>1 DEF Window
  <2> QED
    BY <1>2, <1>3, <1>4, <2>2, <2>3, <2>4 DEF ShowsBut, Rows, v, val
<1>6. CASE min = w.min /\ cnt = w.cnt
  <2>1. v = [w EXCEPT !.cells[addr] = val]
    BY <1>1, <1>3, <1>4, <1>6 DEF setMem
  <2> HIDE DEF v
  <2>2. /\ v.min = w.min /\ v.cnt = w.cnt /\ v.cells = [w.cells EXCEPT ![addr] = val]
        /\ v = Window(v.min, v.cnt, v.cells)
    BY <2>1 DEF Window
  <2>3. /\ DOMAIN v.cells = DOMAIN w.cells
        /\ v.cells[addr] = get_word_val(m, addr)
        /\ \A a \in DOMAIN w.cells : a # addr => v.cells[a] = w.cells[a]
    BY <1>3, <1>4, <1>6, <2>2 DEF val
  <2>4. Rows(v)
    BY <2>2, <2>3 DEF ShowsBut, Rows
  <2> QED
    BY <1>3, <1>4, <1>6, <2>2, <2>3, <2>4 DEF ShowsBut, v, val
<1> QED
  BY <1>5, <1>6 DEF v, val

\* A store shows in the one or two cells it touches.
LEMMA StoreShown ==
    ASSUME DisplayInv, Offsets \subseteq 0 .. 3, NEW addr \in 0 .. MemSize - 1, Store(addr)
    PROVE  DisplayInv'
<1> DEFINE w == showWrite(mem', Display, addr)
           low == addr - (addr % 8)
           high == low + 8
<1>1. /\ addr \in Nat /\ addr + 8 <= MemSize /\ addr % 8 \in 0 .. 3
      /\ MemSize \in Nat /\ MemSize % 16 = 0
  BY SizeAssumption DEF Store, readable
<1>2. /\ mem' = store(addr, writes')
      /\ minAddr' = w.min /\ memCnt' = w.cnt /\ cells' = w.cells
  BY DEF Store, show, Display
<1>3. /\ low \in Nat /\ low % 8 = 0 /\ low + 8 <= MemSize
      /\ align(addr, 4) = low
      /\ addr % 8 = 0 => low = addr
      /\ addr % 8 # 0 => high \in Nat /\ high % 8 = 0 /\ high + 8 <= MemSize
  BY <1>1 DEF align
<1>4. /\ DOMAIN mem' = 0 .. MemSize - 1
      /\ \A a \in DOMAIN mem : a \notin addr .. addr + 7 => mem'[a] = mem[a]
  BY <1>2 DEF store, DisplayInv
<1> DEFINE stale == IF addr % 8 = 0 THEN {addr} ELSE {low, high}
<1>5. ShowsBut(mem', Display, stale)
  <2>1. ASSUME NEW a \in DOMAIN cells, a \notin stale
        PROVE  get_word_val(mem', a) = get_word_val(mem, a)
    <3>1. /\ minAddr \in Nat /\ minAddr % 16 = 0 /\ memCnt \in Nat /\ memCnt % 16 = 0
          /\ minAddr + memCnt <= MemSize
          /\ a \in minAddr .. minAddr + memCnt - 1 /\ a % 8 = 0
      BY <2>1 DEF DisplayInv, ShowsBut, Rows, cellsOf, Display, Window
    <3>2. a \in Nat /\ a + 8 <= MemSize
      BY <1>1, <3>1
    <3>3. a # low /\ (addr % 8 # 0 => a # high)
      BY <1>3, <2>1
    <3>4. a + 7 < addr \/ addr + 7 < a
      BY <1>1, <1>3, <3>1, <3>2, <3>3
    <3>5. \A i \in 0 .. 7 : a + i \in DOMAIN mem /\ a + i \notin addr .. addr + 7
      BY <1>1, <3>2, <3>4 DEF DisplayInv
    <3> QED
      BY <1>4, <3>5 DEF get_word_val
  <2>2. Display.cells = cells
    BY DEF Display, Window
  <2> HIDE DEF stale
  <2> QED
    BY <2>1, <2>2 DEF DisplayInv, ShowsBut
<1>6. Display = Window(Display.min, Display.cnt, Display.cells) /\ Display.cells = cells
  BY DEF Display, Window
<1>7. /\ ShowsBut(mem', w, {}) /\ w = Window(w.min, w.cnt, w.cells)
      /\ DOMAIN cells \subseteq DOMAIN w.cells
      /\ stale \subseteq DOMAIN w.cells
  <2>1. CASE addr % 8 = 0
    <3>1. w = set_memory(mem', Display, addr, get_word_val(mem', addr))
      BY <2>1 DEF showWrite
    <3>2. stale = {addr}
      BY <2>1
    <3> HIDE DEF w, stale
    <3>3. /\ ShowsBut(mem', w, stale \ {addr}) /\ w = Window(w.min, w.cnt, w.cells)
          /\ addr \in DOMAIN w.cells /\ DOMAIN Display.cells \subseteq DOMAIN w.cells
      BY <1>1, <1>5, <1>6, <2>1, <3>1, SetShows
    <3>4. stale \ {addr} = {}
      BY <3>2
    <3> QED
      BY <1>6, <3>2, <3>3, <3>4
  <2>2. CASE addr % 8 # 0
    <3> DEFINE u == set_memory(mem', Display, low, get_word_val(mem', low))
    <3>1. readable(high)
      BY <1>3, <2>2 DEF readable
    <3>2. w = set_memory(mem', u, high, get_word_val(mem', high))
      BY <1>3, <2>2, <3>1 DEF showWrite
    <3>3. stale = {low, high}
      BY <2>2
    <3> HIDE DEF w, u, low, high, stale
    <3>4. /\ ShowsBut(mem', u, stale \ {low}) /\ u = Window(u.min, u.cnt, u.cells)
          /\ low \in DOMAIN u.cells /\ DOMAIN Display.cells \subseteq DOMAIN u.cells
      BY <1>3, <1>5, <1>6, SetShows DEF u
    <3>5. /\ ShowsBut(mem', w, (stale \ {low}) \ {high})
          /\ w = Window(w.min, w.cnt, w.cells)
          /\ high \in DOMAIN w.cells /\ DOMAIN u.cells \subseteq DOMAIN w.cells
      BY <1>3, <2>2, <3>2, <3>4, SetShows
    <3>6. (stale \ {low}) \ {high} = {}
      BY <3>3
    <3> QED
      BY <1>6, <3>3, <3>4, <3>5, <3>6
  <2> QED
    BY <2>1, <2>2
<1> HIDE DEF w
<1>8. Display' = w
  BY <1>2, <1>7 DEF Display
<1>9. ASSUME NEW a \in DOMAIN mem', mem'[a] # loaded[a]
      PROVE  align(a, 8) \in DOMAIN cells'
  <2>1. CASE a \in addr .. addr + 7
    <3>1. align(a, 8) = low \/ (addr % 8 # 0 /\ align(a, 8) = high)
      BY <1>1, <1>3, <2>1 DEF align
    <3>2. align(a, 8) \in stale
      BY <1>3, <3>1
    <3> QED
      BY <1>2, <1>7, <3>2
  <2>2. CASE a \notin addr .. addr + 7
    <3>1. a \in DOMAIN mem /\ mem[a] # loaded[a]
      BY <1>4, <1>9, <2>2 DEF DisplayInv
    <3> QED
      BY <1>2, <1>7, <3>1 DEF DisplayInv
  <2> QED
    BY <2>1, <2>2
<1>10. loaded' = loaded
  BY DEF loaded
<1> QED
  BY <1>4, <1>7, <1>8, <1>9, <1>10 DEF DisplayInv

LEMMA EmptyWindow ==
    ASSUME NEW m, NEW w, w = noWindow(m)
    PROVE  Rows(w) /\ DOMAIN w.cells = {} /\ w.min = 0 /\ w.cnt = 0
<1>1. cellsOf(0, 0) = {}
  BY DEF cellsOf
<1> QED
  BY <1>1, SizeAssumption DEF Rows, noWindow, create_memory_display, Window

\* The window is right after every store and every reset.
THEOREM WritesAlwaysShown == ASSUME Offsets \subseteq 0 .. 3 PROVE Spec => []WritesShown
<1>1. Init => DisplayInv
  <2> SUFFICES ASSUME Init PROVE DisplayInv
    OBVIOUS
  <2>1. Display = noWindow(mem)
    BY DEF Init, Display, noWindow, create_memory_display, Window
  <2>2. Rows(Display) /\ DOMAIN Display.cells = {}
    BY <2>1, EmptyWindow
  <2> QED
    BY <2>2 DEF DisplayInv, ShowsBut, Init, loaded
<1>2. DisplayInv /\ [Next]_vars => DisplayInv'
  <2> SUFFICES ASSUME DisplayInv, [Next]_vars PROVE DisplayInv'
    OBVIOUS
  <2>1. ASSUME Reset PROVE DisplayInv'
    <3> DEFINE w == noWindow(mem)
    <3>1. minAddr' = w.min /\ memCnt' = w.cnt /\ cells' = w.cells /\ mem' = loaded
      BY <2>1 DEF Reset, show
    <3>2. Rows(w) /\ DOMAIN w.cells = {}
      BY EmptyWindow
    <3>3. w = Window(w.min, w.cnt, w.cells)
      BY DEF noWindow, create_memory_display, Window
    <3> HIDE DEF w
    <3>4. Display' = w
      BY <3>1, <3>3 DEF Display
    <3>5. DOMAIN mem' = 0 .. MemSize - 1 /\ \A a \in DOMAIN mem' : mem'[a] = loaded'[a]
      BY <3>1 DEF loaded
    <3> QED
      BY <3>2, <3>4, <3>5 DEF DisplayInv, ShowsBut
  <2>2. CASE UNCHANGED vars
    BY <2>2 DEF vars, DisplayInv, Display, loaded
  <2> QED
    BY <2>1, <2>2, StoreShown DEF Next
<1>3. DisplayInv => WritesShown
  BY DEF DisplayInv, ShowsBut, Rows, Display, Window, WritesShown
<1> QED
  BY <1>1, <1>2, <1>3, PTL DEF Spec
=============================================================================
