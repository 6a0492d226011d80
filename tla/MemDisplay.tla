----------------------------- MODULE MemDisplay -----------------------------
(***************************************************************************)
(* The memory window of the simulators' GUI (set_memory and                *)
(* create_memory_display of psim.c and ssim.c, createMem and setMem of     *)
(* pipe.tcl and seq.tcl).                                                  *)
(*                                                                         *)
(* The window shows a range of memory that starts empty and grows to cover *)
(* every word the program stores.  Its cells are aligned words, in rows of *)
(* two.  Here the memory is bytes, since what is hard is a store that is   *)
(* not aligned: it changes two cells.                                      *)
(***************************************************************************)
EXTENDS Integers

CONSTANTS
    MemSize,    \* bytes of memory
    Offsets,    \* the alignments, modulo 8, of the stores the program makes
    MaxWrites   \* bound on the stores of a run; the n-th stores bytes n

ASSUME SizeAssumption == MemSize \in Nat /\ MemSize % 16 = 0

ASSUME OffsetsAssumption == Offsets \subseteq 0 .. 7

VARIABLES
    mem,             \* the bytes of memory
    minAddr, memCnt, \* the range on display
    cells,           \* the text of every cell in the window
    writes           \* stores since the load

vars == <<mem, minAddr, memCnt, cells, writes>>

-----------------------------------------------------------------------------

readable(addr) == addr + 8 <= MemSize

get_word_val(m, addr) == [i \in 0 .. 7 |-> m[addr + i]]

store(addr, byte) == [a \in DOMAIN mem |-> IF a \in addr .. addr + 7 THEN byte ELSE mem[a]]

align(n, unit) == n - (n % unit)

\* A window: the range, and the cells that createMem lays out over it.
Window(min, cnt, text) == [min |-> min, cnt |-> cnt, cells |-> text]

cellsOf(min, cnt) == {a \in min .. min + cnt - 1 : a % 8 = 0}

create_memory_display(m, min, cnt) ==
    Window(min, cnt, [a \in cellsOf(min, cnt) |-> get_word_val(m, a)])

\* setMem: an address that has no cell is a Tcl error, which set_memory
\* reports and goes on from.
setMem(w, addr, val) ==
    IF addr \in DOMAIN w.cells THEN [w EXCEPT !.cells[addr] = val] ELSE w

\* Mutant: growing downwards keeps the old size.
grown_down(w, addr) ==
    IF w.cnt = 0 THEN [min |-> addr, cnt |-> 8]
    ELSE IF addr < w.min THEN [min |-> addr, cnt |-> w.cnt]
    ELSE IF addr >= w.min + w.cnt THEN [min |-> w.min, cnt |-> addr - w.min + 8]
    ELSE [min |-> w.min, cnt |-> w.cnt]

\* The range that also covers addr, before it is rounded to whole rows.
grown(w, addr) ==
    IF w.cnt = 0 THEN [min |-> addr, cnt |-> 8]
    ELSE IF addr < w.min THEN [min |-> addr, cnt |-> w.min + w.cnt - addr]
    ELSE IF addr >= w.min + w.cnt THEN [min |-> w.min, cnt |-> addr - w.min + 8]
    ELSE [min |-> w.min, cnt |-> w.cnt]

\* Mutant: the window grows without being drawn again.
set_memory_undrawn(m, w, addr, val) ==
    LET g == grown(w, addr)
        nmemCnt == align((g.min % 16) + g.cnt + 15, 16)
        nminAddr == align(g.min, 16)
    IN  IF nminAddr # w.min \/ nmemCnt # w.cnt
        THEN setMem(Window(nminAddr, nmemCnt,
                           [a \in cellsOf(nminAddr, nmemCnt) |->
                               IF a \in DOMAIN w.cells THEN w.cells[a]
                               ELSE [i \in 0 .. 7 |-> 0]]), addr, val)
        ELSE setMem(w, addr, val)

\* The new range is drawn from memory; in the old one only a cell changes.
set_memory(m, w, addr, val) ==
    LET g == grown(w, addr)
        nmemCnt == align((g.min % 16) + g.cnt + 15, 16)
        nminAddr == align(g.min, 16)
    IN  IF nminAddr # w.min \/ nmemCnt # w.cnt
        THEN create_memory_display(m, nminAddr, nmemCnt)
        ELSE setMem(w, addr, val)

\* The GUI part of update_state.  A misaligned store shows two words, from
\* its address rounded down to a multiple of 4; when the second cannot be
\* read its value is still the first's.
showWrite(m, w, addr) ==
    LET low == align(addr, 4)
        high == low + 8
        first == get_word_val(m, low)
        second == IF readable(high) THEN get_word_val(m, high) ELSE first
    IN  IF addr % 8 # 0
        THEN set_memory(m, set_memory(m, w, low, first), high, second)
        ELSE set_memory(m, w, addr, get_word_val(m, addr))

show(w) == minAddr' = w.min /\ memCnt' = w.cnt /\ cells' = w.cells

noWindow(m) == create_memory_display(m, 0, 0)

-----------------------------------------------------------------------------

\* The loaded image: every word has bytes of its own.
loaded == [a \in 0 .. MemSize - 1 |-> MaxWrites + 1 + a \div 8]

Init ==
    /\ mem = loaded
    /\ minAddr = 0 /\ memCnt = 0 /\ cells = noWindow(mem).cells
    /\ writes = 0

\* The store that update_state performs for the program.
Store(addr) ==
    /\ writes < MaxWrites
    /\ readable(addr) /\ addr % 8 \in Offsets
    /\ writes' = writes + 1
    /\ mem' = store(addr, writes')
    /\ show(showWrite(mem', Window(minAddr, memCnt, cells), addr))

\* sim_reset empties the window, and Reset then puts the loaded memory back.
Reset == mem' = loaded /\ writes' = 0 /\ show(noWindow(mem))

Next == Reset \/ \E addr \in 0 .. MemSize - 1 : Store(addr)

Spec == Init /\ [][Next]_vars

-----------------------------------------------------------------------------

\* The window shows what the program has stored: every byte written lies in a
\* cell, however the window has grown, every cell shows the memory under it,
\* whatever the order and overlap of the stores, and the window never leaves
\* the memory (update_state, psim.c 610-640).
WritesShown ==
    /\ \A a \in DOMAIN cells : cells[a] = get_word_val(mem, a)
    /\ \A a \in DOMAIN mem : mem[a] # loaded[a] => align(a, 8) \in DOMAIN cells
    /\ minAddr >= 0 /\ minAddr + memCnt <= MemSize
=============================================================================
