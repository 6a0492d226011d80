# TLA+ models of the CSAPP simulators and course projects

This directory holds TLA+ specifications of the programs of this repository
that have behaviour worth specifying, the TLC configurations that check them
on small instances, and TLAPS proofs of what holds for every value of their
parameters. `PROJECT.json` relates every definition to the lines it models.

`ARCH` below stands for `src/CMU_CSAPP/Lab/Architecture Lab/Content/sim`,
`DATA` for `src/CMU_CSAPP/Lab/Data Lab/Content`, and `P3`, `P4`, `P5` for
`src/Project/Project3/src`, `src/Project/Project4` and `src/Project/Project5`.

## 1. Inventory of the system

The repository collects independent programs: the simulators and tools of the
Architecture Lab, the checker of the Data Lab, and four course projects.

| Component | Source | State | Operations | Modelled |
|---|---|---|---|---|
| Y86-64 vocabulary | `ARCH/misc/isa.c`, `isa.h` | words, registers, memory, condition codes | `compute_alu`, `compute_cc`, `cond_holds`, `get/set_word_val`, `get/set_reg_val`, `load_mem` | `Y86` |
| Instruction-set simulator (`step_state`, `yis`) | `ARCH/misc/isa.c`, `yis.c` | `state_rec`: pc, registers, memory, cc | one case per instruction | `ISA` |
| PIPE, the pipelined processor | `ARCH/pipe/psim.c`, eight `pipe-*.hcl`, `stages.h` | five pipeline registers, register file, memory, cc | `sim_step_pipe`: one clock cycle | `Pipe`, `PipeISA` |
| psim in TTY mode, `-l` and `-t` | `ARCH/pipe/psim.c` | the above, counters, a second ISA state | `run_tty_sim`, `sim_run_pipe` | `Psim` |
| SEQ and SEQ+, the sequential processors | `ARCH/seq/ssim.c`, three `seq*.hcl` | pc (SEQ+: what it is computed from), register file, memory, cc, pending writes | `sim_step`, `update_state`, `sim_run` | `Seq` |
| Cache hierarchy simulator (Project 4) | `P4/*.cpp` | two levels of sets of lines, prefetcher history, statistics | `CacheLevel::access`, the trace loop of `main` | `CacheLevel`, `Cache`, `Store` |
| Code scheduler (Project 3) | `P3/*.cpp` | dependency graph, node counters, in-flight results, ready queue | `parseLine`, `build`, `schedule`, `scheduleFast`, `simulateExecution`, `runScheduler` | `Parser`, `DAGBuilder`, `Scheduler`, `FastScheduler` |
| psim's Tcl front end | `ARCH/pipe/psim.c` part 3, `pipe.tcl` | the simulator, the memory of the last load, what each window shows, nested `simGo` loops | `simCode`, `simReset`, `simRun`, Load, Reset, Step, Go, Stop | `Gui`; the memory window in `MemDisplay` |
| ssim's Tcl front end | `ARCH/seq/ssim.c`, `seq.tcl` | as psim's | as psim's | no: the same commands over `Seq`; its memory window is the code of psim's |
| Assembler `yas` | `ARCH/misc/yas.c`, `yas-grammar.lex` | tokens of a line, symbol table, location counter, error flags | two passes over the lines, `load_mem` of the result | `YasEncode`, `Yas` |
| HCL compiler `hcl2c` | `ARCH/misc/node.c`, `outgen.c`, `hcl.y` | symbol table, syntax trees, error count | declarations, type checks, C text of an expression | `Hcl`, `CExpr` |
| Test generators, assembly benchmarks | `ARCH/ptest`, `ARCH/y86-code` | none | Perl scripts that drive the simulators | no |
| Data Lab checker and puzzles | `DATA/btest.c`, `bits.c`, `tests.c`, `decl.c` | options, test values, scores, the pending alarm | `main`, `run_tests`, `test_function`, `timeout_handler`; the puzzles | `Btest`, `Bits` |
| Bit-level arithmetic (Project 1) | `src/Project/Project1/src/data_lab.cpp` | none | `add`, `subtract`, `multiply`, `divide`, `modulo` | `Arith` |
| Optimisation kernels (Project 5) | `P5/src`, `P5/include`, `P5/bonus` | two contexts per kernel, timings, verdicts; a team of threads | `run_benchmark` over twelve kernels | `Kernels`, `Bench` |
| Bomb Lab, Attack Lab, notes and reports | `src/CMU_CSAPP/Lab` | none | disassembly and prose | no |

### How the parts interact

* `psim -t` runs the pipeline to its end or its limit, then steps the ISA
  simulator from a copy of the loaded state and compares registers, memory and
  condition codes. `ssim -t` does the same for SEQ. So `ISA` is both a component
  and the abstract specification of `Pipe` and `Seq`.
* The simulators' datapaths are C functions generated from the HCL files; they
  read the pipeline registers and write the *next* ones, and
  `update_state`/`update_pipes` commits them.
* `CacheLevel::access` calls `access` of the next level (a second cache or
  memory) up to twice for a miss, and once more per prefetched block.
* `yas` writes the `.yo` file that `load_mem` of `yis`, `ssim` and `psim` reads;
  `hcl2c` writes the C functions the simulators call as their control logic.
* A Tcl command runs to its end before Tcl looks at the next event, except that
  `simGo` calls `update` after every cycle, which runs the handler of whatever
  button was pressed meanwhile, `simGo` itself included.
* `btest` calls a puzzle under an alarm; its handler jumps back into
  `test_function` with `siglongjmp`.
* `run_benchmark` calls the naive and the student's version of a kernel many
  times on two contexts made from one seed, then compares them. Two bonus
  kernels are OpenMP loops.
* `runScheduler` parses a listing, builds one graph and schedules it once per
  policy from a *copy* of the nodes, and hands each order to a simulator that
  shares nothing with the scheduler but the graph.

### What is hard

No program here has persistence or a network. Threads appear in the bonus
kernels only, and a signal in `btest`. What is hard is mostly elsewhere, and
`hazards` in `PROJECT.json` lists it line by line:

* **Overlap.** In PIPE five instructions are in progress at once. Values are
  read before they are written (forwarding), instructions are fetched before it
  is known whether they should be (prediction), and an exception must cut the
  stream between two of them. The pending writes of SEQ are the same problem
  with one instruction.
* **Order of effects.** Two register writes of one cycle to the same register;
  the readers of a register cleared between the destination and the sources of
  one instruction; write-back before fill on a cache miss.
* **Bookkeeping spread over several places.** The unscheduled-predecessor
  counter is decremented in two loops at different times; a queue replaces a
  scan; blocks reach a cache set on three paths.
* **Limits.** An instruction limit falls inside the pipeline; a counter is read
  one cycle off; a signed overflow; a number of cache sets that is no power of
  two.
* **Events at the wrong time.** A button is pressed inside a running `simGo`; an
  alarm is never cancelled and goes off for a puzzle that has returned.
* **Errors that must not get lost.** `yas` resets its error mode on every line,
  `hcl2c` goes on printing code after a type error, the harness goes on after a
  kernel that failed: each has one flag that must remember.
* **Ending.** Stalls, SRRIP's self-recursive victim search and the scheduler's
  `while` each end only because of an invariant that lies elsewhere.

What makes each component correct: the ISA's cases keep their types and set the
flags as signed arithmetic wants; PIPE and SEQ execute what the ISA executes,
once and in order; a `-t` check passes whenever it can; the cache behaves like a
memory and counts what happened; the graph has the right edges, no schedule
breaks one, and a schedule means what the program meant; the windows show the
machine, and buttons move it only as the ISA; what `yas` and `hcl2c` accept is
right and means what was written; `btest` ends and its score is deserved; every
kernel computes what the naive one does, on reused buffers and on threads.

## 2. Modules

```
Y86 --- ISA                       abstract machine
 |       ^  ^
 |       |  +------------ PipeISA --- MCPipeISA   (INSTANCE ISA)
 +-- Pipe                    +------ Gui -- MCGui        MemDisplay -- MCMemDisplay
 |                           +------ Psim - MCPsim       (INSTANCE ISA again)
 +-- Seq  ------------------------- MCSeq        (INSTANCE ISA)
 +-- Programs            words, registers, encodings for TLC
 proofs: Y86Proof <- SeqProof                                proof: MemDisplayProof
         Y86Proof <- PipeProof (Pipe, PipeISA, Gui and Psim)

CacheLevel <- Cache -> Store      MCCache        (L1, L2: INSTANCE CacheLevel;
                                                  Store: what a memory promises)
 proofs: CacheLevelProof (one level over any memory) <- CacheProof

Parser <- DAGBuilder <- Scheduler <- FastScheduler
                        Listings: MCScheduler
 proof:  SchedulerProof

YasEncode <- Yas -- MCYas         proof: YasProof
CExpr <- Hcl -- MCHcl             Bits <- Btest -- MCBtest (INSTANCE Arith)
Kernels <- Bench -- MCBench
```

### Y86 and ISA

`Y86` defines words as signed integers of a width given by `HalfRange`
(`Wrap` is arithmetic modulo the width; `isa.c` relies on gcc's wrapping of
signed overflow), the ALU, `compute_cc`, `cond_holds` and the accessors that
ignore `REG_NONE` and refuse addresses outside memory. `ISA` has one action per
case of `step_state`; what a case assigned before a failing test stays
assigned: `call`, `pushq` and `popq` move `%rsp` before they touch the
stack. `PreciseStackFault` is the step of a machine that leaves `%rsp` alone at
such a fault; all the processors do that, so their refinements allow it as a
named deviation. The other is `MissingIaddq`: the designs without `iaddq` stop
at it as at an invalid instruction, the ISA simulator executes it.

Abstractions: an address holds a word and a word encodes a whole instruction,
through the constant function `Decode`; memory has `MemLen` words. Instructions
that straddle the end of memory, and the check of `do_if_stage` that `valp + 5`
is readable, are outside the model.

### Pipe, PipeISA, Psim

`Pipe` keeps the four pipeline registers behind fetch (`D`, `E`, `M`, `W`; F
holds the predicted pc), under the names of `stages.h`, and every signal of
the HCL files as a state function of the same name. The Makefile builds psim
from one of eight HCL files; what they do not share is the record `design`,
chosen initially and never changed: the opcodes they add, whether they forward,
stall, squash, and how many write ports they have. `pipe-std` is the default,
`pipe-full` the solved exercise (`iaddq` and load forwarding); `pipe-nt` and
`pipe-btfnt` still have the standard logic; the others have some mechanism taken
out. `Cycle` is
`sim_step_pipe`: write-back, memory, execute, decode, fetch, then loading each
register according to its stall and bubble signals. `Psim` adds the loop
`sim_run_pipe` with its two counters, the CPI statistics, and the `-t` phase; it
extends `PipeISA`, and what it promises ends where the history of `PipeISA` says
so.

`PipeISA` states the refinement. An instruction commits when it enters the
memory stage. The mapped register file and memory are the real ones with the
writes of the instructions in W and M applied, and the mapped pc is the address
of the oldest instruction that has not entered memory. `smc` is a history
variable: it becomes true when a store hits an instruction already fetched,
from where the code promises nothing. `unhandled` is another: it becomes true at
the first hazard the design leaves to the program. `HazardUnhandled` names it
for each missing mechanism, and none of its cases can go: without any of them
`ImplementsISA` fails for a design.

### Seq

`sim_step` first performs the writes the previous call left pending, then
evaluates the datapath, whose signals are state functions here. The refinement
mapping applies the pending writes. In SEQ+ (`plusmode`) the next pc is pending
too: `prev` keeps what `plus_pc` computes it from at the next call.

### Cache

The operators of `CacheLevel` pass the hierarchy from call to call in the order
of the code. The simulator stores only tags; each line of the model also
carries the *data* a cache taking these decisions would hold, and no decision
reads them. They make it possible to say that the simulated hierarchy is a
memory (`Store`). SRRIP's recursion is given in closed form (age everything by
what the oldest line lacks to 3). Sizes are in bytes, so that a handful of
lines suffices. `PowersOfTwo` is what the address arithmetic of a level takes
for granted, `ExactGeometry` the same of both levels of every command line; the
code tests neither, and the proofs name the second as a hypothesis. Argument parsing and printing are left out; a size below
`block * assoc`, for which the code has no set to index, is excluded by
`CommandLineAssumption`.

### Parser, DAGBuilder, Scheduler, FastScheduler

An assembly line is an opcode and its operands, each the text before the
parenthesis and the one inside. `build` is a state machine that visits one
instruction per step; lists of edges are sets, which is what `addEdge`'s
duplicate check makes of them. A step of `Scheduler` is one turn of the loop of
`schedule`, one cycle: issue the best ready node or let the cycle pass, then
let the results that are due arrive. `selectBestNode`'s scan is the maximum of
the order it compares by. `FastScheduler` replaces the scan by the queue.
`detectRAW`, `detectWAR` and `detectWAW`, which the code keeps but no longer
calls, are the declarative reference for the graph; instructions count from 1.

The graph has register dependencies only: loads, stores and branches are not
ordered by it, and `SemanticsPreserved` speaks of registers. The field
`total_cycles` counts issue cycles, the simulator's total includes the last
latency.

### Gui, MemDisplay

`Gui` extends `PipeISA` with what the Tcl side keeps: the image of the last
load, the text of every register, both halves of every pipe register, the stage
letters beside the code, and `simGo`'s flag; and the rest of the simulator that
`sim_report` looks at: the status of the pc register (`F_stat`: `do_if_stage`
makes it a bubble after a fetch that is not `AOK`, and then no line has the
letter F), and the C variable `f_pc`, which a reset leaves as it was
(`fetched`). `gos` counts the calls of `simGo` that wait in `update`, nested in
one another.

A Step, or the cycle of a Go, is one action: `sim_step_pipe` with `sim_report` at
its end. Load and Reset are steps (`cmd` says what is left; no button is looked
at before they end), since what they do when is the question: `Load` clears the
code window and runs `sim_reset`, which reports a machine whose memory is still
the old one; `LoadMem` reads the file and keeps the copy; `simResetAll` runs
`sim_reset` again, which puts an F at the line of the pc fetched before the
reset; `PutBack` restores the memory; `ClearLabels` takes the F away.
`LateWriteback` is what stepping past an exception does: the excepting
instruction's own registers are written. The CPI window, and `setSimMode`, which
no simulator code reads, are left out. `Cleared` is the registers that
`clearReg` blanks: the others keep their text over a reset, and
`DisplayCurrent` says of them that the text is the value or the value is a 0.
`FilesAssumption` says that a file holds words.

`MemDisplay` has the memory as bytes, since a store that is not aligned changes
two cells; the window's range grows in both directions in whole rows.

### YasEncode, Yas

A file is a sequence of lines, a line its tokens and how the lexer leaves it: at
a newline, at a character no rule matches, or at the end of the file; and whether
it fits in the buffers. A token that `strbuf` has no room for is left out and makes
the line wrong ("refused"); but nothing keeps a line from going past the end of
`input_line`, a thirteenth token past that of `tokens`, or a label past that of
`symbol_table`. There `Overrun` ends the run with the status "undefined", of which
nothing is promised. One action
is one path through `finish_line`. The lexer's start condition survives from the
first pass to the second, as flex keeps it, so a file that ends in the error
state loses a line. `YasEncode` has the instruction table, the encodings, and
the fetch of an instruction from bytes. Tokens behind a complete statement are
ignored, as in the code, and both parts of a memory operand are optional: what
`FetchRecoversSource` expects of a line (`Fits`) is what the code takes for one. A
number is any integer, and a byte of it (`Byte`) is exact for every one; an address
and an alignment are ints, to which `ToInt` cuts the number (`yas.c:357`, 367: for
`.align 4294967296` that is 0, an error) and wraps a sum; `AlignUp` divides as C does. After assembly `load_mem` reads the result into memory. Verilog
output (`-V`) is left out.

### Hcl, CExpr

A `node_ptr` is the chain of nodes it points to along `next`, so a set and a
list of cases are sequences, and `NULL` is the empty one: the two uses of
`next` are the code's. Each statement that `yyparse` reduces is a step; trees
are built bottom-up with the type checks of `make_*`, and `gen_expr` yields the
tokens of the C expression. `CExpr` evaluates such tokens by C's grammar and
precedences and knows nothing of HCL. Quoted C text (`insert_code`), the layout
of lines and the Verilog and UCLID builds are left out.

### Bits, Arith, Btest

`Bits` has the puzzles of `bits.c` and the functions of `tests.c` on words of
`W` bits, floats with an exponent of `EXP` bits. Arithmetic wraps, as in the
builds without overflow traps. `Btest` is the process: options, values,
`sigsetjmp`, alarm, verdict, score. An alarm is an action that may come at any
time while one is pending; `envbuf` names the puzzle its jump would return to.
`Arith` is Project 1 as operators.

### Kernels, Bench

`Kernels` translates the loops of each kernel, unrolled, blocked and prefetching,
with the lengths as constants, so that short arrays have a body and a tail.
Floats are integers and a quotient is `\div`: what is compared is which elements
a loop reads, writes and accumulates, not its rounding. `Bench` is
`run_benchmark`: naive calls, student's calls, one more naive call, check. The two
OpenMP loops run there element by element, with a load and a store of `C` as
separate steps of a thread. black-scholes and image_proc are rounding only; the
verdict of their check is a choice.

## 3. Runs

| Run | Instance | Question |
|---|---|---|
| `pipe_isa` | `pipe-full`: 48 001 programs of five words, 5-bit words, 3 registers; each other design: 14 337 programs of five or six words | does PIPE execute the ISA's instructions, once and in order, up to the hazards a design leaves open, and never stall for ever |
| `psim_check` | 2 744 programs, limit 11 | does a `-t` run end, agree, and count |
| `seq_isa` | 8 000 programs for each of three designs, limit 8 | does each call of `sim_step` execute one instruction |
| `gui` | three object files, two nested `simGo` | whatever is pressed, is the machine the ISA and do the windows show it |
| `mem_display` | 64 bytes, three stores and resets | does the memory window show memory |
| `yas` | files of up to four lines from a pool of 40 | is what it accepts right, and what it loads the source |
| `hcl` | 22 074 files of three declarations and two definitions | is what it accepts well-typed, and the C code the source |
| `cache` | six hierarchies, every trace of five accesses | is it a memory; do the policies and counters do what they say |
| `sched` | every listing of at most four of eight lines, three policies, by `schedule` or by `scheduleFast` | is the graph right, is it respected, does the loop end, is the queue the scan |
| `btest` | twelve puzzles and two bad ones, ten command lines, 8-bit words | does it end, judge each puzzle, in order and rightly, and count no points twice |
| `bench` | twelve blocks, arrays of up to 14 elements, three calls each, two threads | is every result the naive one, every element one thread's, the mean deserved |
| `find_scale2` | `floatScale2` alone | a puzzle that passes and is wrong |

### What the properties say

* `ImplementsISA` (PIPE) and `SeqImplementsISA`: every step of the processor
  maps to one ISA step or to none. `StagesFollowProgram` and `OperandsCurrent`
  are what the first rests on: the stages hold the predicted path as memory has
  it, what may be wrong is squashed, bubbles are no-ops, and the instruction in
  execute has the operands that those ahead of it leave.
* `NoPipeError`: no register is told to stall and bubble at once.
* `CheckSucceeds`, `RunLeavesPrefix`, `Terminates`: a run of psim that finishes
  passes its own check and reports the CPI of the program; one the limit cuts
  leaves registers and memory the program really goes through; both loops end.
  The first two promise nothing after a store to a fetched instruction.
* `SessionIsISA`: between commands the program's state moves by whole ISA
  instructions, with `simGo` nested or not; a step may also be the two deviations
  named above. A Load or Reset ends on the machine that has not run yet, over the
  image of the last load. `DisplayCurrent` and `WritesShown`: nothing on the
  screen is stale, the stage letters after each command and the rest at any time. `ExceptionEndsGo`: an
  exception ends every loop in progress once no more are started.
* `PassesAgree`: pass 2 comes to each line with pass 1's address.
  `FetchRecoversSource`: in the loaded memory, fetching at the address of a line
  gives that line's instruction and operands. `ErrorsExact`: unless a buffer was
  overrun, yas reports success exactly for files whose lines are all right; and, of `hcl2c`, for files that
  are well typed. `GeneratedMeansSource`: the C text, read with C's precedences,
  has the value the HCL expression has.
* `ScoreExact`, `VerdictsRight`, `Termination` of btest: the selected puzzles
  are judged in order, each at least once, and again only if an alarm comes back
  to it after its verdict; no puzzle earns its points twice, and the points to be
  had are those of the puzzles unless an alarm came late. `cause`, a history
  variable, tells why a puzzle failed: a late alarm (`stray`) from its own. What
  passes is right on every word, and no puzzle of `bits.c` ever fails for an
  answer; endless puzzles are all stopped. `ArithExact`: Project 1
  computes what C does.
* `ResultsExact`, `TeamsDisjoint`, `VerdictExact`: the student's output is the
  naive one's after any number of calls on the same buffers; no two threads work
  on an element at a time; a mean is printed exactly for a run without failures.
* `BehavesAsMemory` (a refinement of `Store`), `LinesConsistent`: no access is
  answered with another block's data, whatever is evicted, written back or
  prefetched, and in what order. `LRUKeepsRecent` and `PrefetchSparesDemand` are
  the promise of the policy, `Accounting` relates the printed counters of the
  levels to each other.
* `DagExact`: the single pass finds exactly the edges the detectors define.
  `CountsExact`, `DependenciesRespected`, `StallHasCause`: the loop's
  bookkeeping is right, nothing is issued early, nothing is waited for in vain.
  `SemanticsPreserved` goes past the graph: in the schedule every line reads
  what it read in the program. `SimulationAgrees` bounds the starts
  of the simulator that judges it: none is later than `schedule` issued the
  instruction (some are earlier, since `simulateExecution` may start several at
  once), and neither order of the lines ends before the critical path.
* `QueueExact`, `SameAsSchedule`: the queue is the scan.

### Finding

`find_scale2`: `floatScale2` gives a NaN for floats with the largest finite
exponent and a fraction, where `2*f` is infinite; the values `gen_vals` tries miss
all of them (`bits.c:287`, `btest.c:144`).

### Disagreements met while modelling

Places where the code does not do what its text says, or what a reader would
expect. No run is about them now; the models follow the code in each case
unless it says otherwise.

* `sim_run_pipe` returns cycles where its comment says instructions
  (`psim.c:751`): `gen_Stat` has turned bubbles into `STAT_AOK` before line 762
  tests for them, so the limit counts cycles too.
* A load or store without a base register, right behind an instruction that
  writes nothing through the E port, takes that instruction's ALU output as its
  base: `RNONE = RNONE` forwards (`pipe-full.hcl:229`). `PipeISA` leaves such
  encodings out (`WellEncoded`).
* `psim -t` fails on a program that stores into instructions the pipeline has
  already fetched: a push over a `nop` two instructions ahead is enough, the ISA
  stops there and PIPE one instruction later (`psim.c:1397`). `CheckSucceeds` is
  stated for the other programs.
* Stopped by its limit, SEQ has not written back its last instruction, although
  `max_instr` instructions are to "have completed through WB" (`ssim.c:787`).
* With a number of cache sets that is no power of two, index and tag do not
  identify a block (`memory_hierarchy.cpp:52`; lines 105-106 ask for code that
  works for any number of sets). A size below `block_size * associativity` makes
  no set at all.
* Registers are compared by spelling, so `x5` and `t0` do not depend on each
  other (`DAGBuilder.cpp:42`).
* `yas` takes `rmmovq %rax,` and `mrmovq ,%rax`: both parts of a memory operand
  are optional (`yas.c:262`), which its comment does not list (247-252). The
  length of a line is tested with `tpos`, which is 0 while a line is read (450),
  and `add_symbol` does not test `symbol_cnt` (509). `.pos` takes a negative number,
  and what follows is written at an address that `load_mem` reads as another
  one: such lines are outside `FetchRecoversSource`.
* After a store misaligned by 4 to 7, `set_memory` gets two addresses that name
  no cell, and the memory window keeps the old words (`psim.c:630`).
* `clearReg` of `pipe.tcl` blanks eight registers of fifteen.
* A case expression inside an HCL set is miscompiled or crashes `hcl2c`, since
  sets and cases chain their nodes by the same field (`node.c:569`); `make_ele`
  checks the left operand twice and the elements never (305); numbers are
  printed past `print_token`'s column count (`outgen.c:34`).
* An alarm of btest that comes after its puzzle has returned jumps into a frame
  that is gone: the next puzzle is charged, or the one before is judged a second time,
  and its points to be had counted twice (`btest.c:357`); it never gains any. `get_num_val` tests
  `!*valp` where the copies in `fshow.c` and `ishow.c` test `valp` (496).
* The tolerance of `graph_check` is relative to the sum of all targets, about
  four million for the graph of `run_all`, so an output that leaves out a few
  edges passes (`graph.cpp:127`).

### Bounds, and why they are enough

* Words of 5 bits have positive and negative values, overflow in both directions
  and addresses on both sides of memory's end. Nine words of memory hold the
  program and a stack that runs into it. Programs of five words fill the
  pipeline; three registers, one the stack pointer, give every pair of sources
  and destinations. The encodings have every instruction class and every hazard:
  load/use, mispredicted branch, `ret`, both `ret` and load/use, `popq %rsp`,
  exceptions in fetch and memory. Data and control programs are checked as two
  families to keep the number of programs down. The other designs run programs
  of six words padded with `nop`, since `pipe-nobypass` and `pipe-broken` need
  three instructions between a write and a read.
* `gui`: `MaxGo` = 2 nests one `simGo` in another; the three files overwrite
  their own data and fault with writes outstanding, run into what the file
  before has left, and loop. `Cleared` leaves out `rcx`, which plays one of
  `%r8` to `%r14`. Sessions are
  not bounded otherwise.
* `mem_display`: `MemSize` = 64 is four rows of the window, `MaxWrites` = 3
  makes it grow twice in either direction; `Offsets` 0 to 3 leaves out the
  stores of the disagreement above.
* `yas`: `Short` = 16 and `Limit` = 64 stand for 0x1000 and 0x10000, so that a
  file of three lines crosses both; `MemLen` = 40 holds the longest code.
  `IntHalf` = 128 makes an int of eight bits: `.pos 260` is 4, `.align 256` an error,
  and 60 rounded up to 100 wraps. `TOK_PER_LINE` = 12 is the source's, and overrun by a
  cut line with the next; `STAB` = 3 is overrun by a fourth label. Files
  are all of up to two lines, of three lines that are right or odd, of three
  that start with two wrong ones, and of four right ones.
* `hcl`: `SYM_LIM` = 3 is met by the declarations, `ERRLIM` = 5 by the errors of
  two definitions; `Words` {0, 1, 2} tell comparisons apart; two operators
  nested in any order show a missing parenthesis.
* `btest`: `W` = 8 and `EXP` = 4 have every case of the puzzles (the special
  exponents, rounding, the ends of the range); `TEST_RANGE` = 4 leaves most
  words untried, as the real 500 000 does; `MAX_TEST_VALS` = 52 is what its
  comment wants. Second and third arguments of `VerdictsRight` are tried at the
  edges. Project 1 runs on all pairs of 4-bit words; dividing by zero is left
  out, being undefined.
* `bench`: `RELU_STEP` = 3, `WORD_BYTES` = 2, `WORDS_STEP` = 3, `PREFETCH_DIS` =
  2, `WINDOW` = `SEGMENT` = 4 and `BLOCK` = `SUBBLOCK` = 2 put every size from
  no full turn to several turns and a tail into arrays of 14; `K_BEST` = 3 calls
  see a buffer fresh, used, and used again; `TIMES` {0, 3} have a measurement
  that rounds to zero. The generator of the trace is taken modulo 2^16 and its
  total modulo 2^15.
* Five accesses over three blocks of one set, at one constant stride, evict in
  both levels, write back, train the stride prefetcher and hit a prefetched
  line. `Throttle` is 2 in place of 32, so that BIP takes both branches;
  `AddrSpace` is 64 in place of 2^64, so that a negative stride wraps.
* Four lines out of eight give each kind of dependency, chains of them, ties
  under each policy, results that arrive in the same cycle, and all four
  latencies. `MaxCycles` is 60 and never reached: four lines wait at most 40
  cycles.

Deadlock is not checked where the program may stop, which is in every run: each
of these programs ends, or, in `gui` and `mem_display`, waits for the user.

### Fairness

All programs with a liveness property are sequential: as long as a loop's
condition holds its body runs. Weak fairness of the whole next-state relation
says exactly that, and nothing about which of several enabled actions is taken;
the actions of one module are mutually exclusive. It is assumed in `IFairSpec`,
`PsimFairSpec` and the specifications of the scheduler (`EitherSpec`). `GuiSpec`
has weak fairness of `Finish \/ GoCycle \/ GoReturn` only: a command goes on to its
end, and Tcl returns to a `simGo` whose `update` finds no event, but nobody has to press a button, and `ExceptionEndsGo`
supposes that nested calls stop being added. `Btest` has weak fairness of the
process and of `Timeout`, as the kernel delivers an alarm to a process that
waits; not of the late alarm, which may be replaced. The other modules are
checked for safety only and state none.

## 4. Proofs

Proved by TLAPS for every word width, memory size, register file, decoding
function, program and set of files (`WordAssumption`, `RegAssumption`,
`DecodeAssumption`, `CodesAssumption`, `FilesAssumption`); in the scheduler for
every set of register names, listing and sequence of policies
(`NamesAssumption`, `ProgramsAssumption`, `SchedulerAssumption`); for every file
that `yas` can read, every size of memory, of an int and of the buffers, and every bound
on the addresses it writes (`SourcesAssumption`, `SizesAssumption`); for every instruction limit of psim
(`LimitAssumption`); for every command line, trace and
address space of the caches (`CommandLineAssumption`, `AddressAssumption`); and
for every memory of whole rows behind the memory window (`SizeAssumption`,
`OffsetsAssumption`):

| Theorem | Statement |
|---|---|
| `OverflowExact`, `SignedCompare` (`Y86Proof`) | the overflow flag of an addition and a subtraction is set exactly when the true result is no word; after a subtraction the conditions compare signed numbers |
| `TypeCorrect`, `ControlConsistent` (`PipeProof`) | PIPE, with any of its HCL files, keeps its types; no stage is ever told to stall and bubble, and none is marked `STAT_PIP` |
| `StagesAlwaysFollow`, `OperandsAlwaysCurrent` (`PipeProof`) | the stages hold the predicted path as memory has it, and the instruction in execute has the operands that those ahead of it leave |
| `PipeRefinesISA` (`PipeProof`) | every cycle of PIPE is one step of the ISA or none (or a named deviation), for each of its HCL files and every program in `WellEncoded` |
| `SessionRefinesISA`, `DisplayAlwaysCurrent` (`PipeProof`) | the same of a whole session of the GUI, nested `simGo`s, resets, loads and steps past an exception included; and what is on screen is the machine as it stands, even in the middle of a reset or load but for the stage letters |
| `CheckAlwaysSucceeds` (`PipeProof`) | `psim -t`: a run that an exception ends within the limit leaves the registers, memory, condition codes and status (but for `%rsp` at a bad stack address) that the ISA leaves after as many steps as the CPI line reports instructions |
| `SeqTypeCorrect`, `SeqRefinesISA` (`SeqProof`) | SEQ and SEQ+, with and without `iaddq`, keep their types; every step is one step of the ISA (or `MissingIaddq`), for programs whose instructions name the registers they use |
| `SchedulerTypeCorrect`, `GraphIsExact`, `CountersExact`, `ScheduleRespectsDependencies`, `NoIdleStall` (`SchedulerProof`) | the properties of those names in run `sched` |
| `CriticalPathExact` (`SchedulerProof`) | the recursion of `computeCriticalPath` ends and gives the longest chain |
| `SchedulePreservesSemantics` (`SchedulerProof`) | in every schedule of a listing in `ProgramsReadable` each line reads what it read in the program, and each register ends as it did |
| `SimulationAlwaysAgrees` (`SchedulerProof`) | the simulator that judges a schedule starts every instruction no later than `schedule` issued it, and neither the schedule nor the original order finishes before the longest chain has |
| `QueueIsScan`, `FastImplementsSchedule` (`SchedulerProof`) | the queue is always the set of ready nodes; every step of `scheduleFast` is a step of `schedule` |
| `CacheTypes`, `CacheLinesConsistent`, `CacheBehavesAsMemory` (`CacheProof`) | for every command line in `ExactGeometry`: the types; one copy of a block in a level, clean ones equal to what lies below; and the hierarchy implements `Store` |
| `CacheAccounting`, `CachePrefetchSpares`, `CacheKeepsRecent` (`CacheProof`) | for every command line in `ExactGeometry`: the printed figures add up; under LRU with two ways or more no prefetch pushes out the block just demanded; LRU without prefetching keeps of each set the `assoc` blocks used last |
| `WritesAlwaysShown` (`MemDisplayProof`) | the memory window shows every store at an offset of 0 to 3 in its word, however it has grown |
| `PassesAgreeAlways` (`YasProof`) | without an error, pass 2 reaches each line with the address of pass 1 |
| `LineEncodes` (`YasProof`) | for every line of tokens: a statement that the code takes is encoded as `step_state` reads it back; every other line fails |
| `ErrorsAlwaysExact` (`YasProof`) | when it returns without a buffer overrun, yas reports success exactly when every line is right, and in pass 2 at an address it can write |
| `FetchAlwaysRecovers` (`YasProof`) | after `load_mem` the simulators fetch at the address of each line what it says, unless a later line was put over it |

**Hypotheses.** Some theorems have a condition that is no assumption of a
module. Each of the five is needed, and says where the code stops promising anything:

* `WellEncoded` (`PipeRefinesISA`, `SessionRefinesISA`): memory operands have a
  base register, and operations have both registers. Without it decode forwards
  from an instruction that writes nothing (see the disagreements above).
  `NamesRegisters`, its first conjunct, is the whole
  condition for SEQ, which forwards nothing.
* `WellEncoded` again, and `IaddqBuilt` (`CheckAlwaysSucceeds`): the second says
  that a program with `iaddq` runs on a design that has it, since the ISA goes on
  where the other designs stop.
* `ProgramsReadable` (`SchedulePreservesSemantics`): a line has the operands of
  its form, and a listing spells a register in one way. The parser looks for a
  register only where the form has one, and compares spellings.
* `ExactGeometry` (the cache): blocks and sets are powers of two, and masks and
  ors of the addresses in use are remainders and sums. `main` checks neither;
  with three sets two blocks share a tag.
* `Offsets \subseteq 0 .. 3` (`WritesAlwaysShown`): `set_memory` loses stores at
  offsets 4 to 7.

All but the last are `ASSUME`d in the MC modules, where TLC evaluates them for the
instances it runs; `MCMemDisplay.cfg` gives `Offsets` the value 0 to 3.

**PIPE.** *The types* are inductive once every signal is shown to carry a word;
one lemma per stage. *The refinement* needs to know what the stages hold.
`IInv` (`PipeProof`) is `TypeOK`, that no stage is marked `STAT_PIP`,
`StagesFollowProgram` and `OperandsCurrent`, and each part is there for another:
bubbles are no-ops, so a squashed stage leaves no trace; a stage with a fetch
fault writes nothing, so it can be held back until it reaches W;
`SpeculationSquashed` says that behind a `ret`, or a branch that turns out
otherwise, there are only bubbles or what the next cycle squashes;
`InstructionsCurrent` says each stage holds what memory now has at its pc, which
`smc` gives up at the first store to a fetched address; `ProgramOrder` says each
stage is the successor of the one ahead, so that a commit moves the mapped pc to
the right place; `CcPending` and `WritePorts` say what a register will hold when
those ahead have written. `OperandsCurrent` is the forwarding logic: it is kept
because decode takes the youngest producer, and a load in execute makes decode
wait. `StepShape` turns a cycle without exception into equations for the
pipeline registers. Every conjunct has its own lemma, and
the refinement one lemma per class of instruction entering memory
(`Enters`), cycles that commit nothing being stutters (`Retires`).

*A session.* Stepping past an exception breaks `IInv`: the excepting
instruction's registers are written, though it never commits. `SessionInv`
therefore is `IInv` until an exception is in W, and `Frozen` from then on, where
W keeps its content, M is empty and nothing else can be written. Reset and load
come back to a state that satisfies `IInv` whatever was there before; this is
where `sim_reset`'s clearing of every register and stage is needed. Between the
steps of a command the machine is `Fresh`, and before the last one it has the
image of the last load, so that a command ends on `Restarted`.
`DisplayAlwaysCurrent` needs the types, and `Fresh` where the memory is replaced
after the report: what the windows show of a fresh machine does not depend on it
(`FreshReport`).

**psim's own check.** The ISA replays the program when the pipeline has long
finished, so the invariant (`PsimInv`) speaks of runs: `Runs(s, n, t)` says that `n`
steps of `step_state` lead from `s` to `t`. While the pipeline runs, as many steps
as it has committed lead from the loaded state to the mapped one (`Exact`): each
case of the refinement says whether a cycle commits, which a refinement up to
stuttering does not (`jmp` to itself changes nothing and counts). Afterwards the
steps that are left lead to the same state (`Replays`), because `step_state` is a
function of the state (`Exec`, which both instances of `ISA` are shown to be). Near
the limit writes are suppressed. `LimitedCycle` shows that this changes nothing,
an instruction at fault having nothing to write; or that an operation has lost its
condition codes two cycles before the end; or that it is the last cycle and what
reaches write-back is not at fault. In the last two cases the run ends without an
exception (`Cut`). Instructions retired are at most the cycles counted, so the
limit that let the pipeline finish lets the ISA finish.

**SEQ's refinement** needs no invariant beyond
the types: one lemma per instruction shows that the datapath computes what
`step_state` does, and the step theorem maps each call of `sim_step` to one of
them.

**The scheduler.** `DependenciesRespected` alone is not
inductive: a node is issued because a counter is 0, so the counters must be
exact; they are decremented when a result arrives, so `inflight` must be exactly
what was issued and is not due; and edges must lead forward, which is the
exactness of the graph. `IInv` in `SchedulerProof` is the conjunction of these.
A turn with an issue and a turn without one are both a `Turn(new)` for a set
`new` of at most one node, so each part is proved once. `NoIdleStall` takes the
least node that is left: everything before it has been issued, so what holds it
back is a result in flight. `CriticalPathExact` solves the recursive equation
from the last node to the first and uses least counterexamples in place of
induction. `FastImplementsSchedule` shows that a counter which reaches 0 belongs
to a node not yet issued, so pushing on zero keeps the queue equal to the scan,
and that the queue's comparator and `selectBestNode` rank alike.

`SemanticsPreserved` is about the emitted list, of which `IInv` says little.
`OrderInv` adds that the list has each issued node once and in the order of the
cycles of issue. The graph links a write only to the uses up to the next write;
`WritersOrdered` and the lemmas after it show that this is enough: any two uses
of a register of which one is a write are ordered, over a least counterexample
to the chain of writes between them. Then the last writer before a reader is the
same line in both orders. `SimulationAgrees` compares two recursions: the
simulator's start of the `k`-th instruction is the maximum over its predecessors
in the list, each of which `schedule` waited for too. Its second half, that neither
the schedule nor the original order beats the critical path, follows a longest
chain through the simulator's starts.

**The cache.** `CacheLevelProof` is about one level over a next level that keeps
a contract (`NextContract`): an access answers with the data of the block,
applies the patch to this block and to no other, keeps the next level's own
invariant, and touches no field of the level above. `LevelInv` is that invariant
for the level itself: the types, no tag twice in a set, and clean lines equal to
what the next level would answer. The central lemma shows that an access to
the level then keeps the same contract for the level above: a fill with its
write-back, a hit, and each prefetch change the lines and the next level, but the
data that a read of any address would get only by the patch. A
write-back goes to the address of the victim, where `reconstruct_addr` must undo
`get_index` and `get_tag`; that is where `ExactGeometry` comes in. `CacheProof`
shows the contract of the memory, instantiates the level for L2 and again for L1
(over L2 or, without `--enable-l2`, over the memory), and reads types and
consistency off `LevelInv` of both; the step of the refinement is the contract
of L1.

*What the levels count and keep* is proved on top of that. `CountContract` is a
second contract of the next level: a call counts once there, takes one of the
times in `nextLat`, and keeps `nextOk`. `AccessEffect` says what an access does
to its own level: a hit or a fill in one way of one set, then at most two
prefetches, each of which is nothing or one more fill. From it a level keeps the
same contract for the level above.
`AccInv` adds to `Accounting` what makes it inductive: a dirty line is a write
not yet written back, so write-backs and dirty lines together are bounded by the
writes; the calls below that are neither misses nor write-backs are among the
prefetches issued; and the cycles lie between the misses times the `least` and
times the `most` that one costs. `PrefetchSparesDemand` needs no invariant of its
own but `LevelInv`, by which no line carries a time yet to come: after the
demand its line alone carries the present time, a prefetch takes the line with
the least, which in a set of two ways or more is another one. A second prefetch
would meet two lines with the present time; when there is one, it is for the same
block and finds it. `RecInv` is the invariant
behind `LRUKeepsRecent`: each valid line of L1 carries the time of the last use
of its block in the trace, and a block that was used and is gone is older than
every line of its set. The property counts blocks where `RecInv` speaks of ways;
injections between the two close the gap.

**The memory window.** `WritesShown` is kept because the window's range only grows,
in whole rows, and covers the cell written; a store that is not aligned
changes two cells, and with an offset of 3 at most, the two addresses that
`update_state` rounds to are theirs. `DisplayInv` says that the cells are
exactly those of the range and that all show the memory; `ShowsBut` is the same
in the middle of an update, all cells but those still to be rewritten.

**yas.** *The two passes agree* because a line read with empty buffers moves the
address by an amount (`After`) that only its tokens and the address before it
determine. `PassesAgree` says nothing of what is left in the buffers, so it is
not inductive: `YasInv` adds that as long as there was no error no line starts
with tokens or in the lexer's error state, that pass 1 has left a chain of
addresses each obtained by `After`, and that pass 2 walks along the whole chain.

*One line* (`LineEncodes`) goes by the classes of the instruction table:
operations and moves, transfers, stack, immediate, memory, without operand, and
data. For each class the operands are walked through as the code does, with the
ten bytes that each leaves, and a walk fails exactly where no shape of the table
fits. The attempt to prove this showed an earlier statement of `Fits` to be wrong
for lines that were not in the pool of the run, such as `rmmovq %rcx, 4 %rbx`,
which the code takes.

*Errors* (`ErrorInv`): the symbol table holds the labels of the lines read so far,
each at the address of its first line; the buffers and the lexer's state are those
that the previous line leaves; and so far an error was reported exactly if a line
so far is wrong. A line refused for its length was found by pass 1, so pass 2 meets
none, even where it begins in the lexer's error state. The error of a label comes only in pass 2, the one of an address
only when the line is written, which is why `GoodAddress` counts in pass 2 alone.

*Fetch* (`FetchInv`): without an error the output holds the bytes of every line of
code so far at the address of pass 1, in the order of the lines; while
`load_mem` reads it, the memory holds each line read so far wherever no later one
has been put over it (`LoadInv`). With `LineEncodes` the bytes mean the source.

**Only model-checked:** everything about liveness (`AlwaysRetires`,
`RunLeavesPrefix`, `Terminates`, `ExceptionEndsGo`, both `Termination`), since
fairness and `ENABLED` are out of the prover's reach, and with it the fairness
conjunct of `SameAsSchedule`. Of the safety properties, those of `hcl2c`, `btest`
and the kernels: `Hcl` and `CExpr` are recursive over expressions, and what they
promise would need induction over them; `Bits`, `Arith` and `Kernels` use `Bitwise`,
which no prover knows. Those, with `Btest` and `Bench` above them, stay with TLC.

## 5. Plan

The plan is carried out: every safety property of the processors, the GUI, the
assembler, the caches and the scheduler that a run checks is also a theorem. What
could follow is a proof of `ScoreExact` and `TeamsDisjoint`, for which the loops of
`Btest` and `Bench` would have to be separated from the puzzles and kernels they
call.

## 6. Not modelled

* Parsing of options and files, printing, and the wording of messages, in all
  programs, except where they are said above to be part of a model.
* `ssim`'s Tcl commands: the same code as psim's over a processor whose state is
  one instruction; nothing new could go wrong in them.
* Instructions that straddle the end of memory: `do_if_stage` wants `valp + 5`
  readable whatever the length (`psim.c:1403`). Memory is words in `Pipe`.
* `ptest` and the assembly programs, which are inputs of the simulators; Bomb
  Lab, Attack Lab, notes and reports, which are no source.
* Rounding in Project 5, `single_bench`, which times one kernel of the same
  harness, and what is printed; `fshow`, `ishow` and `driver.pl` of the Data
  Lab.
