----------------------------- MODULE DAGBuilder -----------------------------
(***************************************************************************)
(* The dependency graph of the code scheduler (Project3/src/DAGBuilder.cpp).*)
(* build visits the instructions once, in order, and keeps for every       *)
(* register its last writer and the readers since; each visit adds the     *)
(* edges that end in the visited instruction.  Instructions are numbered   *)
(* from 1.  An edge appears in the successors of one node and in the       *)
(* predecessors of the other; edges is the set of both lists, which is     *)
(* what the duplicate check of addEdge makes of them.                      *)
(***************************************************************************)
EXTENDS Parser

CONSTANT Programs  \* the programs given to runScheduler

ASSUME ProgramsAssumption == \A program \in Programs : program \in Seq(Line)

VARIABLES lines,         \* the program
          instructions,  \* what parse made of it
          visited,       \* instructions build has visited
          lastWriter,    \* register -> instruction, 0 where there is none
          readers,       \* register -> the instructions since the last write
          edges          \* [from, to, type, reg]

buildVars == <<lines, instructions, visited, lastWriter, readers, edges>>

N == Len(instructions)
DependencyType == {"RAW", "WAR", "WAW"}
edge(from, to, type, r) == [from |-> from, to |-> to, type |-> type, reg |-> r]

\* The keys of the two maps: every register an instruction names.
RegsOf(program) ==
  (UNION {program[i].srcs \cup {program[i].dest} : i \in DOMAIN program}) \ {NoReg}

BuildInit ==
  /\ lines \in Programs
  /\ instructions = parse(lines)
  /\ visited = 0
  /\ lastWriter = [r \in RegsOf(parse(lines)) |-> 0]
  /\ readers = [r \in RegsOf(parse(lines)) |-> {}]
  /\ edges = {}

\* The edges into instruction i, found before the maps take i in.
wawEdges(i) ==
  {edge(lastWriter[r], i, "WAW", r) :
     r \in {s \in DOMAIN lastWriter : s = instructions[i].dest /\ lastWriter[s] # 0}}
warEdges_none(i) == {}  \* mutant: no edges from readers
warEdges(i) ==
  UNION {{edge(j, i, "WAR", r) : j \in readers[r]} :
           r \in {s \in DOMAIN readers : s = instructions[i].dest}}
rawEdges(i) ==
  {edge(lastWriter[r], i, "RAW", r) :
     r \in {s \in instructions[i].srcs : lastWriter[s] # 0}}

\* Mutant: a write does not clear the readers of the register.
readersAfter_kept(i) ==
  [r \in DOMAIN readers |-> readers[r] \cup {j \in {i} : r \in instructions[i].srcs}]

\* Readers of the destination are cleared before the sources of i are noted.
readersAfter(i) ==
  [r \in DOMAIN readers |->
     (IF r = instructions[i].dest THEN {} ELSE readers[r])
       \cup {j \in {i} : r \in instructions[i].srcs}]

VisitInstruction ==
  LET i == visited + 1 IN
  /\ visited < N
  /\ edges' = edges \cup wawEdges(i) \cup warEdges(i) \cup rawEdges(i)
  /\ readers' = readersAfter(i)
  /\ lastWriter' = [r \in DOMAIN lastWriter |->
                      IF r = instructions[i].dest THEN i ELSE lastWriter[r]]
  /\ visited' = i
  /\ UNCHANGED <<lines, instructions>>

predecessors(v) == {e \in edges : e.to = v}
successors(u) == {e \in edges : e.from = u}

(***************************************************************************)
(* The three detectors build replaces, which look for one kind of          *)
(* dependency each; here as what they find among the first k instructions. *)
(***************************************************************************)
writes(i, r) == instructions[i].dest = r
reads(i, r) == r \in instructions[i].srcs

unwrittenBetween(i, j, r) ==
  i < j /\ \A m \in (i + 1) .. (j - 1) : ~writes(m, r)

\* An earlier and a later instruction and a register not written in between.
candidates(k) ==
  {t \in (1 .. k) \X (1 .. k) \X DOMAIN lastWriter : unwrittenBetween(t[1], t[2], t[3])}

detectRAW(k) ==
  {edge(t[1], t[2], "RAW", t[3]) :
     t \in {c \in candidates(k) : writes(c[1], c[3]) /\ reads(c[2], c[3])}}

detectWAR(k) ==
  {edge(t[1], t[2], "WAR", t[3]) :
     t \in {c \in candidates(k) : reads(c[1], c[3]) /\ writes(c[2], c[3])}}

detectWAW(k) ==
  {edge(t[1], t[2], "WAW", t[3]) :
     t \in {c \in candidates(k) : writes(c[1], c[3]) /\ writes(c[2], c[3])}}

BuildTypeOK ==
  /\ lines \in Programs
  /\ instructions = parse(lines) /\ instructions \in Seq(Instruction)
  /\ visited \in 0 .. N
  /\ lastWriter \in [RegsOf(instructions) -> 0 .. visited]
  /\ readers \in [RegsOf(instructions) -> SUBSET (1 .. visited)]
  /\ edges \subseteq [from : 1 .. visited, to : 1 .. visited,
                      type : DependencyType, reg : RegsOf(instructions)]

(* The single pass finds what the three detectors find: every instruction
   depends on the last writer of each of its sources, on the previous writer
   of its destination and on every reader in between, and on nothing else. *)
DagExact == edges = detectRAW(visited) \cup detectWAR(visited) \cup detectWAW(visited)
=============================================================================
