--------------------------- MODULE SchedulerProof ---------------------------
(***************************************************************************)
(* The scheduler, for every program and every sequence of policies.  The   *)
(* single pass of build is exact; the list scheduler respects the graph;   *)
(* scheduleFast is schedule; and a schedule is the same program, which the *)
(* simulator that judges it finds no slower than the scheduler did.        *)
(***************************************************************************)
EXTENDS FastScheduler, TLAPS, FiniteSetTheorems, WellFoundedInduction

(***************************************************************************)
(* The dependency graph: after k visits it has the dependencies among the  *)
(* first k instructions and no other.                                      *)
(***************************************************************************)
\* Parsing a line gives an instruction, whatever the opcode and the operands.
LEMMA LatencyType == ASSUME NEW opcode PROVE getInstructionLatency(opcode) \in Nat \ {0}
<1>1. CASE opcode \in {"mul", "mulh", "mulhsu", "mulhu", "mulw"}
  BY <1>1 DEF getInstructionLatency
<1>2. CASE /\ opcode \notin {"mul", "mulh", "mulhsu", "mulhu", "mulw"}
           /\ opcode \in {"div", "divu", "divw", "divuw", "rem", "remu", "remw", "remuw"}
  BY <1>2 DEF getInstructionLatency, isLoad
<1>3. CASE /\ opcode \notin {"mul", "mulh", "mulhsu", "mulhu", "mulw"}
           /\ opcode \notin {"div", "divu", "divw", "divuw", "rem", "remu", "remw", "remuw"}
  BY <1>3 DEF getInstructionLatency
<1> QED
  BY <1>1, <1>2, <1>3

LEMMA FirstType == ASSUME NEW line \in Line PROVE firstOf(line) \in Text
<1>1. line.ops \in Seq(Operand)
  BY DEF Line
<1>2. ASSUME Len(line.ops) >= 1 PROVE line.ops[1] \in Operand
  BY <1>1, <1>2
<1> QED
  BY <1>1, <1>2, NamesAssumption DEF firstOf, Operand

LEMMA FormType ==
    ASSUME NEW line, NEW arity, NEW dest \in Text, NEW srcs
    PROVE  form(line, arity, dest, srcs) \in Instruction
<1>1. NoReg \in Text
  BY NamesAssumption
<1> QED
  BY <1>1, LatencyType DEF form, Instruction, isRegister

LEMMA ParseLineType == ASSUME NEW line \in Line PROVE parseLine(line) \in Instruction
<1> DEFINE first == firstOf(line)
<1>1. first \in Text /\ NoReg \in Text
  BY FirstType, NamesAssumption
<1>2. \A arity, srcs : /\ form(line, arity, first, srcs) \in Instruction
                      /\ form(line, arity, NoReg, srcs) \in Instruction
  BY <1>1, FormType
<1> QED
  BY <1>2 DEF parseLine

\* The parsed program has an instruction per line.
LEMMA ParseType ==
    ASSUME NEW program \in Programs
    PROVE  /\ parse(program) \in Seq(Instruction)
           /\ Len(parse(program)) = Len(program)
           /\ DOMAIN parse(program) = DOMAIN program
<1>1. program \in Seq(Line)
  BY ProgramsAssumption
<1>2. \A i \in 1 .. Len(program) : parseLine(program[i]) \in Instruction
  BY <1>1, ParseLineType
<1>3. parse(program) = [i \in 1 .. Len(program) |-> parseLine(program[i])]
  BY <1>1 DEF parse
<1> QED
  BY <1>1, <1>2, <1>3

(***************************************************************************)
(* The maps: between the last writer of a register and the instruction to  *)
(* visit next nobody writes it, and its readers are those since then.      *)
(***************************************************************************)
lastWriterExact ==
  \A r \in DOMAIN lastWriter :
    /\ lastWriter[r] # 0 => writes(lastWriter[r], r)
    /\ \A m \in (lastWriter[r] + 1) .. visited : ~writes(m, r)

readersExact ==
  \A r \in DOMAIN readers :
    readers[r] = {j \in 1 .. visited :
                    reads(j, r) /\ \A m \in (j + 1) .. visited : ~writes(m, r)}

BuildInv ==
  /\ BuildTypeOK
  /\ lastWriterExact
  /\ readersExact
  /\ DagExact
  /\ IsFiniteSet(edges)

\* What an instruction names is a key of the maps.
LEMMA RegsNamed ==
    ASSUME BuildTypeOK, NEW i \in 1 .. N
    PROVE  /\ instructions[i] \in Instruction
           /\ instructions[i].srcs \subseteq RegsOf(instructions)
           /\ IsFiniteSet(instructions[i].srcs)
           /\ instructions[i].dest # NoReg => instructions[i].dest \in RegsOf(instructions)
           /\ NoReg \notin RegsOf(instructions)
<1>1. instructions[i] \in Instruction /\ i \in DOMAIN instructions
  BY DEF BuildTypeOK, N
<1>2. instructions[i].srcs \in SUBSET DOMAIN Names
  BY <1>1 DEF Instruction
<1>3. IsFiniteSet(instructions[i].srcs)
  BY <1>2, NamesAssumption, FS_Subset
<1>4. NoReg \notin instructions[i].srcs
  BY <1>2, NamesAssumption
<1> QED
  BY <1>1, <1>3, <1>4 DEF RegsOf

LEMMA DetectRAWStep ==
    ASSUME BuildTypeOK, lastWriterExact, visited < N
    PROVE  detectRAW(visited + 1) = detectRAW(visited) \cup rawEdges(visited + 1)
<1> DEFINE i == visited + 1
<1>0. visited \in Nat /\ i \in 1 .. N /\ N \in Nat
  BY DEF BuildTypeOK, N
<1>1. /\ DOMAIN lastWriter = RegsOf(instructions)
      /\ \A r \in DOMAIN lastWriter : lastWriter[r] \in 0 .. visited
      /\ instructions[i].srcs \subseteq DOMAIN lastWriter
  BY <1>0, RegsNamed DEF BuildTypeOK
<1>2. ASSUME NEW e \in detectRAW(i) PROVE e \in detectRAW(visited) \cup rawEdges(i)
  <2>1. PICK t \in candidates(i) : /\ e = edge(t[1], t[2], "RAW", t[3])
                                   /\ writes(t[1], t[3]) /\ reads(t[2], t[3])
    BY <1>2 DEF detectRAW
  <2>2. /\ t[1] \in 1 .. i /\ t[2] \in 1 .. i /\ t[3] \in DOMAIN lastWriter
        /\ t = <<t[1], t[2], t[3]>> /\ unwrittenBetween(t[1], t[2], t[3])
    BY <2>1 DEF candidates
  <2>3. CASE t[2] = i
    <3>1. lastWriter[t[3]] = t[1]
      BY <2>1, <2>2, <2>3, <1>0, <1>1 DEF lastWriterExact, unwrittenBetween
    <3> QED
      BY <2>1, <2>2, <2>3, <3>1, <1>0 DEF rawEdges, reads
  <2>4. CASE t[2] # i
    <3>1. t \in candidates(visited)
      BY <2>2, <2>4, <1>0 DEF candidates, unwrittenBetween
    <3> QED
      BY <2>1, <3>1 DEF detectRAW
  <2> QED
    BY <2>3, <2>4
<1>3. ASSUME NEW e \in detectRAW(visited) PROVE e \in detectRAW(i)
  <2>1. candidates(visited) \subseteq candidates(i)
    BY <1>0 DEF candidates
  <2> QED
    BY <1>3, <2>1 DEF detectRAW
<1>4. ASSUME NEW e \in rawEdges(i) PROVE e \in detectRAW(i)
  <2>1. PICK r \in instructions[i].srcs :
          lastWriter[r] # 0 /\ e = edge(lastWriter[r], i, "RAW", r)
    BY <1>4 DEF rawEdges
  <2>2. <<lastWriter[r], i, r>> \in candidates(i)
    BY <2>1, <1>0, <1>1 DEF candidates, unwrittenBetween, lastWriterExact
  <2>3. writes(lastWriter[r], r) /\ reads(i, r)
    BY <2>1, <1>1 DEF lastWriterExact, reads
  <2> QED
    BY <2>1, <2>2, <2>3 DEF detectRAW
<1> QED
  BY <1>2, <1>3, <1>4
LEMMA DetectWAWStep ==
    ASSUME BuildTypeOK, lastWriterExact, visited < N
    PROVE  detectWAW(visited + 1) = detectWAW(visited) \cup wawEdges(visited + 1)
<1> DEFINE i == visited + 1
<1>0. visited \in Nat /\ i \in 1 .. N /\ N \in Nat
  BY DEF BuildTypeOK, N
<1>1. /\ DOMAIN lastWriter = RegsOf(instructions)
      /\ \A r \in DOMAIN lastWriter : lastWriter[r] \in 0 .. visited
  BY DEF BuildTypeOK
<1>2. ASSUME NEW e \in detectWAW(i) PROVE e \in detectWAW(visited) \cup wawEdges(i)
  <2>1. PICK t \in candidates(i) : /\ e = edge(t[1], t[2], "WAW", t[3])
                                   /\ writes(t[1], t[3]) /\ writes(t[2], t[3])
    BY <1>2 DEF detectWAW
  <2>2. /\ t[1] \in 1 .. i /\ t[2] \in 1 .. i /\ t[3] \in DOMAIN lastWriter
        /\ t = <<t[1], t[2], t[3]>> /\ unwrittenBetween(t[1], t[2], t[3])
    BY <2>1 DEF candidates
  <2>3. CASE t[2] = i
    <3>1. lastWriter[t[3]] = t[1]
      BY <2>1, <2>2, <2>3, <1>0, <1>1 DEF lastWriterExact, unwrittenBetween
    <3> QED
      BY <2>1, <2>2, <2>3, <3>1, <1>0 DEF wawEdges, writes
  <2>4. CASE t[2] # i
    <3>1. t \in candidates(visited)
      BY <2>2, <2>4, <1>0 DEF candidates, unwrittenBetween
    <3> QED
      BY <2>1, <3>1 DEF detectWAW
  <2> QED
    BY <2>3, <2>4
<1>3. ASSUME NEW e \in detectWAW(visited) PROVE e \in detectWAW(i)
  <2>1. candidates(visited) \subseteq candidates(i)
    BY <1>0 DEF candidates
  <2> QED
    BY <1>3, <2>1 DEF detectWAW
<1>4. ASSUME NEW e \in wawEdges(i) PROVE e \in detectWAW(i)
  <2>1. PICK r \in DOMAIN lastWriter :
          r = instructions[i].dest /\ lastWriter[r] # 0 /\ e = edge(lastWriter[r], i, "WAW", r)
    BY <1>4 DEF wawEdges
  <2>2. <<lastWriter[r], i, r>> \in candidates(i)
    BY <2>1, <1>0, <1>1 DEF candidates, unwrittenBetween, lastWriterExact
  <2>3. writes(lastWriter[r], r) /\ writes(i, r)
    BY <2>1, <1>1 DEF lastWriterExact, writes
  <2> QED
    BY <2>1, <2>2, <2>3 DEF detectWAW
<1> QED
  BY <1>2, <1>3, <1>4
LEMMA DetectWARStep ==
    ASSUME BuildTypeOK, readersExact, visited < N
    PROVE  detectWAR(visited + 1) = detectWAR(visited) \cup warEdges(visited + 1)
<1> DEFINE i == visited + 1
<1>0. visited \in Nat /\ i \in 1 .. N /\ N \in Nat
  BY DEF BuildTypeOK, N
<1>1. /\ DOMAIN lastWriter = RegsOf(instructions)
      /\ DOMAIN readers = DOMAIN lastWriter
  BY DEF BuildTypeOK
<1>2. ASSUME NEW e \in detectWAR(i) PROVE e \in detectWAR(visited) \cup warEdges(i)
  <2>1. PICK t \in candidates(i) : /\ e = edge(t[1], t[2], "WAR", t[3])
                                   /\ reads(t[1], t[3]) /\ writes(t[2], t[3])
    BY <1>2 DEF detectWAR
  <2>2. /\ t[1] \in 1 .. i /\ t[2] \in 1 .. i /\ t[3] \in DOMAIN lastWriter
        /\ t = <<t[1], t[2], t[3]>> /\ unwrittenBetween(t[1], t[2], t[3])
    BY <2>1 DEF candidates
  <2>3. CASE t[2] = i
    <3>1. t[1] \in readers[t[3]]
      BY <2>1, <2>2, <2>3, <1>0, <1>1 DEF readersExact, unwrittenBetween
    <3> QED
      BY <2>1, <2>2, <2>3, <3>1, <1>0, <1>1 DEF warEdges, writes
  <2>4. CASE t[2] # i
    <3>1. t \in candidates(visited)
      BY <2>2, <2>4, <1>0 DEF candidates, unwrittenBetween
    <3> QED
      BY <2>1, <3>1 DEF detectWAR
  <2> QED
    BY <2>3, <2>4
<1>3. ASSUME NEW e \in detectWAR(visited) PROVE e \in detectWAR(i)
  <2>1. candidates(visited) \subseteq candidates(i)
    BY <1>0 DEF candidates
  <2> QED
    BY <1>3, <2>1 DEF detectWAR
<1>4. ASSUME NEW e \in warEdges(i) PROVE e \in detectWAR(i)
  <2>1. PICK r \in DOMAIN readers : r = instructions[i].dest
                                   /\ e \in {edge(j, i, "WAR", r) : j \in readers[r]}
    BY <1>4 DEF warEdges
  <2>2. PICK j \in readers[r] : e = edge(j, i, "WAR", r)
    BY <2>1
  <2>3. /\ j \in 1 .. visited /\ reads(j, r)
        /\ \A m \in (j + 1) .. visited : ~writes(m, r)
    BY <2>1, <2>2 DEF readersExact
  <2>4. <<j, i, r>> \in candidates(i) /\ writes(i, r)
    BY <2>1, <2>3, <1>0, <1>1 DEF candidates, unwrittenBetween, writes
  <2> QED
    BY <2>2, <2>3, <2>4 DEF detectWAR
<1> QED
  BY <1>2, <1>3, <1>4

\* The edges found by one visit are finitely many and end in the instruction.
LEMMA NewEdges ==
    ASSUME BuildTypeOK, visited < N
    PROVE  LET i == visited + 1
               new == wawEdges(i) \cup warEdges(i) \cup rawEdges(i)
           IN  /\ new \subseteq [from : 1 .. i, to : 1 .. i, type : DependencyType,
                                 reg : RegsOf(instructions)]
               /\ IsFiniteSet(new)
<1> DEFINE i == visited + 1
           E == [from : 1 .. i, to : 1 .. i, type : DependencyType,
                 reg : RegsOf(instructions)]
<1>0. visited \in Nat /\ i \in 1 .. N /\ N \in Nat
  BY DEF BuildTypeOK, N
<1>1. /\ DOMAIN lastWriter = RegsOf(instructions) /\ DOMAIN readers = RegsOf(instructions)
      /\ \A r \in RegsOf(instructions) : /\ lastWriter[r] \in 0 .. visited
                                         /\ readers[r] \subseteq 1 .. visited
      /\ instructions[i].srcs \subseteq RegsOf(instructions)
      /\ IsFiniteSet(instructions[i].srcs)
  BY <1>0, RegsNamed DEF BuildTypeOK
<1> DEFINE d == instructions[i].dest
<1>2. wawEdges(i) \subseteq E /\ IsFiniteSet(wawEdges(i))
  <2>1. wawEdges(i) \subseteq E
    BY <1>0, <1>1 DEF wawEdges, edge, DependencyType
  <2>2. wawEdges(i) \subseteq {edge(lastWriter[d], i, "WAW", d)}
    BY DEF wawEdges
  <2>3. IsFiniteSet({edge(lastWriter[d], i, "WAW", d)})
    BY FS_Singleton
  <2>4. IsFiniteSet(wawEdges(i))
    <3> HIDE DEF i, d
    <3> QED
      BY <2>2, <2>3, FS_Subset
  <2> QED
    BY <2>1, <2>4
<1>3. warEdges(i) \subseteq E /\ IsFiniteSet(warEdges(i))
  <2>1. warEdges(i) \subseteq E
    BY <1>0, <1>1 DEF warEdges, edge, DependencyType
  <2> DEFINE S == 1 .. visited
             f == [j \in S |-> edge(j, i, "WAR", d)]
             T == {f[j] : j \in S}
  <2>2. f \in Surjection(S, T)
    BY DEF Surjection
  <2>3. IsFiniteSet(T)
    <3> HIDE DEF f, T
    <3> QED
      BY <2>2, <1>0, FS_Interval, FS_Surjection
  <2>4. warEdges(i) \subseteq T
    BY <1>1 DEF warEdges
  <2> QED
    BY <2>1, <2>3, <2>4, FS_Subset
<1>4. rawEdges(i) \subseteq E /\ IsFiniteSet(rawEdges(i))
  <2>1. rawEdges(i) \subseteq E
    BY <1>0, <1>1 DEF rawEdges, edge, DependencyType
  <2> DEFINE S == instructions[i].srcs
             f == [r \in S |-> edge(lastWriter[r], i, "RAW", r)]
             T == {f[r] : r \in S}
  <2>2. f \in Surjection(S, T)
    BY DEF Surjection
  <2>3. IsFiniteSet(T)
    <3> HIDE DEF f, T, S
    <3> QED
      BY <2>2, <1>1, FS_Surjection DEF S
  <2>4. rawEdges(i) \subseteq T
    BY DEF rawEdges
  <2> QED
    BY <2>1, <2>3, <2>4, FS_Subset
<1> QED
  BY <1>2, <1>3, <1>4, FS_Union

\* The invariant holds before the first visit.
LEMMA BuildInitInv == ASSUME BuildInit PROVE BuildInv
<1>1. lines \in Programs /\ instructions = parse(lines)
  BY DEF BuildInit
<1>2. instructions \in Seq(Instruction) /\ N \in Nat
  BY <1>1, ParseType DEF N
<1>3. BuildTypeOK
  BY <1>1, <1>2 DEF BuildInit, BuildTypeOK
<1>4. lastWriterExact /\ readersExact
  BY DEF BuildInit, lastWriterExact, readersExact
<1>5. DagExact
  <2>1. candidates(visited) = {}
    BY DEF BuildInit, candidates
  <2> QED
    BY <2>1 DEF BuildInit, DagExact, detectRAW, detectWAR, detectWAW
<1> QED
  BY <1>3, <1>4, <1>5, FS_EmptySet DEF BuildInv, BuildInit

\* A visit keeps it.
LEMMA BuildStepInv == ASSUME BuildInv, VisitInstruction PROVE BuildInv'
<1> DEFINE i == visited + 1
           new == wawEdges(i) \cup warEdges(i) \cup rawEdges(i)
<1> USE DEF BuildInv
<1>0. /\ visited \in Nat /\ i \in 1 .. N /\ N \in Nat /\ visited < N
      /\ visited' = i /\ instructions' = instructions /\ lines' = lines
      /\ N' = N
  BY DEF BuildTypeOK, VisitInstruction, N
<1>1. /\ DOMAIN lastWriter = RegsOf(instructions) /\ DOMAIN readers = RegsOf(instructions)
      /\ \A r \in RegsOf(instructions) : /\ lastWriter[r] \in 0 .. visited
                                         /\ readers[r] \subseteq 1 .. visited
  BY DEF BuildTypeOK
<1>2. /\ lastWriter' = [r \in RegsOf(instructions) |->
                         IF r = instructions[i].dest THEN i ELSE lastWriter[r]]
      /\ readers' = [r \in RegsOf(instructions) |->
                       (IF r = instructions[i].dest THEN {} ELSE readers[r])
                         \cup {j \in {i} : r \in instructions[i].srcs}]
      /\ edges' = edges \cup new
  BY <1>0, <1>1 DEF VisitInstruction, readersAfter
<1>3. BuildTypeOK'
  <2>1. lastWriter' \in [RegsOf(instructions) -> 0 .. i]
    BY <1>0, <1>1, <1>2
  <2>2. readers' \in [RegsOf(instructions) -> SUBSET (1 .. i)]
    BY <1>0, <1>1, <1>2
  <2>3. edges' \subseteq [from : 1 .. i, to : 1 .. i, type : DependencyType,
                          reg : RegsOf(instructions)]
    <3>1. edges \subseteq [from : 1 .. i, to : 1 .. i, type : DependencyType,
                           reg : RegsOf(instructions)]
      BY <1>0 DEF BuildTypeOK
    <3> QED
      BY <3>1, <1>0, <1>2, NewEdges
  <2> QED
    BY <1>0, <2>1, <2>2, <2>3 DEF BuildTypeOK
<1>4. lastWriterExact'
  <2> SUFFICES ASSUME NEW r \in RegsOf(instructions)
               PROVE  /\ lastWriter'[r] # 0 => instructions[lastWriter'[r]].dest = r
                      /\ \A m \in (lastWriter'[r] + 1) .. i : instructions[m].dest # r
    BY <1>0, <1>2 DEF lastWriterExact, writes
  <2> QED
    BY <1>0, <1>1, <1>2 DEF lastWriterExact, writes
<1>5. readersExact'
  <2> SUFFICES ASSUME NEW r \in RegsOf(instructions)
               PROVE  readers'[r] =
                        {j \in 1 .. i : r \in instructions[j].srcs
                           /\ \A m \in (j + 1) .. i : instructions[m].dest # r}
    BY <1>0, <1>2 DEF readersExact, reads, writes
  <2>1. readers[r] = {j \in 1 .. visited : r \in instructions[j].srcs
                        /\ \A m \in (j + 1) .. visited : instructions[m].dest # r}
    BY <1>1 DEF readersExact, reads, writes
  <2> QED
    BY <1>0, <1>2, <2>1
<1>6. DagExact'
  <2>1. edges' = detectRAW(i) \cup detectWAR(i) \cup detectWAW(i)
    BY <1>0, <1>2, DetectRAWStep, DetectWARStep, DetectWAWStep DEF DagExact
  <2>2. candidates(visited)' = candidates(i)
    BY <1>0, <1>1, <1>2 DEF candidates, unwrittenBetween, writes
  <2>3. /\ detectRAW(visited)' = detectRAW(i) /\ detectWAR(visited)' = detectWAR(i)
        /\ detectWAW(visited)' = detectWAW(i)
    BY <2>2, <1>0 DEF detectRAW, detectWAR, detectWAW, writes, reads
  <2> QED
    BY <2>1, <2>3 DEF DagExact
<1>7. IsFiniteSet(edges')
  <2>1. IsFiniteSet(new)
    BY <1>0, NewEdges
  <2> QED
    BY <2>1, <1>2, FS_Union
<1> QED
  BY <1>3, <1>4, <1>5, <1>6, <1>7

\* So does a step that leaves the graph alone.
LEMMA BuildStutterInv == ASSUME BuildInv, UNCHANGED buildVars PROVE BuildInv'
BY DEF BuildInv, buildVars, BuildTypeOK, lastWriterExact, readersExact, DagExact,
       detectRAW, detectWAR, detectWAW, candidates, unwrittenBetween, writes, reads, N

\* Edges lead to later instructions.
LEMMA EdgesForward ==
    ASSUME BuildInv, NEW e \in edges
    PROVE  /\ e.from \in 1 .. visited /\ e.to \in 1 .. visited
           /\ e.from < e.to /\ e.type \in DependencyType
<1>1. PICK t \in candidates(visited) :
        \E type \in DependencyType : e = edge(t[1], t[2], type, t[3])
  BY DEF BuildInv, DagExact, detectRAW, detectWAR, detectWAW, DependencyType
<1> QED
  BY <1>1 DEF candidates, unwrittenBetween, edge

-----------------------------------------------------------------------------
(***************************************************************************)
(* The list scheduler respects the graph.                                  *)
(***************************************************************************)
finish(u) == schedule_cycle[u] + instructions[u].latency

\* inflight is what has been issued and is not due yet.
InflightExact ==
  inflight = {[op |-> u, t |-> finish(u)] : u \in {v \in scheduled : finish(v) > cycle}}

\* One instruction is issued in a cycle, and every one in an earlier cycle.
IssuedEarlier == \A u \in scheduled : schedule_cycle[u] \in 0 .. (cycle - 1)

\* order lists the scheduled nodes, each once.
OrderExact == /\ \A k \in DOMAIN order : order[k] \in scheduled
              /\ Cardinality(scheduled) = Len(order)

SchedInv == pc # "build" => InflightExact /\ IssuedEarlier /\ OrderExact

(* The inductive invariant: the graph is exact, and the three structures in
   which schedule keeps its past (the marks on the nodes, the results in
   flight and the counters) tell the same story. *)
IInv == /\ BuildInv
        /\ TypeOK
        /\ SchedInv
        /\ CountsExact
        /\ DependenciesRespected

-----------------------------------------------------------------------------
(***************************************************************************)
(* Counting.                                                               *)
(***************************************************************************)
LEMMA CountDifference ==
    ASSUME NEW S, IsFiniteSet(S), NEW T, T \subseteq S
    PROVE  /\ IsFiniteSet(T) /\ IsFiniteSet(S \ T)
           /\ Cardinality(T) \in Nat /\ Cardinality(S) \in Nat /\ Cardinality(S \ T) \in Nat
           /\ Cardinality(S \ T) = Cardinality(S) - Cardinality(T)
<1>1. IsFiniteSet(T) /\ IsFiniteSet(S \ T)
  BY FS_Subset, FS_Difference
<1>2. S \cap T = T
  OBVIOUS
<1> QED
  BY <1>1, <1>2, FS_Difference, FS_CardinalityType

\* The edges that still hold a node back.
held(v) == {e \in predecessors(v) : ~released(e)}

LEMMA HeldFinite ==
    ASSUME BuildInv, NEW v
    PROVE  /\ IsFiniteSet(held(v)) /\ Cardinality(held(v)) \in Nat
           /\ IsFiniteSet(predecessors(v)) /\ Cardinality(predecessors(v)) \in Nat
<1>1. held(v) \subseteq edges /\ predecessors(v) \subseteq edges
  BY DEF held, predecessors
<1>2. IsFiniteSet(edges)
  BY DEF BuildInv
<1> QED
  BY <1>1, <1>2, FS_Subset, FS_CardinalityType

LEMMA NodesType ==
    ASSUME BuildInv
    PROVE  /\ N \in Nat
           /\ \A u \in Nodes : /\ u \in 1 .. N
                               /\ instructions[u].latency \in Nat
                               /\ instructions[u].latency > 0
<1>1. instructions \in Seq(Instruction)
  BY DEF BuildInv, BuildTypeOK
<1>2. N \in Nat /\ \A u \in 1 .. N : instructions[u] \in Instruction
  BY <1>1 DEF N
<1> QED
  BY <1>2 DEF Nodes, Instruction

\* An instruction waits for its result from its issue until it is due.
LEMMA WaitingExact ==
    ASSUME IInv, pc # "build", NEW u
    PROVE  waiting(u) <=> u \in scheduled /\ finish(u) > cycle
<1>1. inflight = {[op |-> w, t |-> finish(w)] : w \in {v \in scheduled : finish(v) > cycle}}
  BY DEF IInv, SchedInv, InflightExact
<1>2. ASSUME waiting(u) PROVE u \in scheduled /\ finish(u) > cycle
  BY <1>1, <1>2 DEF waiting
<1>3. ASSUME u \in scheduled, finish(u) > cycle PROVE waiting(u)
  <2>1. [op |-> u, t |-> finish(u)] \in inflight
    BY <1>1, <1>3
  <2> QED
    BY <2>1 DEF waiting
<1> QED
  BY <1>2, <1>3

(***************************************************************************)
(* One turn of the loop.  A turn issues the nodes of some set, best alone  *)
(* or none, and lets the results arrive that are due at the next cycle.    *)
(***************************************************************************)
Turn(new) ==
  /\ pc = "schedule" /\ UNCHANGED <<buildVars, pc, policy, priority>>
  /\ cycle < MaxCycles /\ cycle' = cycle + 1
  /\ scheduled' = scheduled \cup new
  /\ schedule_cycle' = [u \in Nodes |-> IF u \in new THEN cycle ELSE schedule_cycle[u]]
  /\ LET flying == inflight \cup
             {[op |-> u, t |-> cycle + instructions[u].latency] : u \in new}
         landed == {f \in flying : f.t = cycle + 1}
     IN  /\ inflight' = flying \ landed
         /\ unscheduled_predecessors' =
              [v \in Nodes |->
                 (unscheduled_predecessors[v]
                    - Cardinality(edgesInto(v, new, {"WAR", "WAW"})))
                    - Cardinality(edgesInto(v, {f.op : f \in landed}, {"RAW"}))]

LEMMA NothingInto ==
    ASSUME NEW v, NEW types
    PROVE  Cardinality(edgesInto(v, {}, types)) = 0
<1>1. edgesInto(v, {}, types) = {}
  BY DEF edgesInto
<1> QED
  BY <1>1, FS_EmptySet

LEMMA IssueIsTurn ==
    ASSUME IInv, Issue
    PROVE  \E best \in getReadyNodes : /\ Turn({best})
                                       /\ order' = Append(order, best)
<1>1. PICK best \in selectBestNode(getReadyNodes) :
        /\ order' = Append(order, best)
        /\ scheduled' = scheduled \cup {best}
        /\ schedule_cycle' = [schedule_cycle EXCEPT ![best] = cycle]
        /\ Tick(issued(best),
                inflight \cup {[op |-> best, t |-> cycle + instructions[best].latency]})
  BY DEF Issue
<1>2. best \in getReadyNodes /\ best \in Nodes
  BY DEF selectBestNode, getReadyNodes
<1>3. schedule_cycle \in [Nodes -> -1 .. cycle]
  BY DEF IInv, TypeOK, Issue, running
<1>4. schedule_cycle' = [u \in Nodes |-> IF u \in {best} THEN cycle ELSE schedule_cycle[u]]
  BY <1>1, <1>2, <1>3
<1>5. {[op |-> best, t |-> cycle + instructions[best].latency]}
        = {[op |-> u, t |-> cycle + instructions[u].latency] : u \in {best}}
  OBVIOUS
<1>6. \A v \in Nodes : issued(best)[v] = unscheduled_predecessors[v]
                          - Cardinality(edgesInto(v, {best}, {"WAR", "WAW"}))
  BY DEF issued
<1> QED
  BY <1>1, <1>2, <1>4, <1>5, <1>6 DEF Turn, Tick, Issue, running

LEMMA StallIsTurn ==
    ASSUME IInv, Stall
    PROVE  Turn({}) /\ order' = order
<1>1. /\ schedule_cycle \in [Nodes -> -1 .. cycle]
      /\ unscheduled_predecessors \in [Nodes -> Nat]
  BY DEF IInv, TypeOK, Stall, running
<1>2. schedule_cycle' = [u \in Nodes |-> IF u \in {} THEN cycle ELSE schedule_cycle[u]]
  BY <1>1 DEF Stall
<1>3. inflight = inflight \cup
        {[op |-> u, t |-> cycle + instructions[u].latency] : u \in {}}
  OBVIOUS
<1>4. \A v \in Nodes : unscheduled_predecessors[v] =
        unscheduled_predecessors[v] - Cardinality(edgesInto(v, {}, {"WAR", "WAW"}))
  BY <1>1, NothingInto
<1> QED
  BY <1>2, <1>3, <1>4 DEF Turn, Tick, Stall, running

(***************************************************************************)
(* A turn that issues ready nodes keeps what the three structures say.     *)
(***************************************************************************)
Issuable(new) == /\ new \subseteq Nodes
                 /\ \A u \in new : u \notin scheduled /\ unscheduled_predecessors[u] = 0
                 /\ \A u, v \in new : u = v

LEMMA TurnTypes ==
    ASSUME IInv, NEW new, Turn(new), Issuable(new)
    PROVE  /\ \A u \in Nodes : /\ schedule_cycle[u] \in Int /\ schedule_cycle'[u] \in Int
                               /\ finish(u) \in Int /\ finish(u)' \in Int
                               /\ finish(u)' = IF u \in new THEN cycle + instructions[u].latency
                                              ELSE finish(u)
           /\ scheduled \subseteq Nodes /\ scheduled' \subseteq Nodes
           /\ cycle \in Nat /\ cycle' = cycle + 1
           /\ N' = N /\ Nodes' = Nodes
           /\ schedule_cycle' \in [Nodes -> -1 .. cycle]
<1>1. /\ schedule_cycle \in [Nodes -> -1 .. cycle] /\ cycle \in Nat
      /\ scheduled \subseteq Nodes
  BY SchedulerAssumption DEF IInv, TypeOK, Turn
<1>2. \A u \in Nodes : instructions[u].latency \in Nat
  BY NodesType DEF IInv
<1>3. instructions' = instructions /\ N' = N /\ Nodes' = Nodes
  BY DEF Turn, buildVars, N, Nodes
<1>4. schedule_cycle' \in [Nodes -> -1 .. cycle]
  BY <1>1 DEF Turn
<1> QED
  BY <1>1, <1>2, <1>3, <1>4 DEF Turn, Issuable, finish

LEMMA TurnInflight ==
    ASSUME IInv, NEW new, Turn(new), Issuable(new)
    PROVE  InflightExact' /\ IssuedEarlier'
<1>1. /\ inflight = {[op |-> w, t |-> finish(w)] : w \in {v \in scheduled : finish(v) > cycle}}
      /\ \A u \in scheduled : schedule_cycle[u] \in 0 .. (cycle - 1)
  BY DEF IInv, SchedInv, InflightExact, IssuedEarlier, Turn
<1> DEFINE flying == inflight \cup
             {[op |-> u, t |-> cycle + instructions[u].latency] : u \in new}
<1>2. inflight' = {f \in flying : f.t # cycle + 1}
  BY DEF Turn
<1>3. /\ \A u \in new : /\ u \in Nodes /\ u \notin scheduled
                        /\ instructions[u].latency \in Nat /\ instructions[u].latency > 0
      /\ scheduled' = scheduled \cup new
  BY NodesType DEF Issuable, Turn, IInv
<1>4. inflight' = {[op |-> w, t |-> finish(w)'] : w \in {v \in scheduled' : finish(v)' > cycle'}}
  <2>1. ASSUME NEW f \in inflight'
        PROVE  \E w \in scheduled' : finish(w)' > cycle' /\ f = [op |-> w, t |-> finish(w)']
    <3>1. f \in flying /\ f.t # cycle + 1
      BY <2>1, <1>2
    <3>2. CASE f \in inflight
      <4>1. PICK w \in scheduled : finish(w) > cycle /\ f = [op |-> w, t |-> finish(w)]
        BY <3>2, <1>1
      <4>2. w \notin new /\ finish(w)' = finish(w) /\ finish(w) \in Int
        BY <4>1, <1>3, TurnTypes
      <4> QED
        BY <4>1, <4>2, <3>1, <1>3, TurnTypes
    <3>3. CASE f \notin inflight
      <4>1. PICK w \in new : f = [op |-> w, t |-> cycle + instructions[w].latency]
        BY <3>1, <3>3
      <4> QED
        BY <4>1, <3>1, <1>3, TurnTypes
    <3> QED
      BY <3>2, <3>3
  <2>2. ASSUME NEW w \in scheduled', finish(w)' > cycle'
        PROVE  [op |-> w, t |-> finish(w)'] \in inflight'
    <3>1. CASE w \in new
      <4>1. [op |-> w, t |-> cycle + instructions[w].latency] \in flying
        BY <3>1
      <4> QED
        BY <4>1, <3>1, <2>2, <1>2, <1>3, TurnTypes
    <3>2. CASE w \notin new
      <4>1. finish(w)' = finish(w) /\ finish(w) \in Int /\ w \in scheduled
        BY <3>2, <1>3, <2>2, TurnTypes
      <4>2. [op |-> w, t |-> finish(w)] \in inflight
        BY <4>1, <1>1, <2>2, TurnTypes
      <4> QED
        BY <4>1, <4>2, <2>2, <1>2, TurnTypes
    <3> QED
      BY <3>1, <3>2
  <2> QED
    BY <2>1, <2>2
<1>5. IssuedEarlier'
  <2> SUFFICES ASSUME NEW u \in scheduled' PROVE schedule_cycle'[u] \in 0 .. cycle
    BY TurnTypes DEF IssuedEarlier
  <2>1. u \in Nodes /\ cycle \in Nat
    BY TurnTypes
  <2>2. schedule_cycle'[u] = IF u \in new THEN cycle ELSE schedule_cycle[u]
    BY <2>1 DEF Turn
  <2> QED
    BY <2>1, <2>2, <1>1, <1>3
<1> QED
  BY <1>4, <1>5 DEF InflightExact

LEMMA TurnCounts ==
    ASSUME IInv, NEW new, Turn(new), Issuable(new)
    PROVE  /\ CountsExact'
           /\ unscheduled_predecessors' \in [Nodes -> Nat]
<1> DEFINE flying == inflight \cup
             {[op |-> u, t |-> cycle + instructions[u].latency] : u \in new}
           arrived == {f.op : f \in {g \in flying : g.t = cycle + 1}}
<1>0. /\ inflight = {[op |-> w, t |-> finish(w)] : w \in {v \in scheduled : finish(v) > cycle}}
      /\ inflight' = {[op |-> w, t |-> finish(w)'] :
                        w \in {v \in scheduled' : finish(v)' > cycle'}}
      /\ edges' = edges /\ scheduled' = scheduled \cup new /\ pc = "schedule" /\ pc' = pc
  BY TurnInflight DEF IInv, SchedInv, InflightExact, Turn, buildVars
<1>1. /\ \A u \in new : u \in Nodes /\ u \notin scheduled
      /\ \A u \in Nodes : instructions[u].latency \in Nat /\ instructions[u].latency > 0
  BY NodesType DEF Issuable, IInv
<1>2. \A u : u \in arrived <=>
        /\ u \in scheduled' /\ finish(u)' = cycle'
        /\ u \in scheduled => finish(u) > cycle
  <2>1. ASSUME NEW u \in arrived
        PROVE  u \in scheduled' /\ finish(u)' = cycle' /\ (u \in scheduled => finish(u) > cycle)
    <3>1. PICK f \in flying : f.t = cycle + 1 /\ f.op = u
      BY <2>1
    <3>2. CASE f \in inflight
      <4>1. u \in scheduled /\ finish(u) > cycle /\ f.t = finish(u)
        BY <3>1, <3>2, <1>0
      <4> QED
        BY <4>1, <3>1, <1>0, <1>1, TurnTypes
    <3>3. CASE f \notin inflight
      <4>1. u \in new /\ f.t = cycle + instructions[u].latency
        BY <3>1, <3>3
      <4> QED
        BY <4>1, <3>1, <1>0, <1>1, TurnTypes
    <3> QED
      BY <3>2, <3>3
  <2>2. ASSUME NEW u \in scheduled', finish(u)' = cycle', u \in scheduled => finish(u) > cycle
        PROVE  u \in arrived
    <3>1. CASE u \in new
      <4>1. [op |-> u, t |-> cycle + instructions[u].latency] \in flying
        BY <3>1
      <4>2. cycle + instructions[u].latency = cycle + 1
        BY <3>1, <2>2, <1>1, TurnTypes
      <4>3. [op |-> u, t |-> cycle + 1] \in flying
        BY <4>1, <4>2
      <4> HIDE DEF flying
      <4> QED
        BY <4>3
    <3>2. CASE u \notin new
      <4>1. u \in scheduled /\ [op |-> u, t |-> finish(u)] \in flying
        BY <3>2, <2>2, <1>0
      <4>2. finish(u) = cycle + 1
        BY <4>1, <3>2, <2>2, TurnTypes
      <4>3. [op |-> u, t |-> cycle + 1] \in flying
        BY <4>1, <4>2
      <4> HIDE DEF flying
      <4> QED
        BY <4>3
    <3> QED
      BY <3>1, <3>2
  <2> QED
    BY <2>1, <2>2
<1>3. ASSUME NEW u
      PROVE  waiting(u)' <=> u \in scheduled' /\ finish(u)' > cycle'
  <2>1. ASSUME waiting(u)' PROVE u \in scheduled' /\ finish(u)' > cycle'
    BY <2>1, <1>0 DEF waiting
  <2>2. ASSUME u \in scheduled', finish(u)' > cycle' PROVE waiting(u)'
    <3>1. [op |-> u, t |-> finish(u)'] \in inflight'
      BY <2>2, <1>0
    <3> QED
      BY <3>1 DEF waiting
  <2> QED
    BY <2>1, <2>2
<1> HIDE DEF arrived
<1>4. ASSUME NEW v \in Nodes
      PROVE  /\ unscheduled_predecessors'[v] = Cardinality(held(v)')
             /\ Cardinality(held(v)') \in Nat
  <2> DEFINE A == edgesInto(v, new, {"WAR", "WAW"})
             B == edgesInto(v, arrived, {"RAW"})
  <2>1. A \subseteq held(v)
    BY <1>1 DEF edgesInto, held, predecessors, released
  <2>2. B \subseteq held(v) \ A
    <3> SUFFICES ASSUME NEW e \in B PROVE e \in held(v) /\ e \notin A
      OBVIOUS
    <3>1. e \in edges /\ e.to = v /\ e.from \in arrived /\ e.type = "RAW"
      BY DEF edgesInto
    <3>2. e.from \notin scheduled \/ waiting(e.from)
      BY <3>1, <1>0, <1>2, WaitingExact
    <3> QED
      BY <3>1, <3>2 DEF edgesInto, held, predecessors, released
  <2>3. held(v)' = (held(v) \ A) \ B
    <3> SUFFICES ASSUME NEW e
                 PROVE  e \in held(v)' <=> e \in held(v) /\ e \notin A /\ e \notin B
      OBVIOUS
    <3>1. CASE e \notin edges \/ e.to # v
      BY <3>1, <1>0 DEF held, predecessors
    <3>2. CASE e \in edges /\ e.to = v
      <4>1. e.from \in Nodes /\ e.type \in DependencyType
        <5>1. e.from \in 1 .. visited /\ e.type \in DependencyType
          BY <3>2, EdgesForward DEF IInv
        <5>2. visited = N
          BY <1>0 DEF IInv, TypeOK
        <5> QED
          BY <5>1, <5>2 DEF Nodes
      <4>2. CASE e.type # "RAW"
        BY <3>2, <4>1, <4>2, <1>0 DEF held, predecessors, released, edgesInto, DependencyType
      <4>3. CASE e.type = "RAW"
        <5>1. e \in held(v) <=> ~(e.from \in scheduled /\ finish(e.from) <= cycle)
          BY <3>2, <4>1, <4>3, <1>0, WaitingExact, TurnTypes
             DEF held, predecessors, released
        <5>2. e \in held(v)' <=> ~(e.from \in scheduled' /\ finish(e.from)' <= cycle')
          BY <3>2, <4>1, <4>3, <1>0, <1>3, TurnTypes DEF held, predecessors, released
        <5>3. e \notin A /\ (e \in B <=> e.from \in arrived)
          BY <3>2, <4>3 DEF edgesInto
        <5>4. e.from \in arrived <=>
                /\ e.from \in scheduled' /\ finish(e.from)' = cycle'
                /\ e.from \in scheduled => finish(e.from) > cycle
          BY <1>2
        <5> QED
          BY <5>1, <5>2, <5>3, <5>4, <4>1, <1>0, <1>1, TurnTypes
      <4> QED
        BY <4>2, <4>3
    <3> QED
      BY <3>1, <3>2
  <2>4. /\ IsFiniteSet(held(v)) /\ unscheduled_predecessors[v] = Cardinality(held(v))
    BY <1>0, HeldFinite DEF IInv, CountsExact, held
  <2>5. unscheduled_predecessors'[v]
          = (unscheduled_predecessors[v] - Cardinality(A)) - Cardinality(B)
    BY DEF Turn, arrived
  <2> HIDE DEF A, B
  <2>6. /\ IsFiniteSet(held(v) \ A) /\ Cardinality(A) \in Nat
        /\ Cardinality(held(v) \ A) = Cardinality(held(v)) - Cardinality(A)
    BY <2>1, <2>4, CountDifference
  <2>7. /\ Cardinality((held(v) \ A) \ B) = Cardinality(held(v) \ A) - Cardinality(B)
        /\ Cardinality((held(v) \ A) \ B) \in Nat
    BY <2>2, <2>6, CountDifference
  <2> QED
    BY <2>3, <2>4, <2>5, <2>6, <2>7
<1>5. CountsExact'
  BY <1>4, TurnTypes DEF CountsExact, held
<1>6. unscheduled_predecessors' \in [Nodes -> Nat]
  BY <1>4 DEF Turn
<1> QED
  BY <1>5, <1>6

(***************************************************************************)
(* The counter of a node that is issued is 0, so nothing holds it back.    *)
(***************************************************************************)
LEMMA ReadyReleased ==
    ASSUME IInv, pc # "build", NEW u \in Nodes, unscheduled_predecessors[u] = 0,
           NEW e \in edges, e.to = u
    PROVE  /\ e.from \in Nodes /\ e.from \in scheduled
           /\ e.type = "RAW" => finish(e.from) <= cycle
<1>1. Cardinality(held(u)) = 0 /\ IsFiniteSet(held(u))
  BY HeldFinite DEF IInv, CountsExact, held
<1>2. e \notin held(u)
  BY <1>1, FS_EmptySet
<1>3. released(e)
  BY <1>2 DEF held, predecessors
<1>4. e.from \in Nodes
  <2>1. e.from \in 1 .. visited
    BY EdgesForward DEF IInv
  <2> QED
    BY <2>1 DEF IInv, TypeOK, Nodes
<1>5. schedule_cycle[e.from] \in Int /\ instructions[e.from].latency \in Nat /\ cycle \in Int
  BY <1>4, NodesType, SchedulerAssumption DEF IInv, TypeOK
<1> QED
  BY <1>3, <1>4, <1>5, WaitingExact DEF released, finish

LEMMA TurnDependencies ==
    ASSUME IInv, NEW new, Turn(new), Issuable(new)
    PROVE  DependenciesRespected'
<1>1. /\ pc = "schedule" /\ pc' = pc /\ edges' = edges /\ instructions' = instructions
      /\ scheduled' = scheduled \cup new
      /\ schedule_cycle' = [u \in Nodes |-> IF u \in new THEN cycle ELSE schedule_cycle[u]]
  BY DEF Turn, buildVars
<1>2. /\ scheduled \subseteq Nodes /\ cycle \in Nat
      /\ \A u \in new : u \in Nodes /\ u \notin scheduled /\ unscheduled_predecessors[u] = 0
      /\ \A u \in Nodes : schedule_cycle[u] \in Int /\ instructions[u].latency \in Nat
  BY TurnTypes, NodesType DEF Issuable, IInv
<1> SUFFICES ASSUME NEW e \in edges, e.to \in scheduled'
             PROVE  /\ e.from \in scheduled'
                    /\ schedule_cycle'[e.to] >= schedule_cycle'[e.from]
                         + (IF e.type = "RAW" THEN instructions[e.from].latency ELSE 1)
  BY <1>1 DEF DependenciesRespected
<1>3. CASE e.to \in scheduled
  <2>1. /\ e.from \in scheduled
        /\ schedule_cycle[e.to] >= schedule_cycle[e.from]
             + (IF e.type = "RAW" THEN instructions[e.from].latency ELSE 1)
    BY <1>1, <1>3 DEF IInv, DependenciesRespected
  <2>2. /\ e.to \in Nodes /\ e.to \notin new /\ e.from \in Nodes /\ e.from \notin new
    BY <1>2, <1>3, <2>1
  <2> QED
    BY <1>1, <2>1, <2>2
<1>4. CASE e.to \in new
  <2>1. /\ e.from \in Nodes /\ e.from \in scheduled
        /\ e.type = "RAW" => finish(e.from) <= cycle
    BY <1>1, <1>2, <1>4, ReadyReleased
  <2>2. schedule_cycle[e.from] \in 0 .. (cycle - 1)
    BY <1>1, <2>1 DEF IInv, SchedInv, IssuedEarlier
  <2>3. schedule_cycle'[e.to] = cycle /\ schedule_cycle'[e.from] = schedule_cycle[e.from]
    BY <1>1, <1>2, <1>4, <2>1
  <2> QED
    BY <1>1, <1>2, <2>1, <2>2, <2>3 DEF finish
<1> QED
  BY <1>1, <1>3, <1>4

(***************************************************************************)
(* The order grows with the marks.                                         *)
(***************************************************************************)
LEMMA ScheduledFinite ==
    ASSUME BuildInv, scheduled \subseteq Nodes
    PROVE  IsFiniteSet(scheduled) /\ Cardinality(scheduled) \in Nat
<1>1. IsFiniteSet(Nodes)
  BY NodesType, FS_Interval DEF Nodes
<1> QED
  BY <1>1, FS_Subset, FS_CardinalityType

LEMMA IssueInv == ASSUME IInv, Issue PROVE IInv'
<1>1. PICK best \in getReadyNodes : Turn({best}) /\ order' = Append(order, best)
  BY IssueIsTurn
<1>2. Issuable({best})
  BY DEF Issuable, getReadyNodes
<1>3. BuildInv'
  BY <1>1, BuildStutterInv DEF IInv, Turn
<1>4. /\ scheduled \subseteq Nodes /\ order \in Seq(Nodes) /\ pc = "schedule" /\ pc' = pc
      /\ scheduled' = scheduled \cup {best} /\ best \in Nodes /\ best \notin scheduled
      /\ N' = N /\ Nodes' = Nodes /\ cycle \in 0 .. MaxCycles /\ cycle < MaxCycles
      /\ policy' = policy /\ visited' = visited
  BY <1>1, <1>2, TurnTypes DEF IInv, TypeOK, Turn, getReadyNodes, buildVars
<1>5. OrderExact'
  <2>1. /\ \A k \in DOMAIN order : order[k] \in scheduled
        /\ Cardinality(scheduled) = Len(order)
    BY <1>4 DEF IInv, SchedInv, OrderExact
  <2>2. Cardinality(scheduled') = Len(order) + 1
    BY <2>1, <1>4, ScheduledFinite, FS_AddElement DEF IInv
  <2>3. \A k \in DOMAIN order' : order'[k] \in scheduled'
    BY <2>1, <1>1, <1>4
  <2>4. Len(order') = Len(order) + 1
    BY <1>1, <1>4
  <2> QED
    BY <2>2, <2>3, <2>4 DEF OrderExact
<1>6. inflight' \subseteq [op : Nodes, t : Nat]
  <2>1. inflight \subseteq [op : Nodes, t : Nat]
    BY DEF IInv, TypeOK
  <2>2. instructions[best].latency \in Nat /\ cycle \in Nat
    BY <1>4, NodesType, SchedulerAssumption DEF IInv
  <2> QED
    BY <1>1, <1>4, <2>1, <2>2 DEF Turn
<1>7. TypeOK'
  <2>1. order' \in Seq(Nodes) /\ scheduled' \subseteq Nodes
    BY <1>1, <1>4
  <2>2. cycle' \in 0 .. MaxCycles /\ cycle' = cycle + 1
    BY <1>1, <1>4, SchedulerAssumption DEF Turn
  <2>3. schedule_cycle' \in [Nodes -> -1 .. cycle']
    BY <1>1, <1>2, <2>2, TurnTypes
  <2>4. unscheduled_predecessors' \in [Nodes -> Nat]
    BY <1>1, <1>2, TurnCounts
  <2> QED
    BY <1>1, <1>3, <1>4, <1>6, <2>1, <2>2, <2>3, <2>4 DEF Turn, TypeOK, IInv, BuildInv
<1>8. CountsExact' /\ DependenciesRespected' /\ InflightExact' /\ IssuedEarlier'
  BY <1>1, <1>2, TurnCounts, TurnDependencies, TurnInflight
<1> QED
  BY <1>3, <1>5, <1>7, <1>8 DEF IInv, SchedInv

LEMMA StallInv == ASSUME IInv, Stall PROVE IInv'
<1>1. Turn({}) /\ order' = order
  BY StallIsTurn
<1>2. Issuable({})
  BY DEF Issuable
<1>3. BuildInv'
  BY <1>1, BuildStutterInv DEF IInv, Turn
<1>4. /\ scheduled \subseteq Nodes /\ order \in Seq(Nodes) /\ pc = "schedule" /\ pc' = pc
      /\ scheduled' = scheduled
      /\ N' = N /\ Nodes' = Nodes /\ cycle \in 0 .. MaxCycles /\ cycle < MaxCycles
      /\ policy' = policy /\ visited' = visited
  BY <1>1, <1>2, TurnTypes DEF IInv, TypeOK, Turn, buildVars
<1>5. OrderExact'
  BY <1>1, <1>4 DEF IInv, SchedInv, OrderExact
<1>6. inflight' \subseteq [op : Nodes, t : Nat]
  BY <1>1, <1>4 DEF Turn, IInv, TypeOK
<1>7. TypeOK'
  <2>1. cycle' \in 0 .. MaxCycles /\ cycle' = cycle + 1
    BY <1>1, <1>4, SchedulerAssumption DEF Turn
  <2>2. schedule_cycle' \in [Nodes -> -1 .. cycle']
    BY <1>1, <1>2, <2>1, TurnTypes
  <2>3. unscheduled_predecessors' \in [Nodes -> Nat]
    BY <1>1, <1>2, TurnCounts
  <2> QED
    BY <1>1, <1>3, <1>4, <1>6, <2>1, <2>2, <2>3 DEF Turn, TypeOK, IInv, BuildInv
<1>8. CountsExact' /\ DependenciesRespected' /\ InflightExact' /\ IssuedEarlier'
  BY <1>1, <1>2, TurnCounts, TurnDependencies, TurnInflight
<1> QED
  BY <1>3, <1>5, <1>7, <1>8 DEF IInv, SchedInv

(***************************************************************************)
(* The priorities: the recursion of computeCriticalPath ends.              *)
(***************************************************************************)
\* A set of naturals that is not empty has a least member.
LEMMA Least ==
    ASSUME NEW S \in SUBSET Nat, S # {}
    PROVE  \E n \in S : \A m \in S : n <= m
<1>1. \E n \in S : \A m \in S : ~ (<<m, n>> \in OpToRel(<, Nat))
  BY NatLessThanWellFounded, WFMin
<1>2. PICK n \in S : \A m \in S : ~ (<<m, n>> \in OpToRel(<, Nat))
  BY <1>1
<1>3. ASSUME NEW m \in S PROVE n <= m
  <2>1. m \in Nat /\ n \in Nat
    OBVIOUS
  <2>2. ~ (m < n)
    BY <1>2, <1>3, <2>1 DEF OpToRel
  <2> QED
    BY <2>1, <2>2
<1> QED
  BY <1>3

\* A finite set of naturals that is not empty has a greatest member.
LEMMA Greatest ==
    ASSUME NEW S \in SUBSET Nat, S # {}, IsFiniteSet(S)
    PROVE  longest(S) \in S /\ \A x \in S : x <= longest(S)
<1> DEFINE hasMax(T) == \E m \in T : \A x \in T : x <= m
           bad(T) == T # {} /\ IsFiniteSet(T) /\ ~hasMax(T)
           sizes == {n \in Nat : \E T \in SUBSET Nat : bad(T) /\ Cardinality(T) = n}
<1>1. sizes = {}
  <2> SUFFICES ASSUME sizes # {} PROVE FALSE
    OBVIOUS
  <2>1. PICK n \in sizes : \A m \in sizes : n <= m
    BY Least
  <2>2. PICK T \in SUBSET Nat : bad(T) /\ Cardinality(T) = n
    BY <2>1
  <2>3. PICK x \in T : TRUE
    BY <2>2
  <2>4. /\ IsFiniteSet(T \ {x}) /\ Cardinality(T \ {x}) = n - 1
        /\ Cardinality(T \ {x}) \in Nat /\ n \in Nat
    BY <2>1, <2>2, <2>3, FS_RemoveElement, FS_CardinalityType
  <2>5. n - 1 \notin sizes
    BY <2>1, <2>4
  <2>6. T \ {x} \in SUBSET Nat /\ ~bad(T \ {x})
    <3> HIDE DEF bad
    <3> QED
      BY <2>4, <2>5
  <2>7. CASE T \ {x} = {}
    <3>1. \A y \in T : y <= x
      BY <2>7, <2>3
    <3> QED
      BY <3>1, <2>2, <2>3
  <2>8. CASE T \ {x} # {}
    <3>1. PICK m \in T \ {x} : \A y \in T \ {x} : y <= m
      BY <2>4, <2>6, <2>8
    <3>2. \A y \in T : y <= IF x <= m THEN m ELSE x
      BY <3>1, <2>3
    <3> QED
      BY <3>1, <3>2, <2>2, <2>3
  <2> QED
    BY <2>7, <2>8
<1>2. hasMax(S)
  <2>1. Cardinality(S) \in Nat /\ Cardinality(S) \notin sizes
    BY <1>1, FS_CardinalityType
  <2>2. ~bad(S)
    <3> HIDE DEF bad
    <3> QED
      BY <2>1
  <2> QED
    BY <2>2
<1> QED
  BY <1>2 DEF longest

\* A node's chain is a number when those of its successors are: its own
\* latency or the chain through one of them.
LEMMA ChainType ==
    ASSUME BuildInv, NEW u \in Nodes, NEW path,
           \A e \in successors(u) : path[e.to] \in Nat
    PROVE  /\ longestChain(path, u) \in Nat
           /\ longestChain(path, u) \in
                {instructions[u].latency} \cup
                {path[e.to] + (IF e.type = "RAW" THEN instructions[u].latency ELSE 0) :
                   e \in successors(u)}
<1> DEFINE S == successors(u)
           len(e) == path[e.to] + (IF e.type = "RAW" THEN instructions[u].latency ELSE 0)
           f == [e \in S |-> len(e)]
           T == {f[e] : e \in S}
           U == {instructions[u].latency}
<1>1. instructions[u].latency \in Nat
  BY NodesType
<1>2. IsFiniteSet(S)
  <2>1. S \subseteq edges
    BY DEF successors
  <2> QED
    BY <2>1, FS_Subset DEF BuildInv
<1>3. f \in Surjection(S, T)
  BY DEF Surjection
<1>4. IsFiniteSet(T)
  <2> HIDE DEF f, T, S
  <2> QED
    BY <1>2, <1>3, FS_Surjection
<1>5. T = {len(e) : e \in S} /\ T \subseteq Nat
  BY <1>1
<1>6. U \cup T \in SUBSET Nat /\ U \cup T # {} /\ IsFiniteSet(U \cup T)
  <2>1. IsFiniteSet(U)
    BY FS_Singleton
  <2> HIDE DEF T
  <2> QED
    BY <1>1, <1>4, <1>5, <2>1, FS_Union
<1>7. longest(U \cup T) \in Nat /\ longest(U \cup T) \in U \cup T
  <2> HIDE DEF T, U
  <2> QED
    BY <1>6, Greatest
<1>8. longestChain(path, u) = longest(U \cup T)
  BY <1>5 DEF longestChain
<1> QED
  BY <1>5, <1>7, <1>8

\* A chain is determined by the chains of the later nodes.
LEMMA ChainLocal ==
    ASSUME BuildInv, visited = N, NEW u \in Nodes, NEW p, NEW q,
           \A w \in Nodes : w > u => p[w] = q[w]
    PROVE  longestChain(p, u) = longestChain(q, u)
<1>1. \A e \in successors(u) : p[e.to] = q[e.to]
  BY EdgesForward DEF successors, Nodes
<1>2. {p[e.to] + (IF e.type = "RAW" THEN instructions[u].latency ELSE 0) : e \in successors(u)}
        = {q[e.to] + (IF e.type = "RAW" THEN instructions[u].latency ELSE 0) : e \in successors(u)}
  BY <1>1
<1> QED
  BY <1>2 DEF longestChain

(* Solving the equation from the last node to the first, and the first node
   at which it could not be solved. *)
LEMMA PathExists ==
    ASSUME BuildInv, visited = N
    PROVE  \E p \in [Nodes -> Nat] : p = [u \in Nodes |-> longestChain(p, u)]
<1> DEFINE solved(n) == \E p \in [Nodes -> Nat] :
                           \A u \in Nodes : u > N - n => p[u] = longestChain(p, u)
           unsolved == {n \in 0 .. N : ~solved(n)}
<1>0. N \in Nat
  BY NodesType
<1>1. solved(0)
  <2>1. [u \in Nodes |-> 0] \in [Nodes -> Nat]
    OBVIOUS
  <2>2. \A u \in Nodes : ~(u > N - 0)
    BY <1>0 DEF Nodes
  <2> QED
    BY <2>1, <2>2
<1>2. ASSUME NEW n \in 0 .. N, n > 0, solved(n - 1) PROVE solved(n)
  <2>1. PICK p \in [Nodes -> Nat] :
          \A u \in Nodes : u > N - (n - 1) => p[u] = longestChain(p, u)
    BY <1>2
  <2> DEFINE w == N - (n - 1)
             g == [p EXCEPT ![w] = longestChain(p, w)]
  <2>2. w \in Nodes /\ w \in Nat
    BY <1>0, <1>2 DEF Nodes
  <2>3. \A e \in successors(w) : p[e.to] \in Nat
    BY EdgesForward DEF successors, Nodes
  <2>4. longestChain(p, w) \in Nat
    BY <2>2, <2>3, ChainType
  <2>5. g \in [Nodes -> Nat]
    BY <2>4
  <2>6. ASSUME NEW u \in Nodes, u > N - n PROVE g[u] = longestChain(g, u)
    <3>1. u >= w /\ u \in Nat
      BY <1>0, <1>2, <2>6 DEF Nodes
    <3>2. \A x \in Nodes : x > u => p[x] = g[x]
      BY <2>2, <3>1 DEF Nodes
    <3>3. longestChain(p, u) = longestChain(g, u)
      BY <3>2, ChainLocal
    <3>4. g[u] = longestChain(p, u)
      <4>1. CASE u = w
        BY <2>2, <4>1
      <4>2. CASE u # w
        BY <2>1, <2>2, <3>1, <4>2
      <4> QED
        BY <4>1, <4>2
    <3> QED
      BY <3>3, <3>4
  <2> QED
    BY <2>5, <2>6
<1>3. unsolved = {}
  <2> SUFFICES ASSUME unsolved # {} PROVE FALSE
    OBVIOUS
  <2>1. PICK n \in unsolved : \A m \in unsolved : n <= m
    <3>1. unsolved \in SUBSET Nat
      BY <1>0
    <3> HIDE DEF unsolved
    <3> QED
      BY <3>1, Least
  <2>2. n \in 0 .. N /\ ~solved(n)
    BY <2>1
  <2> HIDE DEF solved
  <2>3. n > 0 /\ n - 1 \in 0 .. N
    BY <1>0, <1>1, <2>2
  <2>4. solved(n - 1)
    BY <1>0, <2>1, <2>3
  <2> QED
    BY <1>2, <2>2, <2>3, <2>4
<1>4. solved(N)
  <2> HIDE DEF solved
  <2> QED
    BY <1>0, <1>3
<1>5. PICK p \in [Nodes -> Nat] : \A u \in Nodes : u > N - N => p[u] = longestChain(p, u)
  BY <1>4
<1>6. \A u \in Nodes : u > N - N
  BY <1>0 DEF Nodes
<1> QED
  BY <1>5, <1>6

(* On every graph build returns, the recursion of computeCriticalPath ends:
   it gives each node a number, and that number is the longest of the chains
   through its successors. *)
THEOREM CriticalPathExact ==
    ASSUME BuildInv, visited = N
    PROVE  /\ criticalPath \in [Nodes -> Nat]
           /\ \A u \in Nodes : criticalPath[u] = longestChain(criticalPath, u)
<1> DEFINE c == criticalPath
           rest == {n \in 0 .. N : \E u \in Nodes : u > N - n /\ c[u] \notin Nat}
<1>0. N \in Nat
  BY NodesType
<1>1. c = [u \in Nodes |-> longestChain(c, u)]
  BY PathExists DEF criticalPath
<1> HIDE DEF c
<1>2. rest = {}
  <2> SUFFICES ASSUME rest # {} PROVE FALSE
    OBVIOUS
  <2>1. PICK n \in rest : \A m \in rest : n <= m
    <3>1. rest \in SUBSET Nat
      BY <1>0
    <3> HIDE DEF rest
    <3> QED
      BY <3>1, Least
  <2>2. PICK u \in Nodes : u > N - n /\ c[u] \notin Nat
    BY <2>1
  <2>3. n \in 0 .. N /\ n > 0 /\ n - 1 \notin rest
    <3>1. n \in 0 .. N /\ n > 0
      BY <1>0, <2>1, <2>2 DEF Nodes
    <3> HIDE DEF rest
    <3>2. n - 1 \notin rest
      BY <3>1, <2>1
    <3> QED
      BY <3>1, <3>2
  <2>4. \A x \in Nodes : x > N - (n - 1) => c[x] \in Nat
    BY <1>0, <2>3
  <2>5. \A e \in successors(u) : c[e.to] \in Nat
    BY <1>0, <2>2, <2>3, <2>4, EdgesForward DEF successors, Nodes
  <2>6. longestChain(c, u) \in Nat
    BY <2>5, ChainType
  <2>7. c[u] = longestChain(c, u)
    BY <1>1
  <2> QED
    BY <2>2, <2>6, <2>7
<1>3. \A u \in Nodes : c[u] \in Nat
  BY <1>0, <1>2 DEF Nodes
<1>4. c \in [Nodes -> Nat] /\ \A u \in Nodes : c[u] = longestChain(c, u)
  BY <1>1, <1>3
<1> QED
  BY <1>4 DEF c

(***************************************************************************)
(* A schedule starts with nothing issued and every edge holding.           *)
(***************************************************************************)
LEMMA StartInv ==
    ASSUME IInv, NEW p \in 1 .. Len(Policies), StartSchedule(p), UNCHANGED buildVars,
           visited = N, pc' = "schedule"
    PROVE  IInv'
<1>1. /\ BuildInv' /\ N' = N /\ Nodes' = Nodes /\ visited' = N' /\ edges' = edges
      /\ BuildTypeOK'
  BY BuildStutterInv DEF IInv, BuildInv, buildVars, N, Nodes
<1>2. /\ scheduled' = {} /\ order' = <<>> /\ inflight' = {} /\ cycle' = 0 /\ policy' = p
      /\ schedule_cycle' = [v \in Nodes |-> -1]
      /\ unscheduled_predecessors' = [v \in Nodes |-> Cardinality(predecessors(v))]
  BY DEF StartSchedule
<1>3. unscheduled_predecessors' \in [Nodes -> Nat]
  BY <1>2, HeldFinite DEF IInv
<1>4. priority' \in [Nodes -> Nat]
  BY CriticalPathExact DEF StartSchedule, computePriorities, IInv
<1>5. TypeOK'
  <2>1. p \in 0 .. Len(Policies) /\ 0 \in 0 .. MaxCycles
    BY SchedulerAssumption
  <2>2. schedule_cycle' \in [Nodes -> -1 .. 0]
    BY <1>2
  <2> QED
    BY <1>1, <1>2, <1>3, <1>4, <2>1, <2>2 DEF TypeOK
<1>6. CountsExact'
  <2> SUFFICES ASSUME NEW v \in Nodes
               PROVE  unscheduled_predecessors'[v]
                        = Cardinality({e \in predecessors(v)' : ~released(e)'})
    BY <1>1 DEF CountsExact
  <2>1. {e \in predecessors(v)' : ~released(e)'} = predecessors(v)
    BY <1>1, <1>2 DEF released, predecessors
  <2> QED
    BY <1>2, <2>1
<1>7. DependenciesRespected'
  BY <1>2 DEF DependenciesRespected
<1>8. SchedInv'
  BY <1>2, FS_EmptySet DEF SchedInv, InflightExact, IssuedEarlier, OrderExact
<1> QED
  BY <1>1, <1>5, <1>6, <1>7, <1>8 DEF IInv

LEMMA InitInv == ASSUME Init PROVE IInv
<1>1. BuildInv
  BY BuildInitInv DEF Init
<1>2. TypeOK
  BY <1>1, SchedulerAssumption DEF Init, SchedInit, TypeOK, BuildInv
<1> QED
  BY <1>1, <1>2 DEF Init, SchedInit, IInv, SchedInv, CountsExact, DependenciesRespected

LEMMA StepInv == ASSUME IInv, [Next]_vars PROVE IInv'
<1>1. CASE Build
  <2>1. BuildInv' /\ N' = N /\ Nodes' = Nodes
    BY <1>1, BuildStepInv DEF Build, IInv, VisitInstruction, N, Nodes
  <2>2. TypeOK'
    BY <1>1, <2>1 DEF Build, IInv, TypeOK, BuildInv, schedVars
  <2> QED
    BY <1>1, <2>1, <2>2 DEF Build, IInv, SchedInv, CountsExact, DependenciesRespected, schedVars
<1>2. CASE FinishBuild
  <2>1. 1 \in 1 .. Len(Policies)
    BY SchedulerAssumption
  <2> QED
    BY <1>2, <2>1, StartInv DEF FinishBuild
<1>3. CASE Issue
  BY <1>3, IssueInv
<1>4. CASE Stall
  BY <1>4, StallInv
<1>5. CASE NextPolicy
  <2>1. policy + 1 \in 1 .. Len(Policies) /\ visited = N
    BY <1>5, SchedulerAssumption DEF NextPolicy, scheduleReturns, IInv, TypeOK
  <2> QED
    BY <1>5, <2>1, StartInv DEF NextPolicy, scheduleReturns
<1>6. CASE Finish \/ UNCHANGED vars
  <2>1. /\ BuildInv' /\ UNCHANGED buildVars /\ (pc = "build" => pc' = pc)
        /\ (pc # "build" => pc' \in {"schedule", "done"})
        /\ UNCHANGED <<policy, unscheduled_predecessors, priority, scheduled,
                       schedule_cycle, order, inflight, cycle>>
    BY <1>6, BuildStutterInv
       DEF Finish, scheduleReturns, vars, schedVars, IInv, TypeOK
  <2>2. N' = N /\ Nodes' = Nodes
    BY <2>1 DEF buildVars, N, Nodes
  <2>3. TypeOK'
    BY <2>1, <2>2 DEF TypeOK, IInv, BuildInv, buildVars
  <2>4. pc' # "build" => pc # "build"
    BY <2>1
  <2>5. SchedInv'
    BY <2>1, <2>4 DEF IInv, SchedInv, InflightExact, IssuedEarlier, OrderExact, finish, buildVars
  <2>6. CountsExact'
    BY <2>1, <2>2, <2>4 DEF IInv, CountsExact, predecessors, released, waiting, buildVars
  <2>7. DependenciesRespected'
    BY <2>1, <2>4 DEF IInv, DependenciesRespected, buildVars
  <2> QED
    BY <2>1, <2>3, <2>5, <2>6, <2>7 DEF IInv
<1> QED
  BY <1>1, <1>2, <1>3, <1>4, <1>5, <1>6 DEF Next

(* IInv is an invariant of the driver and of schedule: main.cpp's
   runScheduler, DAGBuilder::build and Scheduler::schedule. *)
THEOREM SchedulerInvariant == Spec => []IInv
<1>1. Init => IInv
  BY InitInv
<1>2. IInv /\ [Next]_vars => IInv'
  BY StepInv
<1> QED
  BY <1>1, <1>2, PTL DEF Spec

(***************************************************************************)
(* What follows from the invariant.                                        *)
(***************************************************************************)
(* Every variable of build and schedule keeps its type; in particular no
   counter of unscheduled predecessors goes below zero. *)
THEOREM SchedulerTypeCorrect == Spec => []TypeOK
<1>1. IInv => TypeOK
  BY DEF IInv
<1> QED
  BY <1>1, SchedulerInvariant, PTL

(* After every instruction the single pass of build has exactly the edges
   that the three detect functions ask for. *)
THEOREM GraphIsExact == Spec => []DagExact
<1>1. IInv => DagExact
  BY DEF IInv, BuildInv
<1> QED
  BY <1>1, SchedulerInvariant, PTL

(* The counter that schedule decrements in two loops is always the number of
   edges that still hold the node back. *)
THEOREM CountersExact == Spec => []CountsExact
<1>1. IInv => CountsExact
  BY DEF IInv
<1> QED
  BY <1>1, SchedulerInvariant, PTL

(* schedule issues no instruction before the instructions it depends on, nor
   before the results it reads have arrived. *)
THEOREM ScheduleRespectsDependencies == Spec => []DependenciesRespected
<1>1. IInv => DependenciesRespected
  BY DEF IInv
<1> QED
  BY <1>1, SchedulerInvariant, PTL

\* While the schedule is not complete, some node has not been issued.
LEMMA SomethingLeft ==
    ASSUME IInv, pc # "build", Len(order) < N
    PROVE  Nodes \ scheduled # {}
<1> SUFFICES ASSUME Nodes \ scheduled = {} PROVE FALSE
  OBVIOUS
<1>1. scheduled = Nodes /\ Cardinality(scheduled) = Len(order)
  BY DEF IInv, TypeOK, SchedInv, OrderExact
<1>2. N \in Nat
  BY NodesType DEF IInv
<1>3. Cardinality(1 .. N) = N
  BY <1>2, FS_Interval
<1> QED
  BY <1>1, <1>2, <1>3 DEF Nodes

(* When nothing is ready the least node that is left waits for results
   only: everything before it has been issued. *)
LEMMA LeastWaits ==
    ASSUME IInv, pc = "schedule", Len(order) < N, getReadyNodes = {}
    PROVE  inflight # {}
<1>1. Nodes \ scheduled \in SUBSET Nat /\ Nodes \ scheduled # {}
  BY SomethingLeft, NodesType DEF Nodes, IInv
<1>2. PICK v \in Nodes \ scheduled : \A w \in Nodes \ scheduled : v <= w
  BY <1>1, Least
<1>3. unscheduled_predecessors[v] # 0
  BY <1>2 DEF getReadyNodes
<1>4. unscheduled_predecessors[v] = Cardinality(held(v))
  BY <1>2 DEF IInv, CountsExact, held
<1>5. held(v) # {}
  BY <1>3, <1>4, FS_EmptySet
<1>6. PICK e \in held(v) : TRUE
  BY <1>5
<1>7. e \in edges /\ e.to = v /\ ~released(e)
  BY <1>6 DEF held, predecessors
<1>8. e.from \in 1 .. visited /\ e.from < v
  BY <1>7, EdgesForward DEF IInv
<1>9. visited = N
  BY DEF IInv, TypeOK
<1>10. e.from \in scheduled
  BY <1>1, <1>2, <1>8, <1>9 DEF Nodes
<1>11. waiting(e.from)
  BY <1>7, <1>10 DEF released
<1> QED
  BY <1>11 DEF waiting

(* The loop of schedule never lets a cycle pass with nothing to wait for:
   whenever nothing is ready and something is left, a result is in flight. *)
THEOREM NoIdleStall == Spec => []StallHasCause
<1>1. IInv => StallHasCause
  BY LeastWaits DEF StallHasCause
<1> QED
  BY <1>1, SchedulerInvariant, PTL

-----------------------------------------------------------------------------
(***************************************************************************)
(* scheduleFast is schedule: its queue is the scan, and its comparator the *)
(* choice, so every one of its steps is a step of schedule.                *)
(***************************************************************************)
FastInv == IInv /\ ReadyQueueExact

\* The comparator of the queue and the scan of selectBestNode rank alike.
LEMMA TopIsBest ==
    ASSUME IInv, pc # "build", NEW queue \in SUBSET Nodes
    PROVE  top(queue) = selectBestNode(queue)
<1> SUFFICES ASSUME NEW u \in queue, NEW v \in queue \ {u}
             PROVE  readyCmp(v, u) <=> better(u, v)
  BY DEF top, selectBestNode
<1>1. /\ u \in Nodes /\ v \in Nodes /\ u # v /\ u \in Nat /\ v \in Nat
      /\ instructions[u].latency \in Nat /\ instructions[v].latency \in Nat
      /\ priority[u] \in Nat /\ priority[v] \in Nat
  <2>1. BuildInv /\ priority \in [Nodes -> Nat]
    BY DEF IInv, TypeOK
  <2> QED
    BY <2>1, NodesType DEF Nodes
<1>2. Cardinality(successors(u)) \in Nat /\ Cardinality(successors(v)) \in Nat
  <2>1. IsFiniteSet(edges)
    BY DEF IInv, BuildInv
  <2>2. successors(u) \subseteq edges /\ successors(v) \subseteq edges
    BY DEF successors
  <2> QED
    BY <2>1, <2>2, FS_Subset, FS_CardinalityType
<1>3. CASE Policies[policy] = "LPT"
  BY <1>1, <1>3 DEF readyCmp, better, preference
<1>4. CASE Policies[policy] = "MOST_CHILD"
  BY <1>1, <1>2, <1>4 DEF readyCmp, better, preference
<1>5. CASE Policies[policy] # "LPT" /\ Policies[policy] # "MOST_CHILD"
  BY <1>1, <1>5 DEF readyCmp, better, preference
<1> QED
  BY <1>3, <1>4, <1>5

\* A node is marked only when its counter is 0, and the counter stays there.
LEMMA ScheduledReleased ==
    ASSUME IInv, pc # "build", NEW u \in scheduled
    PROVE  unscheduled_predecessors[u] = 0
<1>1. u \in Nodes /\ visited = N /\ cycle \in Nat
  BY SchedulerAssumption DEF IInv, TypeOK
<1>2. ASSUME NEW e \in edges, e.to = u PROVE released(e)
  <2>1. /\ e.from \in scheduled
        /\ schedule_cycle[u] >= schedule_cycle[e.from]
             + (IF e.type = "RAW" THEN instructions[e.from].latency ELSE 1)
    BY <1>2 DEF IInv, DependenciesRespected
  <2>2. schedule_cycle[u] \in 0 .. (cycle - 1)
    BY DEF IInv, SchedInv, IssuedEarlier
  <2>3. /\ schedule_cycle[e.from] \in Int
        /\ instructions[e.from].latency \in Nat
    <3>1. e.from \in Nodes
      BY <2>1 DEF IInv, TypeOK
    <3> QED
      BY <3>1, NodesType DEF IInv, TypeOK
  <2>4. e.type = "RAW" => ~(finish(e.from) > cycle)
    BY <1>1, <2>1, <2>2, <2>3 DEF finish
  <2> QED
    BY <2>1, <2>4, WaitingExact DEF released
<1>3. held(u) = {}
  BY <1>2 DEF held, predecessors
<1> QED
  BY <1>1, <1>3, FS_EmptySet DEF IInv, CountsExact, held

\* A turn never raises a counter.
LEMMA TurnDecreases ==
    ASSUME IInv, NEW new, Turn(new), Issuable(new), NEW v \in Nodes
    PROVE  /\ unscheduled_predecessors[v] \in Nat /\ unscheduled_predecessors'[v] \in Nat
           /\ unscheduled_predecessors'[v] <= unscheduled_predecessors[v]
<1>1. /\ unscheduled_predecessors[v] \in Nat
      /\ unscheduled_predecessors'[v] \in Nat
  BY TurnCounts DEF IInv, TypeOK, Turn
<1>2. \A ops, types : Cardinality(edgesInto(v, ops, types)) \in Nat
  <2> SUFFICES ASSUME NEW ops, NEW types
               PROVE  Cardinality(edgesInto(v, ops, types)) \in Nat
    OBVIOUS
  <2>1. edgesInto(v, ops, types) \subseteq edges
    BY DEF edgesInto
  <2> QED
    BY <2>1, FS_Subset, FS_CardinalityType DEF IInv, BuildInv
<1>3. PICK ops :
        unscheduled_predecessors'[v] =
          (unscheduled_predecessors[v] - Cardinality(edgesInto(v, new, {"WAR", "WAW"})))
             - Cardinality(edgesInto(v, ops, {"RAW"}))
  BY DEF Turn
<1> QED
  BY <1>1, <1>2, <1>3

(* The queue after a turn: what was issued left it, and the nodes whose
   counter reached zero joined it. *)
LEMMA QueueAfterTurn ==
    ASSUME IInv, IInv', NEW new, Turn(new), Issuable(new)
    PROVE  getReadyNodes' = (getReadyNodes \ new) \cup reachedZero
<1>1. /\ scheduled' = scheduled \cup new /\ Nodes' = Nodes
      /\ pc # "build" /\ pc' # "build"
  BY TurnTypes DEF Turn
<1>2. ASSUME NEW v \in getReadyNodes' PROVE v \in (getReadyNodes \ new) \cup reachedZero
  <2>1. v \in Nodes /\ v \notin scheduled /\ v \notin new /\ unscheduled_predecessors'[v] = 0
    BY <1>1, <1>2 DEF getReadyNodes
  <2> QED
    BY <2>1 DEF getReadyNodes, reachedZero
<1>3. ASSUME NEW v \in getReadyNodes \ new PROVE v \in getReadyNodes'
  <2>1. v \in Nodes /\ v \notin scheduled' /\ unscheduled_predecessors[v] = 0
    BY <1>1, <1>3 DEF getReadyNodes
  <2>2. unscheduled_predecessors'[v] = 0
    BY <2>1, TurnDecreases
  <2> QED
    BY <1>1, <2>1, <2>2 DEF getReadyNodes
<1>4. ASSUME NEW v \in reachedZero PROVE v \in getReadyNodes'
  <2>1. /\ v \in Nodes /\ unscheduled_predecessors[v] # 0
        /\ unscheduled_predecessors'[v] = 0
    BY <1>4 DEF reachedZero
  <2>2. v \notin new
    BY <2>1 DEF Issuable
  <2>3. v \notin scheduled
    BY <1>1, <2>1, ScheduledReleased
  <2> QED
    BY <1>1, <2>1, <2>2, <2>3 DEF getReadyNodes
<1> QED
  BY <1>2, <1>3, <1>4

LEMMA FastIssueStep ==
    ASSUME FastInv, FastIssue
    PROVE  Issue /\ ReadyQueueExact'
<1>1. PICK best \in top(ready) :
        /\ order' = Append(order, best)
        /\ scheduled' = scheduled \cup {best}
        /\ schedule_cycle' = [schedule_cycle EXCEPT ![best] = cycle]
        /\ Tick(issued(best),
                inflight \cup {[op |-> best, t |-> cycle + instructions[best].latency]})
        /\ ready' = (ready \ {best}) \cup reachedZero
  BY DEF FastIssue
<1>2. ready = getReadyNodes
  BY DEF FastInv, ReadyQueueExact, FastIssue, running
<1>3. top(ready) = selectBestNode(getReadyNodes)
  BY <1>2, TopIsBest DEF FastInv, FastIssue, running, getReadyNodes
<1>4. Issue
  BY <1>1, <1>3 DEF FastIssue, Issue
<1>5. IInv /\ IInv'
  BY <1>4, IssueInv DEF FastInv
<1>6. PICK b \in getReadyNodes : Turn({b}) /\ order' = Append(order, b)
  BY <1>4, <1>5, IssueIsTurn
<1>7. b = best
  <2>1. order \in Seq(Nodes) /\ b \in Nodes /\ best \in Nodes
    BY <1>2, <1>5, <1>6 DEF IInv, TypeOK, getReadyNodes, top
  <2>2. /\ Append(order, b)[Len(order) + 1] = b
        /\ Append(order, best)[Len(order) + 1] = best
    BY <2>1
  <2>3. Append(order, b) = Append(order, best)
    BY <1>1, <1>6
  <2> QED
    BY <2>2, <2>3
<1>8. Issuable({b})
  BY <1>6 DEF Issuable, getReadyNodes
<1>9. getReadyNodes' = (getReadyNodes \ {b}) \cup reachedZero
  BY <1>5, <1>6, <1>8, QueueAfterTurn
<1> QED
  BY <1>1, <1>2, <1>4, <1>7, <1>9 DEF ReadyQueueExact

LEMMA FastStallStep ==
    ASSUME FastInv, FastStall
    PROVE  Stall /\ ReadyQueueExact'
<1>1. ready = {} /\ getReadyNodes = {} /\ ready' = reachedZero
  BY DEF FastInv, ReadyQueueExact, FastStall, running
<1>2. Stall
  BY <1>1 DEF FastStall, Stall
<1>3. IInv /\ IInv'
  BY <1>2, StallInv DEF FastInv
<1>4. Turn({}) /\ Issuable({})
  BY <1>2, <1>3, StallIsTurn DEF Issuable
<1> QED
  BY <1>1, <1>2, <1>3, <1>4, QueueAfterTurn DEF ReadyQueueExact

LEMMA FastStartStep ==
    ASSUME NEW p, FastStart(p), UNCHANGED buildVars
    PROVE  StartSchedule(p) /\ ReadyQueueExact'
<1>1. StartSchedule(p) /\ ready' = {v \in Nodes : unscheduled_predecessors'[v] = 0}
  BY DEF FastStart
<1>2. scheduled' = {} /\ Nodes' = Nodes
  BY <1>1 DEF StartSchedule, buildVars, Nodes, N
<1> QED
  BY <1>1, <1>2 DEF ReadyQueueExact, getReadyNodes

\* Every step of scheduleFast is one of schedule, and its queue stays exact.
LEMMA FastStep ==
    ASSUME FastInv, [FastNext]_fastVars
    PROVE  [Next]_vars /\ FastInv'
<1>1. CASE FastBuild
  BY <1>1, StepInv DEF FastBuild, Next, Build, FastInv, ReadyQueueExact, schedVars
<1>2. CASE FastFinishBuild
  <2>1. FinishBuild /\ ReadyQueueExact'
    BY <1>2, FastStartStep DEF FastFinishBuild, FinishBuild
  <2> QED
    BY <2>1, StepInv DEF Next, FastInv
<1>3. CASE FastIssue
  BY <1>3, FastIssueStep, StepInv DEF Next, FastInv
<1>4. CASE FastStall
  BY <1>4, FastStallStep, StepInv DEF Next, FastInv
<1>5. CASE FastNextPolicy
  <2>1. NextPolicy /\ ReadyQueueExact'
    BY <1>5, FastStartStep DEF FastNextPolicy, NextPolicy
  <2> QED
    BY <2>1, StepInv DEF Next, FastInv
<1>6. CASE FastFinish
  BY <1>6, StepInv DEF FastFinish, Finish, Next, FastInv, ReadyQueueExact
<1>7. CASE UNCHANGED fastVars
  <2>1. UNCHANGED vars /\ UNCHANGED ready
    BY <1>7 DEF fastVars
  <2>2. ReadyQueueExact'
    BY <2>1 DEF FastInv, ReadyQueueExact, getReadyNodes, vars, schedVars, buildVars, Nodes, N
  <2> QED
    BY <2>1, <2>2, StepInv DEF FastInv
<1> QED
  BY <1>1, <1>2, <1>3, <1>4, <1>5, <1>6, <1>7 DEF FastNext

LEMMA FastInitInv == ASSUME FastInit PROVE Init /\ FastInv
  BY InitInv DEF FastInit, FastInv, ReadyQueueExact, Init, SchedInit

(* scheduleFast refines schedule: every behaviour of it issues the same
   instructions in the same cycles as one of schedule. *)
THEOREM FastImplementsSchedule == FastSpec => Init /\ [][Next]_vars
<1>1. FastInit => Init /\ FastInv
  BY FastInitInv
<1>2. FastInv /\ [FastNext]_fastVars => [Next]_vars /\ FastInv'
  BY FastStep
<1> QED
  BY <1>1, <1>2, PTL DEF FastSpec

EitherInv == IInv /\ QueueExact

(* Whichever of the two functions is called, the queue is the scan. *)
THEOREM QueueIsScan == EitherSpec => []QueueExact
<1>1. EitherInit => EitherInv
  BY FastInitInv DEF EitherInit, EitherInv, FastInv, QueueExact
<1>2. EitherInv /\ [EitherNext]_eitherVars => EitherInv'
  <2> SUFFICES ASSUME EitherInv, [EitherNext]_eitherVars PROVE EitherInv'
    OBVIOUS
  <2>1. CASE fast /\ [FastNext]_fastVars /\ fast' = fast
    BY <2>1, FastStep DEF EitherInv, FastInv, QueueExact
  <2>2. CASE ~fast /\ [Next]_vars /\ fast' = fast
    BY <2>2, StepInv DEF EitherInv, QueueExact
  <2> QED
    BY <2>1, <2>2 DEF EitherNext, eitherVars, fastVars, EitherInv
<1>3. EitherInv => QueueExact
  BY DEF EitherInv
<1> QED
  BY <1>1, <1>2, <1>3, PTL DEF EitherSpec

-----------------------------------------------------------------------------
(***************************************************************************)
(* A schedule is the same program, and the simulator that judges it finds  *)
(* it no slower than the scheduler did.                                    *)
(***************************************************************************)
(***************************************************************************)
(* order, the past of schedule as a list: it has every issued node, in the *)
(* order of the cycles of issue, and no two of them share a cycle.         *)
(***************************************************************************)
OrderIssued ==
  /\ scheduled = {order[k] : k \in DOMAIN order}
  /\ \A j, k \in DOMAIN order : j < k => schedule_cycle[order[j]] < schedule_cycle[order[k]]
  /\ \A k \in DOMAIN order : k - 1 <= schedule_cycle[order[k]]
  /\ Len(order) <= cycle

PriorityExact == \A u \in Nodes : priority[u] = longestChain(priority, u)

OrderInv == pc # "build" => OrderIssued /\ PriorityExact

LEMMA PrioritySame ==
    ASSUME PriorityExact, UNCHANGED <<buildVars, priority>>
    PROVE  PriorityExact'
<1>1. Nodes' = Nodes /\ instructions' = instructions /\ edges' = edges /\ priority' = priority
  BY DEF buildVars, Nodes, N
<1> SUFFICES ASSUME NEW u \in Nodes
             PROVE  priority'[u] = longestChain(priority, u)'
  BY <1>1 DEF PriorityExact
<1>2. successors(u)' = successors(u)
  BY <1>1 DEF successors
<1>3. longestChain(priority, u)' = longestChain(priority, u)
  BY <1>1, <1>2 DEF longestChain
<1> QED
  BY <1>1, <1>3 DEF PriorityExact

LEMMA StartOrder ==
    ASSUME IInv, NEW p, StartSchedule(p), UNCHANGED buildVars, visited = N
    PROVE  OrderInv'
<1>1. order' = <<>> /\ scheduled' = {} /\ cycle' = 0 /\ priority' = criticalPath
  BY DEF StartSchedule, computePriorities
<1>2. OrderIssued'
  BY <1>1 DEF OrderIssued
<1>3. Nodes' = Nodes /\ instructions' = instructions /\ edges' = edges
  BY DEF buildVars, Nodes, N
<1>4. PriorityExact'
  <2> SUFFICES ASSUME NEW u \in Nodes
               PROVE  priority'[u] = longestChain(priority, u)'
    BY <1>3 DEF PriorityExact
  <2>1. criticalPath[u] = longestChain(criticalPath, u)
    BY CriticalPathExact DEF IInv
  <2> DEFINE c == criticalPath
  <2>2. priority' = c /\ c[u] = longestChain(c, u)
    BY <1>1, <2>1
  <2> HIDE DEF c
  <2>3. successors(u)' = successors(u)
    BY <1>3 DEF successors
  <2>4. longestChain(priority, u)' = longestChain(c, u)
    BY <1>3, <2>2, <2>3 DEF longestChain
  <2> QED
    BY <2>2, <2>4
<1> QED
  BY <1>2, <1>4 DEF OrderInv

LEMMA TurnOrder ==
    ASSUME IInv, OrderInv, NEW new, Turn(new), Issuable(new),
           \/ new = {} /\ order' = order
           \/ \E best : new = {best} /\ order' = Append(order, best)
    PROVE  OrderInv'
<1>1. PriorityExact'
  BY PrioritySame DEF OrderInv, Turn
<1>2. /\ order \in Seq(Nodes) /\ scheduled \subseteq Nodes /\ cycle \in Nat /\ cycle' = cycle + 1
      /\ \A u \in Nodes : schedule_cycle[u] \in Int
      /\ \A u \in scheduled : schedule_cycle[u] \in 0 .. (cycle - 1)
      /\ \A u \in Nodes : schedule_cycle'[u] = IF u \in new THEN cycle ELSE schedule_cycle[u]
      /\ new \subseteq Nodes /\ \A u \in new : u \notin scheduled
      /\ scheduled' = scheduled \cup new
  BY TurnTypes DEF IInv, TypeOK, SchedInv, IssuedEarlier, Issuable, Turn
<1>3. OrderIssued
  BY DEF OrderInv, Turn
<1>4. /\ \A k \in DOMAIN order : order[k] \in scheduled /\ order[k] \in Nodes /\ order[k] \notin new
      /\ \A k \in DOMAIN order : schedule_cycle'[order[k]] = schedule_cycle[order[k]]
  BY <1>2, <1>3 DEF OrderIssued
<1>5. CASE new = {} /\ order' = order
  <2>1. scheduled' = scheduled /\ DOMAIN order' = DOMAIN order
    BY <1>2, <1>5
  <2>2. OrderIssued'
    BY <1>2, <1>3, <1>4, <1>5, <2>1 DEF OrderIssued
  <2> QED
    BY <1>1, <2>2 DEF OrderInv
<1>6. CASE new # {}
  <2>1. PICK best : new = {best} /\ order' = Append(order, best)
    BY <1>6
  <2>2. /\ Len(order') = Len(order) + 1 /\ DOMAIN order' = 1 .. (Len(order) + 1)
        /\ DOMAIN order = 1 .. Len(order) /\ Len(order) \in Nat
        /\ \A k \in DOMAIN order : order'[k] = order[k]
        /\ order'[Len(order) + 1] = best
    BY <1>2, <2>1
  <2>3. schedule_cycle'[best] = cycle
    BY <1>2, <2>1
  <2>4. scheduled' = {order'[k] : k \in DOMAIN order'}
    <3>1. ASSUME NEW u \in scheduled' PROVE \E k \in DOMAIN order' : u = order'[k]
      <4>1. CASE u \in scheduled
        <5>1. PICK k \in DOMAIN order : u = order[k]
          BY <4>1, <1>3 DEF OrderIssued
        <5> QED
          BY <5>1, <2>2
      <4>2. CASE u = best
        <5>1. Len(order) + 1 \in DOMAIN order'
          BY <2>2
        <5> QED
          BY <4>2, <5>1, <2>2
      <4> QED
        BY <3>1, <4>1, <4>2, <1>2, <2>1
    <3>2. ASSUME NEW k \in DOMAIN order' PROVE order'[k] \in scheduled'
      <4>1. k \in DOMAIN order \/ k = Len(order) + 1
        BY <3>2, <2>2
      <4>2. CASE k \in DOMAIN order
        BY <4>2, <1>2, <1>4, <2>2
      <4>3. CASE k = Len(order) + 1
        BY <4>3, <1>2, <2>1, <2>2
      <4> QED
        BY <4>1, <4>2, <4>3
    <3> QED
      BY <3>1, <3>2
  <2>5. ASSUME NEW j \in DOMAIN order', NEW k \in DOMAIN order', j < k
        PROVE  schedule_cycle'[order'[j]] < schedule_cycle'[order'[k]]
    <3>1. j \in DOMAIN order /\ order'[j] = order[j]
      BY <2>2, <2>5
    <3>2. CASE k \in DOMAIN order
      BY <3>1, <3>2, <2>2, <2>5, <1>3, <1>4 DEF OrderIssued
    <3>3. CASE k = Len(order) + 1
      BY <3>1, <3>3, <2>2, <2>3, <1>2, <1>4
    <3> QED
      BY <3>2, <3>3, <2>2
  <2>6. ASSUME NEW k \in DOMAIN order' PROVE k - 1 <= schedule_cycle'[order'[k]]
    BY <1>2, <1>3, <1>4, <2>2, <2>3 DEF OrderIssued
  <2>7. Len(order') <= cycle'
    BY <1>2, <1>3, <2>2 DEF OrderIssued
  <2> QED
    BY <1>1, <2>4, <2>5, <2>6, <2>7 DEF OrderInv, OrderIssued
<1> QED
  BY <1>1, <1>5, <1>6 DEF OrderInv

LEMMA OrderStep == ASSUME IInv, OrderInv, [Next]_vars PROVE OrderInv'
<1>1. CASE Build
  BY <1>1 DEF Build, schedVars, OrderInv
<1>2. CASE FinishBuild
  BY <1>2, StartOrder DEF FinishBuild
<1>3. CASE Issue
  <2>1. PICK best \in getReadyNodes : Turn({best}) /\ order' = Append(order, best)
    BY <1>3, IssueIsTurn
  <2>2. Issuable({best})
    BY DEF Issuable, getReadyNodes
  <2> QED
    BY <2>1, <2>2, TurnOrder
<1>4. CASE Stall
  <2>1. Turn({}) /\ order' = order /\ Issuable({})
    BY <1>4, StallIsTurn DEF Issuable
  <2> QED
    BY <2>1, TurnOrder
<1>5. CASE NextPolicy
  BY <1>5, StartOrder DEF NextPolicy, scheduleReturns, IInv, TypeOK
<1>6. CASE Finish \/ UNCHANGED vars
  <2>1. /\ UNCHANGED <<buildVars, priority, scheduled, schedule_cycle, order, cycle>>
        /\ pc' # "build" => pc # "build"
    BY <1>6 DEF Finish, scheduleReturns, vars, schedVars
  <2>2. OrderIssued => OrderIssued'
    BY <2>1 DEF OrderIssued
  <2> QED
    BY <2>1, <2>2, PrioritySame DEF OrderInv
<1> QED
  BY <1>1, <1>2, <1>3, <1>4, <1>5, <1>6 DEF Next

(* order lists what schedule has issued in the order of the cycles of issue,
   and the priorities are critical paths all the while. *)
THEOREM OrderInvariant == Spec => []OrderInv
<1>1. Init => OrderInv
  BY DEF Init, SchedInit, OrderInv
<1>2. IInv /\ OrderInv /\ [Next]_vars => OrderInv'
  BY OrderStep
<1> QED
  BY <1>1, <1>2, SchedulerInvariant, PTL DEF Spec

(***************************************************************************)
(* Dependency, direct or not: two instructions that use a register, one of *)
(* them writing it, are ordered by every order the edges respect.          *)
(***************************************************************************)
\* The greatest member of a finite set of naturals.
LEMMA GreatestMember ==
    ASSUME NEW S \in SUBSET Nodes, S # {}, BuildInv
    PROVE  /\ \E m \in S : \A x \in S : x <= m
           /\ \E m \in S : \A x \in S : m <= x
<1>1. N \in Nat /\ S \in SUBSET Nat
  BY NodesType DEF Nodes
<1>2. \E m \in S : \A x \in S : m <= x
  BY <1>1, Least
<1> DEFINE T == {N - x : x \in S}
<1>3. T \in SUBSET Nat /\ T # {}
  <2>1. \A x \in S : N - x \in Nat
    BY <1>1 DEF Nodes
  <2> QED
    BY <2>1
<1>4. PICK t \in T : \A y \in T : t <= y
  <2> HIDE DEF T
  <2> QED
    BY <1>3, Least
<1>5. PICK m \in S : t = N - m
  BY <1>4
<1>6. \A x \in S : N - m <= N - x
  BY <1>4, <1>5
<1> QED
  BY <1>1, <1>2, <1>5, <1>6 DEF Nodes

Respects(p) == /\ p \in [Nodes -> Nat]
               /\ \A e \in edges : p[e.from] < p[e.to]

LEMMA DirectEdge ==
    ASSUME BuildInv, visited = N, NEW p, Respects(p),
           NEW r \in RegsOf(instructions), NEW i \in Nodes, NEW j \in Nodes,
           unwrittenBetween(i, j, r),
           \/ writes(i, r) /\ (writes(j, r) \/ reads(j, r))
           \/ reads(i, r) /\ writes(j, r)
    PROVE  p[i] < p[j]
<1>1. <<i, j, r>> \in candidates(visited)
  BY DEF candidates, Nodes, BuildInv, BuildTypeOK
<1>2. PICK type \in DependencyType : edge(i, j, type, r) \in edges
  <2>1. CASE writes(i, r) /\ writes(j, r)
    BY <1>1, <2>1 DEF BuildInv, DagExact, detectWAW, DependencyType
  <2>2. CASE writes(i, r) /\ reads(j, r)
    BY <1>1, <2>2 DEF BuildInv, DagExact, detectRAW, DependencyType
  <2>3. CASE reads(i, r) /\ writes(j, r)
    BY <1>1, <2>3 DEF BuildInv, DagExact, detectWAR, DependencyType
  <2> QED
    BY <2>1, <2>2, <2>3
<1>3. edge(i, j, type, r).from = i /\ edge(i, j, type, r).to = j
  BY DEF edge
<1> QED
  BY <1>2, <1>3 DEF Respects

LEMMA WritersOrdered ==
    ASSUME BuildInv, visited = N, NEW p, Respects(p), NEW r \in RegsOf(instructions)
    PROVE  \A i, j \in Nodes : i < j /\ writes(i, r) /\ writes(j, r) => p[i] < p[j]
<1> DEFINE bad(i, j) == i < j /\ writes(i, r) /\ writes(j, r) /\ ~(p[i] < p[j])
           gaps == {d \in Nat : \E i, j \in Nodes : bad(i, j) /\ d = j - i}
<1>1. gaps = {}
  <2> SUFFICES ASSUME gaps # {} PROVE FALSE
    OBVIOUS
  <2>1. PICK d \in gaps : \A c \in gaps : d <= c
    BY Least
  <2>2. PICK i \in Nodes, j \in Nodes : bad(i, j) /\ d = j - i
    BY <2>1
  <2>3. N \in Nat /\ \A k \in Nodes : k \in Nat /\ p[k] \in Nat
    <3>1. N \in Nat
      BY NodesType
    <3> QED
      BY <3>1 DEF Nodes, Respects
  <2>4. ~unwrittenBetween(i, j, r)
    BY <2>2, DirectEdge
  <2>5. PICK m \in (i + 1) .. (j - 1) : writes(m, r)
    BY <2>2, <2>4 DEF unwrittenBetween
  <2>6. m \in Nodes /\ i < m /\ m < j
    BY <2>3, <2>5 DEF Nodes
  <2>7. m - i \in Nat /\ m - i < d /\ j - m \in Nat /\ j - m < d /\ d \in Nat
    BY <2>2, <2>3, <2>6
  <2>8. m - i \notin gaps /\ j - m \notin gaps
    <3> HIDE DEF gaps
    <3> QED
      BY <2>1, <2>7
  <2>9. ~bad(i, m) /\ ~bad(m, j)
    <3> HIDE DEF bad
    <3> QED
      BY <2>6, <2>7, <2>8
  <2>10. p[i] < p[m] /\ p[m] < p[j]
    BY <2>2, <2>5, <2>6, <2>9
  <2> QED
    BY <2>2, <2>3, <2>6, <2>10
<1>2. ASSUME NEW i \in Nodes, NEW j \in Nodes, bad(i, j) PROVE FALSE
  <2>1. j - i \in Nat
    BY <1>2, NodesType DEF Nodes
  <2> QED
    BY <1>1, <1>2, <2>1
<1> QED
  BY <1>2

LEMMA ReadersOrdered ==
    ASSUME BuildInv, visited = N, NEW p, Respects(p), NEW r \in RegsOf(instructions),
           NEW i \in Nodes, NEW j \in Nodes, i < j,
           (writes(i, r) /\ reads(j, r)) \/ (reads(i, r) /\ writes(j, r))
    PROVE  p[i] < p[j]
<1>0. N \in Nat /\ \A k \in Nodes : k \in Nat /\ p[k] \in Nat
  <2>1. N \in Nat
    BY NodesType
  <2> QED
    BY <2>1 DEF Nodes, Respects
<1>1. CASE writes(i, r) /\ reads(j, r)
  <2> DEFINE S == {m \in Nodes : i <= m /\ m < j /\ writes(m, r)}
  <2>1. i \in S
    BY <1>0, <1>1
  <2>2. PICK m \in S : \A x \in S : x <= m
    BY <2>1, GreatestMember
  <2>3. unwrittenBetween(m, j, r)
    BY <1>0, <2>2 DEF unwrittenBetween, Nodes
  <2>4. p[m] < p[j]
    BY <1>1, <2>2, <2>3, DirectEdge
  <2>5. i = m \/ p[i] < p[m]
    BY <1>0, <1>1, <2>2, WritersOrdered
  <2> QED
    BY <1>0, <2>2, <2>4, <2>5
<1>2. CASE reads(i, r) /\ writes(j, r)
  <2> DEFINE S == {m \in Nodes : i < m /\ m <= j /\ writes(m, r)}
  <2>1. j \in S
    BY <1>0, <1>2
  <2>2. PICK m \in S : \A x \in S : m <= x
    BY <2>1, GreatestMember
  <2>3. unwrittenBetween(i, m, r)
    BY <1>0, <2>2 DEF unwrittenBetween, Nodes
  <2>4. p[i] < p[m]
    BY <1>2, <2>2, <2>3, DirectEdge
  <2>5. m = j \/ p[m] < p[j]
    BY <1>0, <1>2, <2>2, WritersOrdered
  <2> QED
    BY <1>0, <2>2, <2>4, <2>5
<1> QED
  BY <1>1, <1>2

(***************************************************************************)
(* Lines and what is parsed of them: by architectural register, a line     *)
(* that has the form of its opcode defines and uses what the instruction   *)
(* writes and reads.                                                       *)
(***************************************************************************)
definedNames(line) ==
  IF WritesNothing(line) \/ Len(line.ops) = 0 THEN {} ELSE {line.ops[1].text}

usedNames(line) ==
       {line.ops[i].text : i \in (IF WritesNothing(line) THEN 1 ELSE 2) .. Len(line.ops)}
  \cup {line.ops[i].base : i \in DOMAIN line.ops}

ReadsAll(line, ins) ==
  \A r \in DOMAIN Names : /\ r \in definedNames(line) <=> r = ins.dest
                          /\ r \in usedNames(line) <=> r \in ins.srcs

LEMMA LineParts ==
    ASSUME NEW line \in Line, NEW r \in DOMAIN Names
    PROVE  /\ Len(line.ops) \in Nat /\ DOMAIN line.ops = 1 .. Len(line.ops)
           /\ isRegister(r) /\ r # NoReg /\ ~isRegister(NoReg)
           /\ r \in definedNames(line) <=> /\ ~WritesNothing(line) /\ Len(line.ops) >= 1
                                           /\ r = line.ops[1].text
           /\ r \in usedNames(line) <=>
                \/ \E i \in DOMAIN line.ops : /\ r = line.ops[i].text
                                              /\ i > 1 \/ WritesNothing(line)
                \/ \E i \in DOMAIN line.ops : r = line.ops[i].base
<1>1. line.ops \in Seq(Operand)
  BY DEF Line
<1>2. Len(line.ops) \in Nat /\ DOMAIN line.ops = 1 .. Len(line.ops)
  BY <1>1
<1>3. NoReg \notin DOMAIN Names
  BY NamesAssumption
<1> QED
  BY <1>2, <1>3 DEF isRegister, definedNames, usedNames

LEMMA LineReads ==
    ASSUME NEW line \in Line, WellFormed(line)
    PROVE  ReadsAll(line, parseLine(line))
<1> DEFINE op == line.opcode
           ops == line.ops
           first == firstOf(line)
<1> SUFFICES ASSUME NEW r \in DOMAIN Names
             PROVE  /\ r \in definedNames(line) <=> r = parseLine(line).dest
                    /\ r \in usedNames(line) <=> r \in parseLine(line).srcs
  BY DEF ReadsAll
<1>0. /\ Len(ops) \in Nat /\ DOMAIN ops = 1 .. Len(ops)
      /\ isRegister(r) /\ r # NoReg /\ ~isRegister(NoReg)
  BY LineParts
<1>1. r \in definedNames(line) <=> /\ ~WritesNothing(line) /\ Len(ops) >= 1
                                   /\ r = ops[1].text
  BY LineParts
<1>2. r \in usedNames(line) <=>
        \/ \E i \in DOMAIN ops : r = ops[i].text /\ (i > 1 \/ WritesNothing(line))
        \/ \E i \in DOMAIN ops : r = ops[i].base
  BY LineParts
<1>3. /\ \A i \in DOMAIN ops : r = ops[i].base => (isLoad(op) \/ isStore(op)) /\ i = 2
      /\ isRType(op) => Len(ops) >= 3 /\ \A i \in DOMAIN ops : r = ops[i].text => i \in 1 .. 3
      /\ isIType(op) \/ isBranch(op) \/ op \in {"mv", "jalr"} =>
           Len(ops) >= 2 /\ \A i \in DOMAIN ops : r = ops[i].text => i \in 1 .. 2
      /\ isLoad(op) \/ isStore(op) =>
           Len(ops) >= 2 /\ \A i \in DOMAIN ops : r = ops[i].text => i = 1
      /\ op \in {"li", "lui", "auipc", "jal"} => \A i \in DOMAIN ops : r = ops[i].text => i = 1
  BY <1>0 DEF WellFormed
<1>4. \A arity \in Nat : \A dest, srcs :
        /\ r = form(line, arity, dest, srcs).dest <=> Len(ops) >= arity /\ r = dest
        /\ r \in form(line, arity, dest, srcs).srcs <=> Len(ops) >= arity /\ r \in srcs
  BY <1>0 DEF form
<1>5. Len(ops) >= 1 => first = ops[1].text
  BY DEF firstOf
<1> HIDE DEF first
<1> USE DEF isRType, isIType, isLoad, isStore, isBranch, WritesNothing
<1>6. CASE isRType(op)
  <2>1. parseLine(line) = form(line, 3, first, {ops[2].text, ops[3].text})
    BY <1>6 DEF parseLine, first
  <2> QED
    BY <2>1, <1>0, <1>1, <1>2, <1>3, <1>4, <1>5, <1>6
<1>7. CASE isLoad(op)
  <2>1. parseLine(line) = form(line, 2, first, {ops[2].base})
    BY <1>7 DEF parseLine, first
  <2> QED
    BY <2>1, <1>0, <1>1, <1>2, <1>3, <1>4, <1>5, <1>7
<1>8. CASE isStore(op)
  <2>1. parseLine(line) = form(line, 2, NoReg, {first, ops[2].base})
    BY <1>8 DEF parseLine, first
  <2> QED
    BY <2>1, <1>0, <1>1, <1>2, <1>3, <1>4, <1>5, <1>8
<1>9. CASE isIType(op) \/ op \in {"mv", "jalr"}
  <2>1. parseLine(line) = form(line, 2, first, {ops[2].text})
    BY <1>9 DEF parseLine, first
  <2> QED
    BY <2>1, <1>0, <1>1, <1>2, <1>3, <1>4, <1>5, <1>9
<1>10. CASE isBranch(op)
  <2>1. parseLine(line) = form(line, 2, NoReg, {first, ops[2].text})
    BY <1>10 DEF parseLine, first
  <2> QED
    BY <2>1, <1>0, <1>1, <1>2, <1>3, <1>4, <1>5, <1>10
<1>11. CASE op \in {"li", "lui", "auipc"}
  <2>1. parseLine(line) = form(line, 1, first, {})
    BY <1>11 DEF parseLine, first
  <2> QED
    BY <2>1, <1>0, <1>1, <1>2, <1>3, <1>4, <1>5, <1>11
<1> DEFINE firstRegister == IF isRegister(first) THEN first ELSE NoReg
<1>12. r = firstRegister <=> r = first
  BY <1>0
<1> HIDE DEF firstRegister
<1>13. CASE op = "jal"
  <2>1. parseLine(line) = form(line, 1, firstRegister, {})
    BY <1>13 DEF parseLine, first, firstRegister
  <2> QED
    BY <2>1, <1>0, <1>1, <1>2, <1>3, <1>4, <1>5, <1>12, <1>13
<1>14. CASE ~ \/ isRType(op) \/ isLoad(op) \/ isStore(op) \/ isIType(op) \/ isBranch(op)
              \/ op \in {"mv", "jalr", "li", "lui", "auipc", "jal"}
  <2>1. parseLine(line) = form(line, 0, firstRegister, {ops[i].text : i \in 2 .. Len(ops)})
    BY <1>14 DEF parseLine, first, firstRegister
  <2>2. Len(ops) = 0 => first = NoReg
    BY DEF first, firstOf
  <2>3. WritesNothing(line) = FALSE
    BY <1>14
  <2> QED
    BY <2>1, <2>2, <2>3, <1>0, <1>1, <1>2, <1>3, <1>4, <1>5, <1>12, <1>14
<1> QED
  BY <1>6, <1>7, <1>8, <1>9, <1>10, <1>11, <1>13, <1>14

\* The name under which a program writes and reads an architectural register.
LEMMA RegisterName ==
    ASSUME BuildInv, ProgramsReadable, NEW i \in Nodes,
           NEW a \in Defines(lines[i]) \cup Uses(lines[i])
    PROVE  \E n \in RegsOf(instructions) : \A j \in Nodes :
             /\ a \in Defines(lines[j]) <=> writes(j, n)
             /\ a \in Uses(lines[j]) <=> reads(j, n)
<1>1. /\ lines \in Programs /\ instructions = parse(lines) /\ instructions \in Seq(Instruction)
      /\ lines \in Seq(Line)
  BY ProgramsAssumption DEF BuildInv, BuildTypeOK
<1>2. /\ DOMAIN instructions = Nodes /\ DOMAIN lines = Nodes
      /\ \A j \in Nodes : lines[j] \in Line /\ instructions[j] = parseLine(lines[j])
  BY <1>1, ParseType DEF Nodes, N, parse
<1>3. \A j \in Nodes : ReadsAll(lines[j], instructions[j])
  BY <1>1, <1>2, LineReads DEF ProgramsReadable
<1>4. \A r, s \in RegsOf(instructions) \cap DOMAIN Names : Names[r] = Names[s] => r = s
  BY <1>1 DEF ProgramsReadable
<1>5. \A j \in Nodes : \A r \in DOMAIN Names :
        r = instructions[j].dest \/ r \in instructions[j].srcs => r \in RegsOf(instructions)
  BY <1>2, NamesAssumption DEF RegsOf
<1>6. \A j \in Nodes : \A b :
        /\ b \in Defines(lines[j]) <=>
             \E r \in DOMAIN Names : Names[r] = b /\ r \in definedNames(lines[j])
        /\ b \in Uses(lines[j]) <=>
             \E r \in DOMAIN Names : Names[r] = b /\ r \in usedNames(lines[j])
  <2> SUFFICES ASSUME NEW j \in Nodes
               PROVE  /\ Defines(lines[j]) = Architectural(definedNames(lines[j]))
                      /\ Uses(lines[j]) = Architectural(usedNames(lines[j]))
    BY DEF Architectural, isRegister
  <2>1. Architectural({}) = {}
    BY DEF Architectural
  <2> QED
    BY <2>1 DEF Defines, Uses, definedNames, usedNames
<1>7. PICK n \in DOMAIN Names : Names[n] = a /\ n \in RegsOf(instructions)
  BY <1>3, <1>5, <1>6 DEF ReadsAll
<1>8. ASSUME NEW j \in Nodes
      PROVE  /\ a \in Defines(lines[j]) <=> writes(j, n)
             /\ a \in Uses(lines[j]) <=> reads(j, n)
  <2>1. \A r \in DOMAIN Names :
          Names[r] = a /\ (r = instructions[j].dest \/ r \in instructions[j].srcs) => r = n
    BY <1>4, <1>5, <1>7
  <2> QED
    BY <2>1, <1>3, <1>6, <1>7 DEF ReadsAll, writes, reads
<1> QED
  BY <1>7, <1>8

(***************************************************************************)
(* An arrangement of the instructions that respects the edges preserves    *)
(* what every line reads.                                                  *)
(***************************************************************************)
Arrangement(ord) ==
  /\ ord \in [Nodes -> Nodes]
  /\ \A u \in Nodes : \E k \in Nodes : ord[k] = u
  /\ \A j, k \in Nodes : ord[j] = ord[k] => j = k
  /\ \A e \in edges : \A j, k \in Nodes : ord[j] = e.from /\ ord[k] = e.to => j < k

\* The position of a line in an arrangement.
at(ord, u) == CHOOSE k \in Nodes : ord[k] = u

LEMMA Positions ==
    ASSUME BuildInv, visited = N, NEW ord, Arrangement(ord)
    PROVE  /\ \A u \in Nodes : at(ord, u) \in Nodes /\ ord[at(ord, u)] = u
           /\ \A k \in Nodes : at(ord, ord[k]) = k
           /\ Respects([u \in Nodes |-> at(ord, u)])
<1>1. \A u \in Nodes : at(ord, u) \in Nodes /\ ord[at(ord, u)] = u
  BY DEF Arrangement, at
<1>2. \A k \in Nodes : at(ord, ord[k]) = k
  BY <1>1 DEF Arrangement
<1>3. \A e \in edges : e.from \in Nodes /\ e.to \in Nodes
  BY EdgesForward DEF Nodes
<1>4. \A e \in edges : at(ord, e.from) < at(ord, e.to)
  BY <1>1, <1>3 DEF Arrangement
<1>5. Nodes \subseteq Nat
  BY NodesType DEF Nodes
<1> QED
  BY <1>1, <1>2, <1>3, <1>4, <1>5 DEF Respects

\* Position k of ord and position v of the program see the same writer of a,
\* if the same lines that write a come before them.
LEMMA SameDefinition ==
    ASSUME BuildInv, visited = N, ProgramsReadable, NEW ord, Arrangement(ord), NEW a,
           NEW k \in 1 .. (N + 1), NEW v \in 1 .. (N + 1),
           \A j \in Nodes : a \in Defines(lines[ord[j]]) => (j < k <=> ord[j] < v)
    PROVE  reachingDefinition(ord, k, a) = reachingDefinition(originalOrder, v, a)
<1> DEFINE P == {j \in 1 .. (k - 1) : a \in Defines(lines[ord[j]])}
           Q == {j \in 1 .. (v - 1) : a \in Defines(lines[originalOrder[j]])}
<1>1. N \in Nat /\ Nodes \subseteq Nat
  BY NodesType DEF Nodes
<1>2. /\ P = {j \in Nodes : j < k /\ a \in Defines(lines[ord[j]])}
      /\ Q = {j \in Nodes : j < v /\ a \in Defines(lines[j])}
  BY <1>1 DEF Nodes, originalOrder
<1>3. /\ \A j \in P : ord[j] \in Q
      /\ \A u \in Q : at(ord, u) \in P /\ ord[at(ord, u)] = u
  <2>1. ASSUME NEW j \in P PROVE ord[j] \in Q
    BY <1>2, <2>1 DEF Arrangement
  <2>2. ASSUME NEW u \in Q PROVE at(ord, u) \in P /\ ord[at(ord, u)] = u
    BY <1>2, <2>2, Positions
  <2> QED
    BY <2>1, <2>2
<1>4. CASE P = {}
  <2>1. Q = {}
    BY <1>3, <1>4
  <2> QED
    BY <1>4, <2>1 DEF reachingDefinition
<1>5. CASE P # {}
  <2>1. Q # {} /\ Q \in SUBSET Nodes /\ P \in SUBSET Nodes
    <3> HIDE DEF P, Q
    <3>1. Q # {}
      BY <1>3, <1>5
    <3> QED
      BY <1>2, <3>1
  <2> DEFINE p == CHOOSE j \in P : \A m \in P : m <= j
             q == CHOOSE j \in Q : \A m \in Q : m <= j
  <2>2. p \in P /\ \A m \in P : m <= p
    <3> HIDE DEF P
    <3> QED
      BY <1>5, <2>1, GreatestMember
  <2>3. q \in Q /\ \A m \in Q : m <= q
    <3> HIDE DEF Q
    <3> QED
      BY <2>1, GreatestMember
  <2>4. reachingDefinition(ord, k, a) = ord[p]
    BY <1>5 DEF reachingDefinition
  <2>5. reachingDefinition(originalOrder, v, a) = originalOrder[q]
    BY <2>1 DEF reachingDefinition
  <2> HIDE DEF p, q
  <2>6. originalOrder[q] = q
    BY <2>1, <2>3 DEF originalOrder
  <2> DEFINE w == ord[p]
             place == [u \in Nodes |-> at(ord, u)]
  <2>7. w \in Q /\ at(ord, q) \in P /\ at(ord, w) = p
    BY <1>3, <2>1, <2>2, <2>3, Positions
  <2>8. w <= q /\ at(ord, q) <= p
    BY <2>2, <2>3, <2>7
  <2>9. /\ w \in Nodes /\ q \in Nodes
        /\ a \in Defines(lines[w]) /\ a \in Defines(lines[q])
    BY <1>2, <2>3, <2>7
  <2>10. PICK n \in RegsOf(instructions) : writes(w, n) /\ writes(q, n)
    BY <2>9, RegisterName
  <2> HIDE DEF w
  <2>11. w < q => place[w] < place[q]
    <3> HIDE DEF place
    <3>1. Respects(place)
      BY Positions DEF place
    <3> QED
      BY <3>1, <2>9, <2>10, WritersOrdered
  <2>12. w = q
    BY <1>1, <1>2, <2>2, <2>7, <2>8, <2>9, <2>11
  <2> QED
    BY <2>4, <2>5, <2>6, <2>12 DEF w
<1> QED
  BY <1>4, <1>5

LEMMA ArrangementPreserves ==
    ASSUME BuildInv, visited = N, ProgramsReadable, NEW ord, Arrangement(ord)
    PROVE  /\ \A k \in Nodes : \A a \in Uses(lines[ord[k]]) :
                reachingDefinition(ord, k, a) = reachingDefinition(originalOrder, ord[k], a)
           /\ \A a : reachingDefinition(ord, N + 1, a)
                       = reachingDefinition(originalOrder, N + 1, a)
<1>1. N \in Nat /\ Nodes = 1 .. N
  BY NodesType DEF Nodes
<1>2. ASSUME NEW k \in Nodes, NEW a \in Uses(lines[ord[k]])
      PROVE  reachingDefinition(ord, k, a) = reachingDefinition(originalOrder, ord[k], a)
  <2> DEFINE v == ord[k]
             place == [u \in Nodes |-> at(ord, u)]
  <2>1. v \in Nodes /\ place[v] = k
    BY Positions DEF Arrangement
  <2>2. Respects(place)
    BY Positions
  <2>3. PICK n \in RegsOf(instructions) : \A j \in Nodes :
          /\ a \in Defines(lines[j]) <=> writes(j, n)
          /\ a \in Uses(lines[j]) <=> reads(j, n)
    BY <2>1, RegisterName
  <2>4. ASSUME NEW j \in Nodes, a \in Defines(lines[ord[j]]) PROVE j < k <=> ord[j] < v
    <3>1. ord[j] \in Nodes /\ place[ord[j]] = j
      BY Positions DEF Arrangement
    <3>2. writes(ord[j], n) /\ reads(v, n)
      BY <2>1, <2>3, <2>4, <3>1
    <3>3. ord[j] = v => j = k
      BY DEF Arrangement
    <3> DEFINE w == ord[j]
    <3> HIDE DEF place, v, w
    <3>4. w \in Nodes /\ v \in Nodes /\ writes(w, n) /\ reads(v, n)
      BY <2>1, <3>1, <3>2 DEF w
    <3>5. ASSUME w < v PROVE place[w] < place[v]
      BY <2>2, <3>4, <3>5, ReadersOrdered
    <3>6. ASSUME v < w PROVE place[v] < place[w]
      BY <2>2, <3>4, <3>6, ReadersOrdered
    <3> QED
      BY <1>1, <2>1, <3>1, <3>3, <3>4, <3>5, <3>6 DEF w
  <2> QED
    BY <1>1, <2>1, <2>4, SameDefinition
<1>3. ASSUME NEW a
      PROVE  reachingDefinition(ord, N + 1, a) = reachingDefinition(originalOrder, N + 1, a)
  <2>1. \A j \in Nodes : ord[j] \in Nodes
    BY DEF Arrangement
  <2> QED
    BY <1>1, <2>1, SameDefinition
<1> QED
  BY <1>2, <1>3

(***************************************************************************)
(* What schedule returns is such an arrangement.                           *)
(***************************************************************************)
LEMMA ReturnedOrder ==
    ASSUME IInv, OrderInv, scheduleReturns
    PROVE  /\ Arrangement(order) /\ scheduled = Nodes /\ visited = N
           /\ DOMAIN order = Nodes /\ Len(order) = N
           /\ \A u \in Nodes : schedule_cycle[u] \in Int
<1>1. /\ order \in Seq(Nodes) /\ scheduled \subseteq Nodes /\ Cardinality(scheduled) = Len(order)
      /\ visited = N /\ Len(order) >= N /\ OrderIssued /\ DependenciesRespected
      /\ \A u \in Nodes : schedule_cycle[u] \in Int
  BY DEF IInv, TypeOK, SchedInv, OrderExact, OrderInv, scheduleReturns
<1>2. N \in Nat /\ IsFiniteSet(Nodes) /\ Cardinality(Nodes) = N
  BY NodesType, FS_Interval DEF Nodes, IInv
<1>3. scheduled = Nodes /\ Len(order) = N
  <2>1. Cardinality(scheduled) <= N
    BY <1>1, <1>2, FS_Subset
  <2>2. Cardinality(scheduled) = Cardinality(Nodes)
    BY <1>1, <1>2, <2>1
  <2> QED
    BY <1>1, <1>2, <2>2, FS_Subset
<1>4. DOMAIN order = Nodes /\ order \in [Nodes -> Nodes]
  BY <1>1, <1>3 DEF Nodes
<1>5. \A u \in Nodes : \E k \in Nodes : order[k] = u
  BY <1>1, <1>3, <1>4 DEF OrderIssued
<1>6. \A j, k \in Nodes : schedule_cycle[order[j]] < schedule_cycle[order[k]] => j < k
  <2> SUFFICES ASSUME NEW j \in Nodes, NEW k \in Nodes,
                      schedule_cycle[order[j]] < schedule_cycle[order[k]], ~(j < k)
               PROVE  FALSE
    OBVIOUS
  <2>1. k < j \/ k = j
    BY <1>2 DEF Nodes
  <2>2. k < j => schedule_cycle[order[k]] < schedule_cycle[order[j]]
    BY <1>1, <1>4 DEF OrderIssued
  <2>3. schedule_cycle[order[j]] \in Int /\ schedule_cycle[order[k]] \in Int
    BY <1>1, <1>4
  <2> QED
    BY <2>1, <2>2, <2>3
<1>7. \A j, k \in Nodes : order[j] = order[k] => j = k
  <2> SUFFICES ASSUME NEW j \in Nodes, NEW k \in Nodes, order[j] = order[k], j # k
               PROVE  FALSE
    OBVIOUS
  <2>1. j < k \/ k < j
    BY <1>2 DEF Nodes
  <2>2. schedule_cycle[order[j]] < schedule_cycle[order[k]]
        \/ schedule_cycle[order[k]] < schedule_cycle[order[j]]
    BY <1>1, <1>4, <2>1 DEF OrderIssued
  <2>3. schedule_cycle[order[k]] \in Int
    BY <1>1, <1>4
  <2> QED
    BY <2>2, <2>3
<1>8. ASSUME NEW e \in edges, NEW j \in Nodes, NEW k \in Nodes,
             order[j] = e.from, order[k] = e.to
      PROVE  j < k
  <2>1. schedule_cycle[e.to] >= schedule_cycle[e.from]
          + (IF e.type = "RAW" THEN instructions[e.from].latency ELSE 1)
    BY <1>1, <1>3, <1>4, <1>8 DEF DependenciesRespected, scheduleReturns
  <2>2. /\ schedule_cycle[e.to] \in Int /\ schedule_cycle[e.from] \in Int
        /\ instructions[e.from].latency \in Nat /\ instructions[e.from].latency > 0
    BY <1>1, <1>4, <1>8, NodesType DEF IInv
  <2> QED
    BY <1>6, <1>8, <2>1, <2>2
<1> QED
  BY <1>1, <1>3, <1>4, <1>5, <1>7, <1>8 DEF Arrangement

(* A schedule is the same program, for every program whose lines have the
   forms the parser reads and that spells each register in one way: schedule
   returns every line once, each reading in each of its registers what it
   read in the original order, and leaves every register as it was left. *)
THEOREM SchedulePreservesSemantics ==
    ASSUME ProgramsReadable
    PROVE  Spec => []SemanticsPreserved
<1>1. IInv /\ OrderInv => SemanticsPreserved
  <2> SUFFICES ASSUME IInv, OrderInv, scheduleReturns
               PROVE  /\ {order[k] : k \in 1 .. N} = Nodes /\ Len(order) = N
                      /\ \A k \in 1 .. N : \A r \in Uses(lines[order[k]]) :
                           reachingDefinition(order, k, r)
                             = reachingDefinition(originalOrder, order[k], r)
                      /\ \A r \in UNION {Defines(lines[i]) : i \in Nodes} :
                           reachingDefinition(order, N + 1, r)
                             = reachingDefinition(originalOrder, N + 1, r)
    BY DEF SemanticsPreserved
  <2>1. Arrangement(order) /\ Len(order) = N /\ visited = N /\ BuildInv
    BY ReturnedOrder DEF IInv
  <2>2. {order[k] : k \in 1 .. N} = Nodes
    BY <2>1 DEF Arrangement, Nodes
  <2> QED
    BY <2>1, <2>2, ArrangementPreserves DEF Nodes
<1> QED
  BY <1>1, SchedulerInvariant, OrderInvariant, PTL

(***************************************************************************)
(* The simulator.  An instruction starts at the latest of its position and *)
(* of what each instruction it depends on asks for.                        *)
(***************************************************************************)
\* What the edge e asks of its target when its source starts at cycle t.
demand(e, t) == t + (IF e.type = "RAW" THEN instructions[e.from].latency ELSE 1)

demands(ord, start, k) ==
  {start[q[1]] + (IF q[2].type = "RAW" THEN instructions[ord[q[1]]].latency ELSE 1) :
     q \in {p \in (1 .. (k - 1)) \X predecessors(ord[k]) : ord[p[1]] = p[2].from}}

startAt(ord, start, k) == longest({k - 1} \cup demands(ord, start, k))

LEMMA Demands ==
    ASSUME NEW ord, NEW start, NEW k
    PROVE  \A d : d \in demands(ord, start, k) <=>
             \E j \in 1 .. (k - 1) : \E e \in edges :
               ord[j] = e.from /\ e.to = ord[k] /\ d = demand(e, start[j])
<1>1. ASSUME NEW d \in demands(ord, start, k)
      PROVE  \E j \in 1 .. (k - 1) : \E e \in edges :
               ord[j] = e.from /\ e.to = ord[k] /\ d = demand(e, start[j])
  <2>1. PICK q \in (1 .. (k - 1)) \X predecessors(ord[k]) :
          /\ ord[q[1]] = q[2].from
          /\ d = start[q[1]] + (IF q[2].type = "RAW" THEN instructions[ord[q[1]]].latency ELSE 1)
    BY DEF demands
  <2>2. q[1] \in 1 .. (k - 1) /\ q[2] \in edges /\ q[2].to = ord[k]
    BY <2>1 DEF predecessors
  <2> QED
    BY <2>1, <2>2 DEF demand
<1>2. ASSUME NEW j \in 1 .. (k - 1), NEW e \in edges, ord[j] = e.from, e.to = ord[k]
      PROVE  demand(e, start[j]) \in demands(ord, start, k)
  <2>1. <<j, e>> \in {p \in (1 .. (k - 1)) \X predecessors(ord[k]) : ord[p[1]] = p[2].from}
    BY <1>2 DEF predecessors
  <2> QED
    BY <1>2, <2>1 DEF demands, demand
<1> QED
  BY <1>1, <1>2

LEMMA StartType ==
    ASSUME BuildInv, visited = N, NEW ord \in [Nodes -> Nodes], NEW k \in Nodes, NEW start,
           \A j \in Nodes : j < k => start[j] \in Nat
    PROVE  LET S == {k - 1} \cup demands(ord, start, k)
           IN  /\ S \subseteq Nat
               /\ startAt(ord, start, k) \in S
               /\ \A x \in S : x <= startAt(ord, start, k)
<1> DEFINE pairs == {p \in (1 .. (k - 1)) \X predecessors(ord[k]) : ord[p[1]] = p[2].from}
           D == demands(ord, start, k)
           g == [q \in pairs |->
                   start[q[1]] + (IF q[2].type = "RAW" THEN instructions[ord[q[1]]].latency ELSE 1)]
<1>1. N \in Nat /\ k \in Nat /\ k >= 1 /\ k <= N /\ 1 .. (k - 1) \subseteq Nodes
  BY NodesType DEF Nodes
<1>2. IsFiniteSet(pairs)
  <2>1. IsFiniteSet(1 .. (k - 1)) /\ IsFiniteSet(predecessors(ord[k]))
    BY <1>1, FS_Interval, HeldFinite
  <2>2. IsFiniteSet((1 .. (k - 1)) \X predecessors(ord[k]))
    BY <2>1, FS_Product
  <2> QED
    BY <2>2, FS_Subset
<1>3. IsFiniteSet(D)
  <2>1. g \in Surjection(pairs, D)
    BY DEF Surjection, demands
  <2> HIDE DEF g, pairs, D
  <2> QED
    BY <1>2, <2>1, FS_Surjection
<1>4. D \subseteq Nat
  <2> SUFFICES ASSUME NEW d \in D PROVE d \in Nat
    OBVIOUS
  <2>1. PICK j \in 1 .. (k - 1), e \in edges : ord[j] = e.from /\ d = demand(e, start[j])
    BY Demands
  <2>2. start[j] \in Nat /\ e.from \in Nodes
    BY <1>1, <2>1
  <2> QED
    BY <2>1, <2>2, NodesType DEF demand
<1> HIDE DEF D
<1>5. {k - 1} \cup D \in SUBSET Nat /\ {k - 1} \cup D # {} /\ IsFiniteSet({k - 1} \cup D)
  <2>1. IsFiniteSet({k - 1})
    BY FS_Singleton
  <2>2. IsFiniteSet({k - 1} \cup D)
    BY <1>3, <2>1, FS_Union
  <2>3. k - 1 \in Nat
    BY <1>1
  <2> QED
    BY <1>4, <2>2, <2>3
<1>6. /\ longest({k - 1} \cup D) \in {k - 1} \cup D
      /\ \A x \in {k - 1} \cup D : x <= longest({k - 1} \cup D)
  BY <1>5, Greatest
<1> QED
  BY <1>5, <1>6 DEF startAt, D

\* A start is determined by the starts of the earlier positions.
LEMMA StartLocal ==
    ASSUME BuildInv, NEW ord, NEW k \in Nodes, NEW s, NEW t,
           \A j \in Nodes : j < k => s[j] = t[j]
    PROVE  startAt(ord, s, k) = startAt(ord, t, k)
<1>1. \A j \in 1 .. (k - 1) : s[j] = t[j]
  BY NodesType DEF Nodes
<1>2. demands(ord, s, k) = demands(ord, t, k)
  <2>1. \A e : \A j \in 1 .. (k - 1) : demand(e, s[j]) = demand(e, t[j])
    BY <1>1
  <2>2. \A d : d \in demands(ord, s, k) <=> d \in demands(ord, t, k)
    BY <2>1, Demands
  <2> QED
    BY <2>2
<1> QED
  BY <1>2 DEF startAt

(* The recursion of simulateExecution ends, as computeCriticalPath's does. *)
LEMMA SimulationExists ==
    ASSUME BuildInv, visited = N, NEW ord \in [Nodes -> Nodes]
    PROVE  \E s \in [Nodes -> Nat] : s = [k \in DOMAIN ord |-> startAt(ord, s, k)]
<1> DEFINE solved(n) == \E s \in [Nodes -> Nat] :
                           \A k \in Nodes : k <= n => s[k] = startAt(ord, s, k)
           unsolved == {n \in 0 .. N : ~solved(n)}
<1>0. N \in Nat /\ Nodes = 1 .. N
  BY NodesType DEF Nodes
<1>1. solved(0)
  <2>1. [k \in Nodes |-> 0] \in [Nodes -> Nat]
    OBVIOUS
  <2>2. \A k \in Nodes : ~(k <= 0)
    BY <1>0
  <2> QED
    BY <2>1, <2>2
<1>2. ASSUME NEW n \in 0 .. N, n > 0, solved(n - 1) PROVE solved(n)
  <2>1. PICK s \in [Nodes -> Nat] :
          \A k \in Nodes : k <= n - 1 => s[k] = startAt(ord, s, k)
    BY <1>2
  <2> DEFINE g == [s EXCEPT ![n] = startAt(ord, s, n)]
  <2>2. n \in Nodes /\ \A j \in Nodes : s[j] \in Nat
    BY <1>0, <1>2
  <2>3. startAt(ord, s, n) \in Nat
    BY <2>2, StartType
  <2>4. g \in [Nodes -> Nat]
    BY <2>3
  <2>5. ASSUME NEW k \in Nodes, k <= n PROVE g[k] = startAt(ord, g, k)
    <3>1. \A j \in Nodes : j < k => s[j] = g[j]
      BY <1>0, <1>2, <2>5
    <3>2. startAt(ord, s, k) = startAt(ord, g, k)
      <4> HIDE DEF g
      <4> QED
        BY <3>1, StartLocal
    <3>3. g[k] = startAt(ord, s, k)
      <4>1. CASE k = n
        BY <2>2, <4>1
      <4>2. CASE k # n
        BY <1>0, <2>1, <2>5, <4>2
      <4> QED
        BY <4>1, <4>2
    <3> QED
      BY <3>2, <3>3
  <2> HIDE DEF g
  <2> QED
    BY <2>4, <2>5
<1>3. unsolved = {}
  <2> SUFFICES ASSUME unsolved # {} PROVE FALSE
    OBVIOUS
  <2>1. PICK n \in unsolved : \A m \in unsolved : n <= m
    <3>1. unsolved \in SUBSET Nat
      BY <1>0
    <3> HIDE DEF unsolved
    <3> QED
      BY <3>1, Least
  <2>2. n \in 0 .. N /\ ~solved(n)
    BY <2>1
  <2> HIDE DEF solved
  <2>3. n > 0 /\ n - 1 \in 0 .. N
    BY <1>0, <1>1, <2>2
  <2>4. solved(n - 1)
    BY <1>0, <2>1, <2>3
  <2> QED
    BY <1>2, <2>2, <2>3, <2>4
<1>4. solved(N)
  <2> HIDE DEF solved
  <2> QED
    BY <1>0, <1>3
<1>5. PICK s \in [Nodes -> Nat] : \A k \in Nodes : k <= N => s[k] = startAt(ord, s, k)
  BY <1>4
<1> QED
  BY <1>0, <1>5

LEMMA SimulationExact ==
    ASSUME BuildInv, visited = N, NEW ord \in [Nodes -> Nodes]
    PROVE  /\ simulateExecution(ord) \in [Nodes -> Nat]
           /\ \A k \in Nodes : simulateExecution(ord)[k] = startAt(ord, simulateExecution(ord), k)
<1> DEFINE c == simulateExecution(ord)
           wrong == {k \in Nodes : c[k] \notin Nat}
<1>0. N \in Nat /\ Nodes = 1 .. N /\ DOMAIN ord = Nodes
  BY NodesType DEF Nodes
<1>1. c = [k \in DOMAIN ord |-> startAt(ord, c, k)]
  <2>1. c = CHOOSE s : s = [k \in DOMAIN ord |-> startAt(ord, s, k)]
    BY DEF simulateExecution, startAt, demands
  <2> HIDE DEF c
  <2> QED
    BY <2>1, SimulationExists
<1> HIDE DEF c
<1>2. wrong = {}
  <2> SUFFICES ASSUME wrong # {} PROVE FALSE
    OBVIOUS
  <2>1. PICK k \in wrong : \A m \in wrong : k <= m
    <3>1. wrong \in SUBSET Nat
      BY <1>0
    <3> HIDE DEF wrong
    <3> QED
      BY <3>1, Least
  <2>2. k \in Nodes /\ \A j \in Nodes : j < k => c[j] \in Nat
    <3>1. k \in Nodes /\ \A m \in Nodes : c[m] \notin Nat => k <= m
      BY <2>1
    <3>2. ASSUME NEW j \in Nodes, j < k PROVE c[j] \in Nat
      <4>1. ~(k <= j)
        BY <1>0, <3>1, <3>2
      <4> QED
        BY <3>1, <4>1
    <3> QED
      BY <3>1, <3>2
  <2>3. startAt(ord, c, k) \in Nat
    BY <2>2, StartType
  <2> QED
    BY <1>0, <1>1, <2>1, <2>2, <2>3
<1>3. \A k \in Nodes : c[k] \in Nat /\ c[k] = startAt(ord, c, k)
  BY <1>0, <1>1, <1>2
<1>4. c \in [Nodes -> Nat]
  BY <1>0, <1>1, <1>3
<1> QED
  BY <1>3, <1>4 DEF c

LEMMA SimulationBounds ==
    ASSUME BuildInv, visited = N, NEW ord, Arrangement(ord)
    PROVE  LET sim == simulateExecution(ord)
           IN  /\ sim \in [Nodes -> Nat]
               /\ \A k \in Nodes : k - 1 <= sim[k]
               /\ \A e \in edges, j, k \in Nodes :
                    ord[j] = e.from /\ ord[k] = e.to => demand(e, sim[j]) <= sim[k]
               /\ \A k \in Nodes :
                    \/ sim[k] = k - 1
                    \/ \E e \in edges, j \in Nodes :
                         j < k /\ ord[j] = e.from /\ ord[k] = e.to /\ sim[k] = demand(e, sim[j])
<1> DEFINE sim == simulateExecution(ord)
<1>1. ord \in [Nodes -> Nodes] /\ N \in Nat /\ Nodes = 1 .. N
  BY NodesType DEF Arrangement, Nodes
<1>2. sim \in [Nodes -> Nat] /\ \A k \in Nodes : sim[k] = startAt(ord, sim, k)
  BY <1>1, SimulationExact
<1> HIDE DEF sim
<1>3. ASSUME NEW k \in Nodes
      PROVE  /\ sim[k] \in {k - 1} \cup demands(ord, sim, k)
             /\ \A x \in {k - 1} \cup demands(ord, sim, k) : x <= sim[k]
  <2>1. \A j \in Nodes : j < k => sim[j] \in Nat
    BY <1>2
  <2>2. /\ startAt(ord, sim, k) \in {k - 1} \cup demands(ord, sim, k)
        /\ \A x \in {k - 1} \cup demands(ord, sim, k) : x <= startAt(ord, sim, k)
    BY <1>1, <2>1, StartType
  <2> QED
    BY <1>2, <2>2
<1>4. ASSUME NEW e \in edges, NEW j \in Nodes, NEW k \in Nodes, ord[j] = e.from, ord[k] = e.to
      PROVE  demand(e, sim[j]) <= sim[k]
  <2>1. j < k
    BY <1>4 DEF Arrangement
  <2>2. j \in 1 .. (k - 1)
    BY <1>1, <2>1
  <2>3. demand(e, sim[j]) \in demands(ord, sim, k)
    BY <1>4, <2>2, Demands
  <2> QED
    BY <1>3, <2>3
<1>5. ASSUME NEW k \in Nodes, sim[k] # k - 1
      PROVE  \E e \in edges, j \in Nodes :
               j < k /\ ord[j] = e.from /\ ord[k] = e.to /\ sim[k] = demand(e, sim[j])
  <2>1. sim[k] \in demands(ord, sim, k)
    BY <1>3, <1>5
  <2>2. PICK j \in 1 .. (k - 1), e \in edges :
          ord[j] = e.from /\ e.to = ord[k] /\ sim[k] = demand(e, sim[j])
    BY <2>1, Demands
  <2>3. j \in Nodes /\ j < k
    BY <1>1
  <2> QED
    BY <2>2, <2>3
<1> QED
  BY <1>2, <1>3, <1>4, <1>5 DEF sim

\* An instruction the simulator starts late waits for one it starts late.
LEMMA StartsNoLater ==
    ASSUME IInv, OrderInv, scheduleReturns
    PROVE  \A k \in Nodes : simulateExecution(order)[k] <= schedule_cycle[order[k]]
<1> DEFINE sim == simulateExecution(order)
           late == {k \in Nodes : ~(sim[k] <= schedule_cycle[order[k]])}
<1>1. /\ Arrangement(order) /\ scheduled = Nodes /\ visited = N /\ BuildInv
      /\ \A u \in Nodes : schedule_cycle[u] \in Int
      /\ \A k \in Nodes : k - 1 <= schedule_cycle[order[k]]
  BY ReturnedOrder DEF IInv, OrderInv, OrderIssued, scheduleReturns
<1>2. /\ \A k \in Nodes : sim[k] \in Nat
      /\ \A k \in Nodes :
           \/ sim[k] = k - 1
           \/ \E e \in edges, j \in Nodes :
                j < k /\ order[j] = e.from /\ order[k] = e.to /\ sim[k] = demand(e, sim[j])
  BY <1>1, SimulationBounds
<1> HIDE DEF sim
<1>3. late = {}
  <2> SUFFICES ASSUME late # {} PROVE FALSE
    OBVIOUS
  <2>1. PICK k \in late : \A m \in late : k <= m
    <3>1. late \in SUBSET Nat
      BY NodesType, <1>1 DEF Nodes
    <3> HIDE DEF late
    <3> QED
      BY <3>1, Least
  <2>2. k \in Nodes /\ ~(sim[k] <= schedule_cycle[order[k]])
    BY <2>1
  <2>3. PICK e \in edges, j \in Nodes :
          j < k /\ order[j] = e.from /\ order[k] = e.to /\ sim[k] = demand(e, sim[j])
    BY <1>1, <1>2, <2>2
  <2>4. sim[j] <= schedule_cycle[order[j]]
    <3>1. j \in late => k <= j
      BY <2>1
    <3>2. j \notin late
      BY <2>3, <3>1, NodesType, <1>1 DEF Nodes
    <3> QED
      BY <3>2
  <2>5. schedule_cycle[e.to] >= schedule_cycle[e.from]
          + (IF e.type = "RAW" THEN instructions[e.from].latency ELSE 1)
    BY <1>1, <2>2, <2>3 DEF IInv, DependenciesRespected, scheduleReturns, Arrangement
  <2>6. /\ order[j] \in Nodes /\ order[k] \in Nodes
        /\ instructions[order[j]].latency \in Nat
    BY <1>1, <2>2, NodesType DEF Arrangement
  <2>7. schedule_cycle[order[j]] \in Int /\ schedule_cycle[order[k]] \in Int /\ sim[j] \in Nat
    BY <1>1, <1>2, <2>6
  <2> QED
    BY <2>2, <2>3, <2>4, <2>5, <2>6, <2>7 DEF demand
<1> QED
  BY <1>3 DEF sim

\* Every instruction ends by the end.
LEMMA TotalBound ==
    ASSUME BuildInv, visited = N, NEW ord, Arrangement(ord), N > 0
    PROVE  /\ totalCycles(ord) \in Nat
           /\ \A k \in Nodes : simulateExecution(ord)[k] + instructions[ord[k]].latency
                                 <= totalCycles(ord)
<1> DEFINE sim == simulateExecution(ord)
           f == [k \in Nodes |-> sim[k] + instructions[ord[k]].latency]
           T == {sim[k] + instructions[ord[k]].latency : k \in Nodes}
<1>1. /\ N \in Nat /\ Nodes = 1 .. N /\ DOMAIN ord = Nodes
      /\ \A k \in Nodes : ord[k] \in Nodes /\ instructions[ord[k]].latency \in Nat
  BY NodesType DEF Arrangement, Nodes
<1>2. \A k \in Nodes : sim[k] \in Nat
  BY SimulationBounds
<1>3. totalCycles(ord) = longest(T)
  BY <1>1 DEF totalCycles
<1> HIDE DEF sim
<1>4. f \in Surjection(Nodes, T)
  BY DEF Surjection
<1>5. IsFiniteSet(T)
  <2>1. IsFiniteSet(Nodes)
    BY <1>1, FS_Interval
  <2> HIDE DEF f, T
  <2> QED
    BY <1>4, <2>1, FS_Surjection
<1>6. T \in SUBSET Nat /\ T # {}
  <2>1. 1 \in Nodes
    BY <1>1
  <2>2. \A k \in Nodes : sim[k] + instructions[ord[k]].latency \in Nat
    BY <1>1, <1>2
  <2> QED
    BY <2>1, <2>2
<1>7. longest(T) \in Nat /\ \A x \in T : x <= longest(T)
  <2> HIDE DEF T
  <2> QED
    BY <1>5, <1>6, Greatest
<1>8. \A k \in Nodes : sim[k] + instructions[ord[k]].latency \in T
  OBVIOUS
<1> HIDE DEF T
<1> QED
  BY <1>3, <1>7, <1>8 DEF sim

(* From the start of an instruction to the end of the simulation there is
   room for the longest chain it heads. *)
LEMMA PathWithinTotal ==
    ASSUME BuildInv, visited = N, NEW ord, Arrangement(ord), N > 0,
           PriorityExact, priority \in [Nodes -> Nat]
    PROVE  \A u \in Nodes : simulateExecution(ord)[at(ord, u)] + priority[u] <= totalCycles(ord)
<1> DEFINE sim == simulateExecution(ord)
           total == totalCycles(ord)
           long == {u \in Nodes : ~(sim[at(ord, u)] + priority[u] <= total)}
<1>1. /\ N \in Nat /\ Nodes = 1 .. N
      /\ \A u \in Nodes : /\ instructions[u].latency \in Nat
                          /\ at(ord, u) \in Nodes /\ ord[at(ord, u)] = u
  BY NodesType, Positions DEF Nodes
<1>2. /\ \A k \in Nodes : sim[k] \in Nat
      /\ \A e \in edges, j, k \in Nodes :
           ord[j] = e.from /\ ord[k] = e.to => demand(e, sim[j]) <= sim[k]
      /\ total \in Nat
      /\ \A k \in Nodes : sim[k] + instructions[ord[k]].latency <= total
  BY SimulationBounds, TotalBound
<1> HIDE DEF sim, total
<1>3. long = {}
  <2> SUFFICES ASSUME long # {} PROVE FALSE
    OBVIOUS
  <2>1. PICK u \in long : \A x \in long : x <= u
    <3>1. long \in SUBSET Nodes
      OBVIOUS
    <3> HIDE DEF long
    <3> QED
      BY <3>1, GreatestMember
  <2>2. u \in Nodes /\ ~(sim[at(ord, u)] + priority[u] <= total)
    BY <2>1
  <2> DEFINE k == at(ord, u)
  <2>3. k \in Nodes /\ ord[k] = u /\ sim[k] \in Nat /\ priority[u] \in Nat
    BY <1>1, <1>2, <2>2
  <2> HIDE DEF k
  <2>4. priority[u] # instructions[u].latency
    BY <1>2, <2>2, <2>3 DEF k
  <2>5. \A e \in successors(u) : priority[e.to] \in Nat
    BY EdgesForward DEF successors, Nodes
  <2>6. PICK e \in successors(u) :
          priority[u] = priority[e.to] + (IF e.type = "RAW" THEN instructions[u].latency ELSE 0)
    <3>1. priority[u] = longestChain(priority, u)
      BY <2>2 DEF PriorityExact
    <3> QED
      BY <2>2, <2>4, <2>5, <3>1, ChainType
  <2>7. e \in edges /\ e.from = u /\ e.to \in Nodes /\ e.from < e.to
    BY EdgesForward DEF successors, Nodes
  <2> DEFINE l == at(ord, e.to)
  <2>8. l \in Nodes /\ ord[l] = e.to /\ sim[l] \in Nat
    BY <1>1, <1>2, <2>7
  <2>9. sim[l] + priority[e.to] <= total
    <3>1. e.to \in long => e.to <= u
      BY <2>1
    <3>2. ~(e.to <= u)
      <4>1. u \in Nat /\ e.to \in Nat
        BY <2>2, <2>7, NodesType DEF Nodes
      <4>2. u < e.to
        BY <2>7
      <4> QED
        BY <4>1, <4>2
    <3> QED
      BY <2>7, <3>1, <3>2
  <2>10. demand(e, sim[k]) <= sim[l]
    <3> HIDE DEF l
    <3> QED
      BY <1>2, <2>3, <2>7, <2>8
  <2> HIDE DEF l
  <2>11. instructions[u].latency \in Nat /\ priority[e.to] \in Nat
    BY <1>1, <2>2, <2>5
  <2> QED
    BY <1>2, <2>2, <2>3, <2>6, <2>7, <2>8, <2>9, <2>10, <2>11 DEF demand, k
<1> QED
  BY <1>3 DEF sim, total

LEMMA OriginalOrder ==
    ASSUME BuildInv, visited = N
    PROVE  Arrangement(originalOrder)
<1>1. \A u \in Nodes : originalOrder[u] = u
  BY DEF originalOrder
<1>2. originalOrder \in [Nodes -> Nodes]
  BY DEF originalOrder
<1> QED
  BY <1>1, <1>2, EdgesForward DEF Arrangement

(* The scheduler and the simulator that judges it agree: simulateExecution
   starts nothing later than schedule issued it, and neither the schedule nor
   the original order beats the critical path of any instruction. *)
THEOREM SimulationAlwaysAgrees == Spec => []SimulationAgrees
<1>1. IInv /\ OrderInv => SimulationAgrees
  <2> SUFFICES ASSUME IInv, OrderInv, scheduleReturns, N > 0
               PROVE  /\ \A k \in 1 .. N :
                           simulateExecution(order)[k] <= schedule_cycle[order[k]]
                      /\ \A u \in Nodes : /\ priority[u] <= totalCycles(order)
                                          /\ priority[u] <= totalCycles(originalOrder)
    BY DEF SimulationAgrees
  <2>1. /\ Arrangement(order) /\ visited = N /\ BuildInv
        /\ PriorityExact /\ priority \in [Nodes -> Nat]
    BY ReturnedOrder DEF IInv, TypeOK, OrderInv, scheduleReturns
  <2>2. ASSUME NEW ord, Arrangement(ord), NEW u \in Nodes
        PROVE  priority[u] <= totalCycles(ord)
    <3>1. simulateExecution(ord)[at(ord, u)] + priority[u] <= totalCycles(ord)
      BY <2>1, <2>2, PathWithinTotal
    <3>2. at(ord, u) \in Nodes
      BY <2>1, <2>2, Positions
    <3>3. simulateExecution(ord)[at(ord, u)] \in Nat
      BY <2>1, <2>2, <3>2, SimulationBounds
    <3>4. priority[u] \in Nat /\ totalCycles(ord) \in Nat
      BY <2>1, <2>2, TotalBound
    <3> QED
      BY <3>1, <3>3, <3>4
  <2> QED
    BY <2>1, <2>2, StartsNoLater, OriginalOrder DEF Nodes
<1> QED
  BY <1>1, SchedulerInvariant, OrderInvariant, PTL
=============================================================================
