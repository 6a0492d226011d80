----------------------------- MODULE Scheduler ------------------------------
(***************************************************************************)
(* The list scheduler of Project 3 (Project3/src/Scheduler.cpp) under the  *)
(* driver runScheduler (main.cpp): the graph is built once and scheduled   *)
(* afresh, from a copy of its nodes, under each tie-breaking policy.  One  *)
(* step of schedule is one turn of its loop, that is one cycle: issue the  *)
(* best ready instruction or let the cycle pass, then let the results that *)
(* are due arrive.                                                         *)
(***************************************************************************)
EXTENDS DAGBuilder

CONSTANTS Policies,   \* the sequence of policies runScheduler tries
          MaxCycles   \* bound on the cycles of one schedule

ASSUME SchedulerAssumption ==
  /\ \A p \in DOMAIN Policies : Policies[p] \in {"SMALLER_INDEX", "LPT", "MOST_CHILD"}
  /\ Policies \in Seq(STRING) /\ Len(Policies) > 0
  /\ MaxCycles \in Nat

VARIABLES pc,         \* "build", "schedule" or "done"
          policy,     \* index of the policy being tried
          unscheduled_predecessors, priority, scheduled, schedule_cycle,
                      \* the fields of the nodes that schedule works on
          order,      \* S, the schedule so far
          inflight,   \* issued instructions whose result is due: [op, t]
          cycle

schedVars == <<pc, policy, unscheduled_predecessors, priority, scheduled,
               schedule_cycle, order, inflight, cycle>>
vars == <<buildVars, schedVars>>

Nodes == 1 .. N

\* Edges of the given types from the nodes of ops to v.
edgesInto(v, ops, types) == {e \in edges : e.to = v /\ e.from \in ops /\ e.type \in types}

longest(S) == CHOOSE m \in S : \A x \in S : x <= m

\* Mutant: a chain counts the latency of every instruction on it.
longestChain_waits(path, u) ==
  longest({instructions[u].latency} \cup
          {path[e.to] + instructions[u].latency : e \in successors(u)})

(* The latency of the longest chain from u, given those of its successors:
   only a true dependency waits for the result. *)
longestChain(path, u) ==
  longest({instructions[u].latency} \cup
          {path[e.to] + (IF e.type = "RAW" THEN instructions[u].latency ELSE 0) :
             e \in successors(u)})

(* computeCriticalPath, with the memo of visited nodes.  Edges lead to later
   instructions, so the recursion ends. *)
criticalPath[u \in Nodes] == longestChain(criticalPath, u)

computePriorities == criticalPath

getReadyNodes == {v \in Nodes : v \notin scheduled /\ unscheduled_predecessors[v] = 0}

(* What the scan of selectBestNode leaves in bestNode: a higher priority
   wins, then the policy decides, then the smaller index. *)
preference(u) ==
  CASE Policies[policy] = "LPT" -> instructions[u].latency
    [] Policies[policy] = "MOST_CHILD" -> Cardinality(successors(u))
    [] OTHER -> 0

better(u, v) ==
  \/ priority[u] > priority[v]
  \/ /\ priority[u] = priority[v]
     /\ \/ preference(u) > preference(v)
        \/ preference(u) = preference(v) /\ u < v

selectBestNode(readyNodes) ==
  {u \in readyNodes : \A v \in readyNodes \ {u} : better(u, v)}

\* Mutant: the nodes of the last schedule are used again.
StartSchedule_reused(p) ==
  /\ policy' = p
  /\ priority' = computePriorities
  /\ unscheduled_predecessors' = [v \in Nodes |-> Cardinality(predecessors(v))]
  /\ scheduled' = scheduled
  /\ schedule_cycle' = [v \in Nodes |-> IF p = 1 THEN -1 ELSE schedule_cycle[v]]
  /\ order' = <<>>
  /\ inflight' = {}
  /\ cycle' = 0

\* The start of schedule for policy p, on a copy of the nodes build returned.
StartSchedule(p) ==
  /\ policy' = p
  /\ priority' = computePriorities
  /\ unscheduled_predecessors' = [v \in Nodes |-> Cardinality(predecessors(v))]
  /\ scheduled' = {}
  /\ schedule_cycle' = [v \in Nodes |-> -1]
  /\ order' = <<>>
  /\ inflight' = {}
  /\ cycle' = 0

Build == /\ pc = "build"
         /\ VisitInstruction
         /\ UNCHANGED schedVars

FinishBuild == /\ pc = "build"
               /\ visited = N
               /\ pc' = "schedule"
               /\ StartSchedule(1)
               /\ UNCHANGED buildVars

\* Mutants: an arrival comes a cycle early; of the
\* results due in one cycle the loop erases one and misses the others.
Tick_early(counts, flying) ==
  LET landed == {f \in flying : f.t <= cycle + 2} IN
  /\ cycle' = cycle + 1
  /\ inflight' = flying \ landed
  /\ unscheduled_predecessors' =
       [v \in Nodes |->
          counts[v] - Cardinality(edgesInto(v, {f.op : f \in landed}, {"RAW"}))]

Tick_misses(counts, flying) ==
  LET due == {f \in flying : f.t = cycle + 1}
      landed == {f \in due : \A g \in due : f.op <= g.op}
  IN
  /\ cycle' = cycle + 1
  /\ inflight' = flying \ landed
  /\ unscheduled_predecessors' =
       [v \in Nodes |->
          counts[v] - Cardinality(edgesInto(v, {f.op : f \in landed}, {"RAW"}))]

(* The end of a turn: the cycle passes, and every result that is due leaves
   inflight and counts down the nodes that wait for it. *)
Tick(counts, flying) ==
  LET landed == {f \in flying : f.t = cycle + 1} IN
  /\ cycle' = cycle + 1
  /\ inflight' = flying \ landed
  /\ unscheduled_predecessors' =
       [v \in Nodes |->
          counts[v] - Cardinality(edgesInto(v, {f.op : f \in landed}, {"RAW"}))]

running == /\ pc = "schedule"
           /\ Len(order) < N
           /\ cycle < MaxCycles

\* Mutant: an issue forgets the output dependencies.
issued_war(u) ==
  [v \in Nodes |-> unscheduled_predecessors[v] - Cardinality(edgesInto(v, {u}, {"WAR"}))]

\* An issue counts down the nodes that only had to come later.
issued(u) ==
  [v \in Nodes |-> unscheduled_predecessors[v]
                     - Cardinality(edgesInto(v, {u}, {"WAR", "WAW"}))]

Issue ==
  /\ running
  /\ \E best \in selectBestNode(getReadyNodes) :
       /\ order' = Append(order, best)
       /\ scheduled' = scheduled \cup {best}
       /\ schedule_cycle' = [schedule_cycle EXCEPT ![best] = cycle]
       /\ Tick(issued(best),
               inflight \cup {[op |-> best, t |-> cycle + instructions[best].latency]})
  /\ UNCHANGED <<buildVars, pc, policy, priority>>

Stall ==
  /\ running
  /\ getReadyNodes = {}
  /\ Tick(unscheduled_predecessors, inflight)
  /\ UNCHANGED <<buildVars, pc, policy, priority, scheduled, schedule_cycle, order>>

scheduleReturns == pc = "schedule" /\ Len(order) >= N

NextPolicy ==
  /\ scheduleReturns
  /\ policy < Len(Policies)
  /\ StartSchedule(policy + 1)
  /\ UNCHANGED <<buildVars, pc>>

Finish ==
  /\ scheduleReturns
  /\ policy = Len(Policies)
  /\ pc' = "done"
  /\ UNCHANGED <<buildVars, policy, unscheduled_predecessors, priority,
                 scheduled, schedule_cycle, order, inflight, cycle>>

SchedInit ==
  /\ pc = "build"
  /\ policy = 0
  /\ unscheduled_predecessors = <<>>
  /\ priority = <<>>
  /\ scheduled = {}
  /\ schedule_cycle = <<>>
  /\ order = <<>>
  /\ inflight = {}
  /\ cycle = 0

Init == BuildInit /\ SchedInit
Next == Build \/ FinishBuild \/ Issue \/ Stall \/ NextPolicy \/ Finish
Spec == Init /\ [][Next]_vars /\ WF_vars(Next)
-----------------------------------------------------------------------------
TypeOK ==
  /\ BuildTypeOK
  /\ pc \in {"build", "schedule", "done"}
  /\ policy \in 0 .. Len(Policies)
  /\ scheduled \subseteq Nodes
  /\ order \in Seq(Nodes)
  /\ cycle \in 0 .. MaxCycles
  /\ inflight \subseteq [op : Nodes, t : Nat]
  /\ pc # "build" => /\ visited = N
                     /\ unscheduled_predecessors \in [Nodes -> Nat]
                     /\ priority \in [Nodes -> Nat]
                     /\ schedule_cycle \in [Nodes -> -1 .. cycle]

waiting(f) == \E g \in inflight : g.op = f

(* An edge has been released when its source was issued and, if the edge
   carries a result, the result has arrived. *)
released(e) == e.from \in scheduled /\ (e.type = "RAW" => ~waiting(e.from))

(* The counter of every node, which two loops decrement at different times,
   is the number of edges still holding it back, and never passes below 0. *)
CountsExact ==
  pc # "build" =>
    \A v \in Nodes :
      unscheduled_predecessors[v] = Cardinality({e \in predecessors(v) : ~released(e)})

(* No instruction is issued before every instruction it depends on has been
   issued, and none before the results it reads have arrived. *)
DependenciesRespected ==
  pc # "build" =>
    \A e \in edges : e.to \in scheduled =>
      /\ e.from \in scheduled
      /\ schedule_cycle[e.to] >= schedule_cycle[e.from]
           + (IF e.type = "RAW" THEN instructions[e.from].latency ELSE 1)

(* The line whose write of r the line at position k of ord sees (0: the
   value from before the program). *)
reachingDefinition(ord, k, r) ==
  LET writers == {j \in 1 .. (k - 1) : r \in Defines(lines[ord[j]])}
  IN IF writers = {} THEN 0
     ELSE ord[CHOOSE j \in writers : \A m \in writers : m <= j]

originalOrder == [i \in Nodes |-> i]

\* The lines have the forms the parser reads, and a program spells a register
\* in one way.
ProgramsReadable ==
  \A program \in Programs :
    /\ \A i \in DOMAIN program : WellFormed(program[i])
    /\ \A r, s \in RegsOf(parse(program)) \cap DOMAIN Names : Names[r] = Names[s] => r = s

(* A schedule is the same program: every line once, every line reading in
   each of its registers what it read in the original order, and every
   register left by the line that left it there before. *)
SemanticsPreserved ==
  scheduleReturns =>
    /\ {order[k] : k \in 1 .. N} = Nodes /\ Len(order) = N
    /\ \A k \in 1 .. N : \A r \in Uses(lines[order[k]]) :
         reachingDefinition(order, k, r) = reachingDefinition(originalOrder, order[k], r)
    /\ \A r \in UNION {Defines(lines[i]) : i \in Nodes} :
         reachingDefinition(order, N + 1, r) = reachingDefinition(originalOrder, N + 1, r)

(* simulateExecution: the start cycle at each position of ord.  An instruction
   waits for its predecessors and for as many cycles as there are instructions
   before it, not for the start of the one before it: two may start together. *)
simulateExecution(ord) ==
  LET start[k \in DOMAIN ord] ==
        longest({k - 1} \cup
          {start[q[1]] + (IF q[2].type = "RAW" THEN instructions[ord[q[1]]].latency ELSE 1) :
             q \in {p \in (1 .. (k - 1)) \X predecessors(ord[k]) : ord[p[1]] = p[2].from}})
  IN start

totalCycles(ord) ==
  LET start == simulateExecution(ord)
      ends == {start[k] + instructions[ord[k]].latency : k \in DOMAIN ord}
  IN longest(ends)

(* The schedule and the simulator that judges it agree: nothing starts later
   in the simulation than the scheduler issued it (it may start earlier), and
   neither the schedule nor the original order beats the critical path the
   priorities were computed from. *)
SimulationAgrees ==
  scheduleReturns /\ N > 0 =>
    /\ \A k \in 1 .. N : simulateExecution(order)[k] <= schedule_cycle[order[k]]
    /\ \A u \in Nodes : /\ priority[u] <= totalCycles(order)
                        /\ priority[u] <= totalCycles(originalOrder)

(* When nothing is ready and something is left, a result is on its way: the
   loop never spins on an instruction nothing will release. *)
StallHasCause ==
  pc = "schedule" /\ Len(order) < N /\ getReadyNodes = {} => inflight # {}

(* Every policy is tried and runScheduler returns. *)
Termination == <>(pc = "done")
=============================================================================
