--------------------------- MODULE FastScheduler ----------------------------
(***************************************************************************)
(* scheduleFast (Project3/src/Scheduler.cpp 52-114): the same loop with    *)
(* the ready nodes kept in a priority queue, filled when a counter reaches *)
(* zero instead of found by a scan, under the same driver.                 *)
(***************************************************************************)
EXTENDS Scheduler

VARIABLE ready  \* the nodes in the queue

fastVars == <<vars, ready>>

\* Mutant: ties go to the larger index.
readyCmp_larger(a, b) == priority[a] < priority[b] \/ (priority[a] = priority[b] /\ a < b)

(* The comparator of the queue: a is below b. *)
readyCmp(a, b) ==
  IF priority[a] # priority[b] THEN priority[a] < priority[b]
  ELSE CASE Policies[policy] = "LPT"
              /\ instructions[a].latency # instructions[b].latency ->
                instructions[a].latency < instructions[b].latency
         [] Policies[policy] = "MOST_CHILD"
              /\ Cardinality(successors(a)) # Cardinality(successors(b)) ->
                Cardinality(successors(a)) < Cardinality(successors(b))
         [] OTHER -> a > b

top(queue) == {u \in queue : \A v \in queue \ {u} : readyCmp(v, u)}

\* Mutant: a counter that two edges take to zero at once is overlooked.
reachedZero_once ==
  {v \in Nodes : unscheduled_predecessors[v] = 1 /\ unscheduled_predecessors'[v] = 0}

\* The counters that reach zero push their node.
reachedZero ==
  {v \in Nodes : unscheduled_predecessors[v] # 0 /\ unscheduled_predecessors'[v] = 0}

FastStart(p) ==
  /\ StartSchedule(p)
  /\ ready' = {v \in Nodes : unscheduled_predecessors'[v] = 0}

FastBuild == Build /\ UNCHANGED ready

FastFinishBuild == /\ pc = "build"
                   /\ visited = N
                   /\ pc' = "schedule"
                   /\ FastStart(1)
                   /\ UNCHANGED buildVars

FastIssue ==
  /\ running
  /\ \E best \in top(ready) :
       /\ order' = Append(order, best)
       /\ scheduled' = scheduled \cup {best}
       /\ schedule_cycle' = [schedule_cycle EXCEPT ![best] = cycle]
       /\ Tick(issued(best),
               inflight \cup {[op |-> best, t |-> cycle + instructions[best].latency]})
       /\ ready' = (ready \ {best}) \cup reachedZero
  /\ UNCHANGED <<buildVars, pc, policy, priority>>

FastStall ==
  /\ running
  /\ ready = {}
  /\ Tick(unscheduled_predecessors, inflight)
  /\ ready' = reachedZero
  /\ UNCHANGED <<buildVars, pc, policy, priority, scheduled, schedule_cycle, order>>

FastNextPolicy == /\ scheduleReturns
                  /\ policy < Len(Policies)
                  /\ FastStart(policy + 1)
                  /\ UNCHANGED <<buildVars, pc>>

FastFinish == Finish /\ UNCHANGED ready

FastInit == Init /\ ready = {}
FastNext == FastBuild \/ FastFinishBuild \/ FastIssue \/ FastStall
              \/ FastNextPolicy \/ FastFinish
FastSpec == FastInit /\ [][FastNext]_fastVars /\ WF_fastVars(FastNext)

(* The queue holds exactly the nodes a scan of the counters would find. *)
ReadyQueueExact == pc = "schedule" => ready = getReadyNodes
-----------------------------------------------------------------------------
(* A program calls the one or the other. *)

VARIABLE fast  \* is it scheduleFast?

eitherVars == <<fastVars, fast>>

EitherInit == FastInit /\ fast \in BOOLEAN

EitherNext ==
  \/ fast /\ FastNext /\ UNCHANGED fast
  \/ ~fast /\ Next /\ UNCHANGED <<ready, fast>>

EitherSpec == EitherInit /\ [][EitherNext]_eitherVars /\ WF_eitherVars(EitherNext)

(* The queue that scheduleFast fills where a counter reaches zero is the
   list that getReadyNodes finds by a scan, in every turn. *)
QueueExact == fast => ReadyQueueExact

(* scheduleFast is schedule: the same order, issued in the same cycles,
   under every policy ("Same interface as schedule(), but better
   performance", Scheduler.h). *)
SameAsSchedule == Spec
=============================================================================
