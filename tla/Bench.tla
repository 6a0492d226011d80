------------------------------- MODULE Bench -------------------------------
(***************************************************************************)
(* The benchmark harness of Project5 (run_all.cpp, bench.h): for each      *)
(* kernel, two contexts are built from one seed, the naive version is      *)
(* timed on the first and the student's on the second, K_BEST calls each,  *)
(* and only then the outputs are compared, after one more naive call.  So  *)
(* what is judged is the last of many calls on the same buffers.           *)
(*                                                                         *)
(* The kernels of the bonus project that OpenMP runs on several threads    *)
(* are called here too, thread by thread.  Two kernels are only numbers    *)
(* (black-scholes, image_proc): their arithmetic is left out, and whether  *)
(* their check accepts is a choice.                                        *)
(***************************************************************************)
EXTENDS Kernels

CONSTANTS
  BENCHMARKS,   \* the blocks of main, in order: a sequence of kernel names
  SIZES,        \* SIZES[k]: the sizes a kernel is built with
  SEEDS,        \* the seeds
  TIMES,        \* what one call may take, in nanoseconds
  K_BEST,       \* calls per measurement (20)
  TODO,         \* kernels whose block may still be the commented-out one
  THREADS       \* the threads of an OpenMP team

ASSUME HarnessIsSane ==
  /\ K_BEST \in Nat \ {0}
  /\ TIMES \subseteq Nat
  /\ \A i \in DOMAIN BENCHMARKS : BENCHMARKS[i] \in DOMAIN SIZES

VARIABLES
  bench,        \* the block main is in
  pc,           \* where run_benchmark is in it
  calls,        \* calls made in this measurement
  elapsed,      \* avg_time before the division
  naive_time,   \* the first measurement
  ref, stu,     \* the two contexts of this block
  team,         \* the threads of the call in progress
  status,       \* what was printed for each block
  gm_enable, speedups,
  mean          \* what was printed last: "", "x" or "N/A"

vars == <<bench, pc, calls, elapsed, naive_time, ref, stu, team, status,
          gm_enable, speedups, mean>>

kernel == BENCHMARKS[bench]
None == "none"

----------------------------------------------------------------------------
\* The entries of a bench_t.  A numeric kernel's context is only its name.

Initialize(k, size, seed) ==
  CASE k = "relu" -> initialize_relu(size, seed)
    [] k = "bitwise" -> initialize_bitwise(size, seed)
    [] k = "graph" -> initialize_graph(size[1], size[2], seed)
    [] k = "spmm" -> initialize_spmm(size[1], size[2], seed)
    [] k = "trace" -> initialize_trace_replay(size[1], size[2], seed)
    [] k \in {"matmul", "matmul omp"} -> initialize_matmul(size, seed)
    [] k = "grff" -> initialize_grff(size, seed)
    [] k \in {"filter", "filter omp"} -> initialize_filter_gradient(size[1], size[2], seed)
    [] OTHER -> [numeric |-> k]

naiveFunc(k, c) ==
  CASE k = "relu" -> naive_relu(c)
    [] k = "bitwise" -> naive_bitwise(c)
    [] k = "graph" -> naive_graph(c)
    [] k = "spmm" -> csr_spmm(c)
    [] k = "trace" -> naive_trace_replay(c)
    [] k \in {"matmul", "matmul omp"} -> naive_matmul(c)
    [] k = "grff" -> naive_grff(c)
    [] k \in {"filter", "filter omp"} -> naive_filter_gradient(c)
    [] OTHER -> c

tfunc(k, c) ==
  CASE k = "relu" -> stu_relu(c)
    [] k = "bitwise" -> stu_bitwise(c)
    [] k = "graph" -> stu_graph(c)
    [] k = "spmm" -> stu_csr_spmm(c)
    [] k = "trace" -> stu_trace_replay(c)
    [] k = "matmul" -> stu_matmul(c)
    [] k = "grff" -> stu_grff(c)
    [] k = "filter" -> stu_filter_gradient(c)
    [] OTHER -> c

checkFunc(k, s, r) ==
  CASE k = "relu" -> {relu_check(s, r)}
    [] k = "bitwise" -> {bitwise_check(s, r)}
    [] k = "graph" -> {graph_check(s, r)}
    [] k = "spmm" -> {sparse_spmm_check(s, r)}
    [] k = "trace" -> {trace_replay_check(s, r)}
    [] k \in {"matmul", "matmul omp"} -> {matmul_check(s, r)}
    [] k = "grff" -> {grff_check(s, r)}
    [] k \in {"filter", "filter omp"} -> {filter_gradient_check(s, r)}
    [] OTHER -> BOOLEAN

\* The conversions main makes before it measures
Converted(k, c) ==
  CASE k = "graph" -> convert_graph_to_csr(c)
    [] k \in {"filter", "filter omp"} -> convert_soa_to_aos(c)
    [] OTHER -> c

----------------------------------------------------------------------------
\* Both contexts are built from the same seed; the student's is converted.
Setup ==
  /\ pc = "setup"
  /\ \E size \in SIZES[kernel], seed \in SEEDS :
       LET built == Initialize(kernel, size, seed)
       IN ref' = built /\ stu' = Converted(kernel, built)
  /\ pc' = "naive" /\ calls' = 0 /\ elapsed' = 0
  /\ UNCHANGED <<bench, naive_time, team, status, gm_enable, speedups, mean>>

\* An exception nobody catches ends the program.
Abort ==
  /\ pc' = "aborted"
  /\ UNCHANGED <<bench, calls, elapsed, naive_time, ref, stu, team, status,
                 gm_enable, speedups, mean>>

Throws(c) == kernel = "spmm" /\ ~spmm_valid(c)

NaiveCall ==
  /\ pc = "naive" /\ calls < K_BEST
  /\ IF Throws(ref) THEN Abort
     ELSE /\ ref' = naiveFunc(kernel, ref)
          /\ calls' = calls + 1
          /\ \E t \in TIMES : elapsed' = elapsed + t
          /\ UNCHANGED <<bench, pc, naive_time, stu, team, status, gm_enable, speedups, mean>>

\* The block is over: its contexts go out of scope.
NextBlock(printed) ==
  /\ status' = Append(status, printed)
  /\ bench' = bench + 1
  /\ pc' = IF bench = Len(BENCHMARKS) THEN "report" ELSE "setup"
  /\ calls' = 0 /\ elapsed' = 0 /\ naive_time' = 0
  /\ ref' = None /\ stu' = None
  /\ UNCHANGED <<team, mean>>

NaiveMeasured ==
  /\ pc = "naive" /\ calls = K_BEST
  /\ \/ /\ kernel \in TODO
        /\ NextBlock("TODO")
        /\ UNCHANGED <<gm_enable, speedups>>
     \/ /\ naive_time' = elapsed \div K_BEST
        /\ pc' = "stu" /\ calls' = 0 /\ elapsed' = 0
        /\ UNCHANGED <<bench, ref, stu, team, status, gm_enable, speedups, mean>>

Parallel == kernel \in {"matmul omp", "filter omp"}

StuCall ==
  /\ pc = "stu" /\ calls < K_BEST /\ ~Parallel
  /\ stu' = tfunc(kernel, stu)
  /\ calls' = calls + 1
  /\ \E t \in TIMES : elapsed' = elapsed + t
  /\ UNCHANGED <<bench, pc, naive_time, ref, team, status, gm_enable, speedups, mean>>

----------------------------------------------------------------------------
\* A call of a bonus kernel: #pragma omp parallel for.  A thread takes an
\* iteration of the outer loop that no thread has; the rest of the loop is
\* its own.

Iterations == IF kernel = "matmul omp" THEN Blocks(stu.n) ELSE Inner(stu.height)

\* The updates C_row[j] += aik * B_row[j] of block x: as <<block z, block y,
\* i, k, j>>
Updates(x) ==
  LET n == stu.n
  IN {u \in Blocks(n) \X Blocks(n) \X (x .. up(x, n) - 1) \X (0 .. n - 1) \X (0 .. n - 1) :
        u[4] \in u[1] .. up(u[1], n) - 1 /\ u[5] \in u[2] .. up(u[2], n) - 1}

\* The first in loop order of the updates a thread has left
FirstOf(work) ==
  LET key(u) == (((u[1] * stu.n + u[2]) * stu.n + u[3]) * stu.n + u[4]) * stu.n + u[5]
  IN CHOOSE u \in work : \A v \in work : key(u) <= key(v)

Idle == [work |-> {}, reg |-> None, part |-> 0]

Fork ==
  /\ pc = "stu" /\ calls < K_BEST /\ Parallel
  /\ team' = [left |-> Iterations, of |-> [t \in THREADS |-> Idle]]
  /\ stu' = IF kernel = "matmul omp" THEN [stu EXCEPT !.C = Zeroed(@)]
            ELSE [stu EXCEPT !.out = 0]
  /\ pc' = "team"
  /\ UNCHANGED <<bench, calls, elapsed, naive_time, ref, status, gm_enable, speedups, mean>>

\* The runtime hands out each iteration once.  A thread that takes a row of
\* filter_gradient adds its points to its own copy of total.
Take(t) ==
  /\ team.of[t].work = {}
  /\ \E x \in team.left :
       team' = [team EXCEPT !.left = @ \ {x},
                  !.of[t] = IF kernel = "matmul omp" THEN [@ EXCEPT !.work = Updates(x)]
                            ELSE [@ EXCEPT !.part = @ + GradientRow(stu, x)]]
  /\ UNCHANGED stu

\* The element of C that a thread's next update is about
Target(t) == LET u == FirstOf(team.of[t].work) IN u[3] * stu.n + u[5]

Load(t) ==
  /\ team.of[t].work # {} /\ team.of[t].reg = None
  /\ team' = [team EXCEPT !.of[t].reg = <<stu.C[Target(t)]>>]
  /\ UNCHANGED stu

Store(t) ==
  /\ team.of[t].work # {} /\ team.of[t].reg # None
  /\ LET u == FirstOf(team.of[t].work)
         product == stu.A[u[3] * stu.n + u[4]] * stu.B[u[4] * stu.n + u[5]]
     IN stu' = [stu EXCEPT !.C[Target(t)] = team.of[t].reg[1] + product]
  /\ team' = [team EXCEPT !.of[t].work = @ \ {FirstOf(@)}, !.of[t].reg = None]

ThreadStep ==
  /\ pc = "team"
  /\ \E t \in THREADS : Take(t) \/ Load(t) \/ Store(t)
  /\ UNCHANGED <<bench, pc, calls, elapsed, naive_time, ref, status, gm_enable, speedups, mean>>

\* The barrier at the end of the region; the copies of total are reduced.
Join ==
  /\ pc = "team" /\ team.left = {}
  /\ \A t \in THREADS : team.of[t].work = {}
  /\ stu' = IF kernel = "matmul omp" THEN stu
            ELSE [stu EXCEPT !.out = Sum(THREADS, LAMBDA t : team.of[t].part)]
  /\ team' = None
  /\ pc' = "stu" /\ calls' = calls + 1
  /\ \E t \in TIMES : elapsed' = elapsed + t
  /\ UNCHANGED <<bench, naive_time, ref, status, gm_enable, speedups, mean>>

----------------------------------------------------------------------------
\* Mutant: each block enables the mean again
GmAfter_reset(passed) == passed
\* gm_enable once a block has been judged
GmAfter(passed) == IF passed THEN gm_enable ELSE FALSE

\* The check calls the naive function once more, then compares.
\* calculate_speedup throws unless both times are positive.
Check ==
  /\ pc = "stu" /\ calls = K_BEST
  /\ \E correct \in checkFunc(kernel, stu, naiveFunc(kernel, ref)) :
       \/ /\ ~correct
          /\ NextBlock("FAILED")
          /\ gm_enable' = GmAfter(FALSE)
          /\ UNCHANGED speedups
       \/ /\ correct /\ elapsed \div K_BEST > 0 /\ naive_time > 0
          /\ NextBlock("PASSED")
          /\ gm_enable' = GmAfter(TRUE)
          /\ speedups' = speedups + 1
       \/ /\ correct /\ (elapsed \div K_BEST = 0 \/ naive_time = 0)
          /\ Abort

Report ==
  /\ pc = "report"
  /\ mean' = IF gm_enable /\ speedups > 0 THEN "x" ELSE "N/A"
  /\ pc' = "exited"
  /\ UNCHANGED <<bench, calls, elapsed, naive_time, ref, stu, team, status,
                 gm_enable, speedups>>

Init ==
  /\ bench = 1 /\ pc = "setup" /\ calls = 0 /\ elapsed = 0 /\ naive_time = 0
  /\ ref = None /\ stu = None /\ team = None /\ status = <<>>
  /\ gm_enable = TRUE /\ speedups = 0 /\ mean = ""

Next ==
  \/ Setup \/ NaiveCall \/ NaiveMeasured \/ StuCall
  \/ Fork \/ ThreadStep \/ Join \/ Check \/ Report

Spec == Init /\ [][Next]_vars

----------------------------------------------------------------------------
Outputs(k, c) ==
  CASE k = "relu" -> c.data
    [] k = "bitwise" -> c.result
    [] k \in {"graph", "trace", "filter", "filter omp"} -> c.out
    [] k = "spmm" -> c.out
    [] k \in {"matmul", "matmul omp"} -> c.C
    [] k = "grff" -> c.f_output
    [] OTHER -> {}

\* Between two calls of the student's function, from the first call on, its
\* output is what one naive call makes of the inputs the other context was
\* given: no call depends on what the calls before it left in the buffers,
\* and neither the unrolled and blocked loops, nor the converted layouts, nor
\* the threads of a team leave out, repeat or lose an element.  (The inputs
\* of a kernel that works in place are gone by then; the naive calls must
\* have left their image there.)
ResultsExact ==
  pc = "stu" /\ calls > 0 =>
    Outputs(kernel, stu) = Outputs(kernel, naiveFunc(kernel, ref))

\* No two threads of a team are about to write the same element of C, so the
\* result does not hang on who comes first.
TeamsDisjoint ==
  pc = "team" =>
    \A t, u \in THREADS :
      t # u /\ team.of[t].work # {} /\ team.of[u].work # {} => Target(t) # Target(u)

\* The geometric mean is printed for a run in which something passed and
\* nothing failed, over exactly the speedups of the blocks that passed; only a
\* kernel whose numbers are rounded can fail, and main is left early only by a
\* measurement of nothing.
VerdictExact ==
  LET printed(v) == {i \in DOMAIN status : status[i] = v}
  IN /\ speedups = Cardinality(printed("PASSED"))
     /\ printed("FAILED") \subseteq
          {i \in DOMAIN status : BENCHMARKS[i] \in {"black-scholes", "image_proc"}}
     /\ (mean = "x") <=> (pc = "exited" /\ printed("FAILED") = {} /\ printed("PASSED") # {})
     /\ pc = "aborted" =>
          calls = K_BEST /\ (elapsed \div K_BEST = 0 \/ naive_time = 0)
=============================================================================
