------------------------------ MODULE MCBench ------------------------------
(***************************************************************************)
(* Instance of Bench: every kernel on arrays of a few elements, around the *)
(* lengths its loops are unrolled, blocked or windowed by; three calls per *)
(* measurement; two threads.                                               *)
(***************************************************************************)
EXTENDS Bench

MCDraw(seed, k, lo, hi) ==
  lo + ((seed * (k * k + 3 * k) + 7 * k + 5 * seed + (k \div 3)) % (hi - lo + 1))

MCOffsets == <<-2, -1, 0, 1, 3>>

MCBenchmarks == <<"matmul omp", "filter omp", "black-scholes", "spmm", "relu", "bitwise",
                  "matmul", "trace", "graph", "grff", "image_proc", "filter">>

MCSizes ==
  [k \in {MCBenchmarks[i] : i \in DOMAIN MCBenchmarks} |->
     CASE k = "relu" -> 1 .. 10
       [] k = "bitwise" -> 1 .. 14
       [] k = "matmul" -> 1 .. 5
       [] k = "matmul omp" -> {3}
       [] k = "spmm" -> {<<1, 1>>, <<2, 2>>, <<2, 3>>, <<3, 2>>}
       [] k = "trace" -> {<<1, 3>>, <<3, 9>>, <<4, 4>>, <<5, 5>>, <<9, 14>>}
       [] k = "graph" -> {<<1, 0>>, <<2, 1>>, <<4, 2>>, <<3, 3>>}
       [] k = "grff" -> {1, 2, 5}
       [] k = "filter" -> {<<3, 3>>, <<4, 3>>, <<3, 5>>}
       [] k = "filter omp" -> {<<3, 5>>, <<4, 4>>}
       [] OTHER -> {0}]
=============================================================================
