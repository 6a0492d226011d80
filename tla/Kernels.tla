------------------------------ MODULE Kernels ------------------------------
(***************************************************************************)
(* The kernels of Project5 (src/kernel): for each, what initialize_*       *)
(* builds, the naive_* loop every student version is measured against, the *)
(* stu_* version, and the *_check that compares the two contexts.          *)
(*                                                                         *)
(* An array is a function on 0 .. n - 1.  A float is an integer: sums and  *)
(* products are exact, a quotient is \div, so what is compared is which    *)
(* elements a loop reads, writes and accumulates, not its rounding.  The   *)
(* lengths the loops are unrolled and blocked by are constants, so that    *)
(* arrays of a few elements have a body and a tail.                        *)
(***************************************************************************)
EXTENDS Integers, Sequences, FiniteSets, FiniteSetsExt, SequencesExt, Bitwise

CONSTANTS
  RELU_STEP,        \* elements per turn of stu_relu's first loop (8)
  WORD_BYTES,       \* bytes per word in stu_bitwise (8)
  WORDS_STEP,       \* words per turn of its first loop (4)
  PREFETCH_DIS,     \* stu_trace_replay's prefetch distance (64)
  WINDOW, SEGMENT,  \* records per window, requests per segment (1024, 256)
  BLOCK,            \* stu_matmul's block (256)
  SUBBLOCK,         \* rows and columns of a sparse block (4)
  OFFSETS,          \* kDefaultOffsets, an increasing sequence
  EPS_INV,          \* 1 / epsilon
  Draw(_, _, _, _)  \* Draw(seed, k, lo, hi): the k-th draw of a generator

ASSUME StepsArePositive ==
  {RELU_STEP, WORD_BYTES, WORDS_STEP, PREFETCH_DIS, WINDOW, SEGMENT,
   BLOCK, SUBBLOCK, EPS_INV} \subseteq Nat \ {0}

AbsVal(x) == IF x < 0 THEN -x ELSE x
LeastOf(x, y) == IF x < y THEN x ELSE y
Sum(S, term(_)) == MapThenSumSet(term, S)

\* err <= atol + eps * |r|, for every element of two arrays of one size
Agree(s, r) == /\ DOMAIN s = DOMAIN r
               /\ \A i \in DOMAIN r :
                    AbsVal(s[i] - r[i]) * EPS_INV <= AbsVal(r[i])

----------------------------------------------------------------------------
\* relu: the array is its own output.

initialize_relu(size, seed) ==
  [data |-> [i \in 0 .. size - 1 |-> Draw(seed, i, -2, 2)]]

naive_relu(c) ==
  [c EXCEPT !.data = [i \in DOMAIN @ |-> IF @[i] < 0 THEN 0 ELSE @[i]]]

\* while (pos + 8 < n): the positions the unrolled loop has done when it stops
ReluBody(n) == 0 .. RELU_STEP * Cardinality({k \in 1 .. n : k * RELU_STEP < n}) - 1

stu_relu(c) ==
  LET n == Cardinality(DOMAIN c.data)
      tail == (0 .. n - 1) \ ReluBody(n)
  IN [c EXCEPT !.data = [i \in ReluBody(n) \union tail |-> (@[i] + AbsVal(@[i])) \div 2]]

relu_check(s, r) == Agree(s.data, r.data)

----------------------------------------------------------------------------
\* bitwise, on bytes held as 0 .. 255.

kMaskLo == 90
kMaskHi == 195
Flip(x) == 255 - x

initialize_bitwise(size, seed) ==
  [a |-> [i \in 0 .. size - 1 |-> Draw(seed, 2 * i, 0, 255)],
   b |-> [i \in 0 .. size - 1 |-> Draw(seed, 2 * i + 1, 0, 255)],
   result |-> [i \in 0 .. size - 1 |-> 0]]

naive_bitwise(c) ==
  LET mixed(ua, ub) ==
        LET shared == ua & ub
            either == ua | ub
            diff == ua ^^ ub
            mixed0 == (diff & kMaskLo) | (Flip(shared) & Flip(kMaskLo))
            mixed1 == ((either ^^ kMaskHi) & (shared | Flip(kMaskHi))) ^^ diff
        IN mixed0 ^^ mixed1
  IN [c EXCEPT !.result = [i \in DOMAIN @ |-> mixed(c.a[i], c.b[i])]]

\* res64[w] = C1 ^ ((a64[w] | b64[w]) & C2) for words lo .. hi - 1, bytewise
Words(c, lo, hi) ==
  [c EXCEPT !.result = [i \in DOMAIN @ |->
     IF i \div WORD_BYTES \in lo .. hi - 1
     THEN 165 ^^ ((c.a[i] | c.b[i]) & 153) ELSE @[i]]]

\* Four words a turn, the words left, then the bytes left.
stu_bitwise(c) ==
  LET n == Cardinality(DOMAIN c.result)
      n64 == n \div WORD_BYTES
      turns == n64 - (n64 % WORDS_STEP)
      words == Words(Words(c, 0, turns), turns, n64)
  IN [words EXCEPT !.result = [i \in DOMAIN @ |->
        IF i >= n64 * WORD_BYTES THEN 165 ^^ ((c.a[i] | c.b[i]) & 153) ELSE @[i]]]

bitwise_check(s, r) == s.result = r.result

----------------------------------------------------------------------------
\* graph: the sum of every edge's target, over adjacency lists or over CSR.

initialize_graph(node_count, avg_degree, seed) ==
  [edges |-> [u \in 0 .. node_count - 1 |->
                [k \in 1 .. avg_degree |-> Draw(seed, u * avg_degree + k, 0, node_count - 1)]],
   out |-> 0, csr_row_ptr |-> <<>>, csr_col_idx |-> <<>>, is_convert |-> FALSE]

naive_graph(c) ==
  [c EXCEPT !.out = Sum(DOMAIN c.edges, LAMBDA u : FoldLeft(+, 0, c.edges[u]))]

\* csr_row_ptr[u]: the degrees of the nodes before u
RowStart(c, u) == Sum(0 .. u - 1, LAMBDA v : Len(c.edges[v]))

\* The k-th edge of u goes to csr_col_idx[current[u]++], current[u] starting
\* at csr_row_ptr[u]; a slot nothing is written to stays 0.
convert_graph_to_csr(c) ==
  LET n == Cardinality(DOMAIN c.edges)
      row == [u \in 0 .. n |-> RowStart(c, u)]
      here(p, u) == p - row[u] \in 0 .. Len(c.edges[u]) - 1
      \* the last node that writes slot p
      col(p) == IF \E u \in 0 .. n - 1 : here(p, u)
                THEN LET u == Max({v \in 0 .. n - 1 : here(p, v)})
                     IN c.edges[u][p - row[u] + 1]
                ELSE 0
  IN IF c.is_convert THEN c
     ELSE [c EXCEPT !.csr_row_ptr = row, !.is_convert = TRUE,
                    !.csr_col_idx = [p \in 0 .. row[n] - 1 |-> col(p)]]

stu_graph(c) ==
  [c EXCEPT !.out = Sum(DOMAIN c.csr_col_idx, LAMBDA p : c.csr_col_idx[p])]

graph_check(s, r) == AbsVal(s.out - r.out) * EPS_INV <= AbsVal(r.out)

----------------------------------------------------------------------------
\* sparse_spmm: a CSR matrix by a dense one held transposed.

\* The blocks of block row br, in the order of the offsets that stay inside
BlockCols(br, block_col_count) ==
  SelectSeq([k \in 1 .. Len(OFFSETS) |-> br + OFFSETS[k]],
            LAMBDA bc : bc \in 0 .. block_col_count - 1)

\* Offsets outside -(rows - 1) .. cols - 1 are dropped, which BlockCols does
\* too; no zero is stored.
build_sparse_matrix(block_row_count, block_col_count, seed) ==
  LET rows == block_row_count * SUBBLOCK
      entry(r, bc, lc) == <<bc * SUBBLOCK + lc,
                            Draw(seed, (r * block_col_count + bc) * SUBBLOCK + lc, -2, 2)>>
      row(r) == LET blocks == BlockCols(r \div SUBBLOCK, block_col_count)
                    all == FlattenSeq([k \in DOMAIN blocks |->
                             [lc \in 1 .. SUBBLOCK |-> entry(r, blocks[k], lc - 1)]])
                IN SelectSeq(all, LAMBDA e : e[2] # 0)
      nnz == FlattenSeq([r \in 1 .. rows |-> row(r - 1)])
  IN [rows |-> rows, cols |-> block_col_count * SUBBLOCK,
      row_ptr |-> [r \in 0 .. rows |-> Sum(0 .. r - 1, LAMBDA q : Len(row(q)))],
      col_idx |-> [p \in 0 .. Len(nnz) - 1 |-> nnz[p + 1][1]],
      values |-> [p \in 0 .. Len(nnz) - 1 |-> nnz[p + 1][2]]]

initialize_spmm(block_row_count, block_col_count, seed) ==
  LET csr == build_sparse_matrix(block_row_count, block_col_count, seed)
  IN [csr |-> csr,
      dense_t |-> [i \in 0 .. csr.cols * csr.cols - 1 |-> Draw(seed, 7 * i + 3, -1, 1)],
      out |-> [i \in 0 .. csr.rows * csr.cols - 1 |-> 0]]

validate_csr(csr) ==
  /\ DOMAIN csr.row_ptr = 0 .. csr.rows
  /\ csr.row_ptr[0] = 0
  /\ DOMAIN csr.col_idx = DOMAIN csr.values
  /\ csr.row_ptr[csr.rows] = Cardinality(DOMAIN csr.values)
  /\ \A r \in 1 .. csr.rows : csr.row_ptr[r - 1] <= csr.row_ptr[r]
  /\ \A p \in DOMAIN csr.col_idx : csr.col_idx[p] \in 0 .. csr.cols - 1

\* The shapes csr_spmm accepts, for a matrix that has rows and columns
spmm_valid(c) ==
  LET n == Cardinality(DOMAIN c.dense_t)
  IN /\ validate_csr(c.csr)
     /\ n % c.csr.cols = 0
     /\ n > 0
     /\ Cardinality(DOMAIN c.out) = c.csr.rows * (n \div c.csr.cols)

\* What row r has at column n, given the dense element at column c
RowTimes(csr, r, dense(_)) ==
  Sum(csr.row_ptr[r] .. csr.row_ptr[r + 1] - 1,
      LAMBDA p : csr.values[p] * dense(csr.col_idx[p]))

csr_spmm(c) ==
  LET cols == c.csr.cols
      dense_cols == Cardinality(DOMAIN c.dense_t) \div cols
  IN [c EXCEPT !.out = [i \in DOMAIN @ |->
        RowTimes(c.csr, i \div dense_cols,
                 LAMBDA k : c.dense_t[(i % dense_cols) * cols + k])]]

\* Mutant: std::fill is forgotten, so a call adds to what the last one left
Zeroed_kept(out) == out
\* std::fill(out.begin(), out.end(), 0.0f)
Zeroed(out) == [i \in DOMAIN out |-> 0]

stu_csr_spmm(c) ==
  LET cols == c.csr.cols
      dense_cols == Cardinality(DOMAIN c.dense_t) \div cols
      D == [i \in DOMAIN c.dense_t |-> c.dense_t[(i % dense_cols) * cols + (i \div dense_cols)]]
  IN [c EXCEPT !.out = [i \in DOMAIN @ |->
        Zeroed(@)[i] + RowTimes(c.csr, i \div dense_cols,
                                LAMBDA k : D[k * dense_cols + (i % dense_cols)])]]

sparse_spmm_check(s, r) == Agree(s.out, r.out)

----------------------------------------------------------------------------
\* trace_replay.  Its generator is worked modulo 2^16 (the low half of the
\* word, whose successor depends on nothing above) and its total modulo 2^15.

lcg(x) == (x * 26125 + 62303) % 65536
RightShift(x, k) == x \div (2 ^ k)

initialize_trace_replay(record_count, trace_count, seed) ==
  LET draws == 2 * (record_count + (trace_count \div SEGMENT) + 1)
      current[k \in 0 .. draws] == IF k = 0 THEN seed ELSE lcg(current[k - 1])
      record(r0, r1) == [base_cost |-> 20 + (r0 & 255),
                         retry_penalty |-> 1 + (RightShift(r0, 8) & 31),
                         miss_penalty |-> 1 + (r1 & 63),
                         bytes |-> 64 + (RightShift(r1, 8) & 511)]
      window_size == LeastOf(WINDOW, record_count)
      window_mask == window_size - 1
      window_count == record_count \div window_size
      request(i) ==
        LET at == 2 * record_count + 2 * (i \div SEGMENT)
            base == (current[at + 1] % window_count) * window_size
            stride == (RightShift(current[at + 2], 3) & window_mask) | 1
            local == (i % SEGMENT) & window_mask
        IN base + ((local * stride) & window_mask)
  IN [out |-> 0,
      records |-> [i \in 0 .. record_count - 1 |-> record(current[2 * i + 1], current[2 * i + 2])],
      trace |-> [i \in 1 .. trace_count |-> request(i - 1)]]

trace_replay_cost(record) ==
  record.base_cost + 2 * record.retry_penalty + record.miss_penalty
    + RightShift(record.bytes, 4)

\* total = total * order_mix + cost, over some requests
Replay(c, total, requests) ==
  FoldLeft(LAMBDA acc, i : (acc * 18087 + trace_replay_cost(c.records[i])) % 32768,
           total, requests)

naive_trace_replay(c) == [c EXCEPT !.out = Replay(c, 0, c.trace)]

\* The loop that prefetches runs while there is a request two distances ahead.
stu_trace_replay(c) ==
  LET n == Len(c.trace)
      body == IF n > 2 * PREFETCH_DIS THEN n - 2 * PREFETCH_DIS ELSE 0
      total == Replay(c, 0, SubSeq(c.trace, 1, body))
  IN [c EXCEPT !.out = Replay(c, total, SubSeq(c.trace, body + 1, n))]

trace_replay_check(s, r) == s.out = r.out

----------------------------------------------------------------------------
\* matmul, on n by n matrices held row by row.

initialize_matmul(n, seed) ==
  [n |-> n, C |-> [i \in 0 .. n * n - 1 |-> 0],
   A |-> [i \in 0 .. n * n - 1 |-> Draw(seed, 2 * i, -2, 2)],
   B |-> [i \in 0 .. n * n - 1 |-> Draw(seed, 2 * i + 1, -2, 2)]]

naive_matmul(c) ==
  LET n == c.n
  IN [c EXCEPT !.C = [ij \in DOMAIN @ |->
        Sum(0 .. n - 1, LAMBDA k : c.A[(ij \div n) * n + k] * c.B[k * n + (ij % n)])]]

Blocks(n) == {x \in 0 .. n - 1 : x % BLOCK = 0}
\* Mutant: the row blocks overlap by a row
up_over(x, n) == LeastOf(x + BLOCK + 1, n)
\* std::min(x + BLOCK, n)
up(x, n) == LeastOf(x + BLOCK, n)

\* Every block (x, z, y) adds its products to the rows of C it covers.
stu_matmul(c) ==
  LET n == c.n
      blocks == Blocks(n) \X Blocks(n) \X Blocks(n)
      covers(b, i, j) == i \in b[1] .. up(b[1], n) - 1 /\ j \in b[3] .. up(b[3], n) - 1
      term(i, j, b) == IF covers(b, i, j)
                       THEN Sum(b[2] .. up(b[2], n) - 1,
                                LAMBDA k : c.A[i * n + k] * c.B[k * n + j])
                       ELSE 0
  IN [c EXCEPT !.C = [ij \in DOMAIN @ |->
        Zeroed(@)[ij] + Sum(blocks, LAMBDA b : term(ij \div n, ij % n, b))]]

\* rel > eps fails
matmul_check(s, r) == Agree(s.C, r.C)

----------------------------------------------------------------------------
\* grff: nine passes over buffers, or two passes over one.

initialize_grff(size, seed) ==
  LET column(k) == [i \in 0 .. size - 1 |-> Draw(seed, 3 * i + k, -4, 4)]
  IN [a |-> column(0), b |-> column(1), c |-> column(2),
      f_output |-> [i \in 0 .. size - 1 |-> 0]]

naive_grff(g) ==
  LET ix == DOMAIN g.a
      n == Cardinality(ix)
      G == [i \in ix |-> ((g.a[i] * g.b[i]) \div (1 + AbsVal(g.a[i] * g.b[i])) + 1) \div 2]
      A_prime == [i \in ix |-> g.a[i] + G[i]]
      avg_a == Sum(ix, LAMBDA i : A_prime[i]) \div n
      Smooth_A == [i \in ix |-> IF i = 0 THEN A_prime[0] ELSE (A_prime[i] + A_prime[i - 1]) \div 2]
      B_prime == [i \in ix |-> g.b[i] * (1 - G[i]) * avg_a]
      C_prime == [i \in ix |-> g.c[i] + (Smooth_A[i] \div (1 + AbsVal(Smooth_A[i])))]
      H == [i \in ix |-> Smooth_A[i] * C_prime[i]]
      E == [i \in ix |-> (H[i] + B_prime[i]) \div (1 + AbsVal(Smooth_A[i]))]
  IN [g EXCEPT !.f_output = [i \in ix |-> LET result == C_prime[i] - E[i]
                                          IN IF result < 0 THEN 0 ELSE result]]

stu_grff(g) ==
  LET ix == DOMAIN g.a
      gate(i) == LET prod == g.a[i] * g.b[i]
                 IN (prod \div (1 + AbsVal(prod)) + 1) \div 2
      A_prime == [i \in ix |-> g.a[i] + gate(i)]
      avg_a == Sum(ix, LAMBDA i : A_prime[i]) \div Cardinality(ix)
      output(i) ==
        LET Smooth_A == IF i = 0 THEN A_prime[0] ELSE (A_prime[i] + A_prime[i - 1]) \div 2
            B_prime == g.b[i] * (1 - gate(i)) * avg_a
            C_prime == g.c[i] + (Smooth_A \div (1 + AbsVal(Smooth_A)))
            E == (Smooth_A * C_prime + B_prime) \div (1 + AbsVal(Smooth_A))
        IN IF C_prime - E > 0 THEN C_prime - E ELSE 0
  IN [g EXCEPT !.f_output = [i \in ix |-> output(i)]]

grff_check(s, r) == Agree(s.f_output, r.f_output)

----------------------------------------------------------------------------
\* filter_gradient, over nine planes or over pixels of nine values.

Planes == <<"a", "b", "c", "d", "e", "f", "g", "h", "i">>

initialize_filter_gradient(width, height, seed) ==
  [width |-> width, height |-> height, out |-> 0, is_converted |-> FALSE, aos_data |-> <<>>,
   data |-> [p \in ToSet(Planes) |->
               [k \in 0 .. width * height - 1 |->
                  Draw(seed, 9 * k + CHOOSE m \in 1 .. 9 : Planes[m] = p, 0, 2)]]]

\* p1 + p2 + p3 at one point, times 81 (both 1/9 factors of p1 cleared), from
\* the value of a plane at an offset
Gradient(at(_, _, _)) ==
  LET box(p) == Sum({-1, 0, 1} \X {-1, 0, 1}, LAMBDA d : at(p, d[1], d[2]))
      dx(p) == Sum({-1, 0, 1}, LAMBDA dy : (2 - AbsVal(dy)) * (at(p, dy, 1) - at(p, dy, -1)))
      dy(p) == Sum({-1, 0, 1}, LAMBDA d : (2 - AbsVal(d)) * (at(p, 1, d) - at(p, -1, d)))
  IN box("a") * box("b") + 9 * box("c")
       + 81 * (dx("d") * dx("e") + dx("f")) + 81 * (dy("g") * dy("h") + dy("i"))

Inner(n) == {k \in 1 .. n : k + 1 < n}

naive_filter_gradient(c) ==
  LET point(yx) == Gradient(LAMBDA p, dy, dx :
                     c.data[p][(yx[1] + dy) * c.width + yx[2] + dx])
  IN [c EXCEPT !.out = Sum(Inner(c.height) \X Inner(c.width), point)]

convert_soa_to_aos(c) ==
  IF c.is_converted THEN c
  ELSE [c EXCEPT !.is_converted = TRUE,
                 !.aos_data = [k \in 0 .. c.width * c.height - 1 |->
                                 [p \in ToSet(Planes) |-> c.data[p][k]]]]

\* One row of the student's loop, from its three row pointers
GradientRow(c, y) ==
  LET row(dy) == (y + dy) * c.width
  IN Sum(Inner(c.width), LAMBDA x : Gradient(LAMBDA p, dy, dx : c.aos_data[row(dy) + x + dx][p]))

stu_filter_gradient(c) ==
  [c EXCEPT !.out = Sum(Inner(c.height), LAMBDA y : GradientRow(c, y))]

filter_gradient_check(s, r) == AbsVal(s.out - r.out) * EPS_INV <= AbsVal(r.out)
=============================================================================
