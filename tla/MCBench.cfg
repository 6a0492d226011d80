CONSTANTS
  RELU_STEP = 3
  WORD_BYTES = 2
  WORDS_STEP = 3
  PREFETCH_DIS = 2
  WINDOW = 4
  SEGMENT = 4
  BLOCK = 2
  SUBBLOCK = 2
  OFFSETS <- MCOffsets
  EPS_INV = 1000
  Draw <- MCDraw
  BENCHMARKS <- MCBenchmarks
  SIZES <- MCSizes
  SEEDS = {1, 2, 5}
  TIMES = {0, 3}
  K_BEST = 3
  TODO = {"relu", "image_proc"}
  THREADS = {t1, t2}
SPECIFICATION Spec
INVARIANTS
  ResultsExact
  TeamsDisjoint
  VerdictExact
CHECK_DEADLOCK FALSE
