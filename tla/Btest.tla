------------------------------- MODULE Btest --------------------------------
(***************************************************************************)
(* btest (Data Lab, btest.c): it calls every puzzle of test_set on chosen  *)
(* values, compares with the test function, and stops a puzzle that does   *)
(* not return by an alarm whose handler jumps back into test_function.     *)
(*                                                                         *)
(* The alarm is never cancelled: the one of a puzzle that returned in time *)
(* is still to come, unless the next alarm() replaces it.                  *)
(***************************************************************************)
EXTENDS Integers, SequencesExt, Bits

CONSTANTS
    TestSets,         \* the possible test_set
    Solution(_, _),   \* what a puzzle makes of its arguments, or Loop
    Test(_, _),       \* what it should
    CommandLines,     \* the options that btest is called with
    TEST_RANGE,       \* values to generate at each place of interest
    MAX_TEST_VALS,    \* room for the values of an argument
    Weights           \* what rand() gives, in eighths

\* The comment at MAX_TEST_VALS: it must hold what gen_vals generates.
ASSUME RoomAssumption ==
    /\ TEST_RANGE \in Nat \ {0}
    /\ MAX_TEST_VALS >= 12 * TEST_RANGE + 4

VARIABLES
    test_set,
    argv,         \* the options not parsed yet
    options,      \* test_fname, has_arg, argval, global_rating, timeout_limit
    pc,           \* where the process is
    i,            \* the puzzle of run_tests' loop
    vals,         \* arg_test_vals: the values of each argument
    calls,        \* calls of the puzzle done
    terrors,      \* what test_function returned
    cause,        \* history: why; "right", "answer", its own alarm or a "stray" one
    points, max_points,
    alarm,        \* is an alarm to come?
    envbuf,       \* the puzzle for which test_function last called sigsetjmp
    verdicts      \* what run_tests made of the puzzles, in order

configVars == <<test_set, argv, options>>
scoreVars == <<points, max_points, verdicts>>
result == <<terrors, cause>>
vars == <<configVars, pc, i, vals, calls, result, scoreVars, alarm, envbuf>>

\* The result of a call that does not return: no word.
Loop == -1

-----------------------------------------------------------------------------
(* gen_vals.                                                               *)

\* A value between min and max, cut off towards zero.
random_val(min, max, weight) ==
    LET n == min * (8 - weight) + max * weight
    IN  IF n < 0 THEN -((-n) \div 8) ELSE n \div 8

Concat(parts) == FoldLeft(LAMBDA s, t : s \o t, << >>, parts)

\* Patterns of floats around zero, the least normalized one, one and the
\* largest exponent, with both signs, and the special ones.
float_vals(range) ==
    LET signed(n) == <<Pattern(n), Pattern(2^(W - 1) + n)>>
        smallest_norm == 2^FRAC
        one == BIAS * 2^FRAC
        largest_norm == (EXP_MASK - 1) * 2^FRAC
        inf == EXP_MASK * 2^FRAC
        nan == inf + 2^(FRAC - 1)
        around(k) == Concat(<<signed(k), signed(smallest_norm + k), signed(smallest_norm - k),
                              signed(one + k), signed(one - k), signed(largest_norm - k)>>)
    IN  Concat([k \in 1..(IF range > 2^FRAC THEN 2^FRAC ELSE range) |-> around(k - 1)])
        \o signed(inf) \o signed(nan)

\* Mutant: nothing around zero.
gen_vals_ends(min, max, range, weight) ==
    LET at(k) == <<min + k, max - k, random_val(min, max, weight)>>
        ints == IF max - MAX_TEST_VALS <= min THEN [k \in 1..(max - min + 1) |-> min + k - 1]
                ELSE Concat([k \in 1..range |-> at(k - 1)])
    IN  IF min = 1 /\ max = 1 THEN float_vals(range) ELSE [k \in DOMAIN ints |-> Pattern(ints[k])]

\* All of a small range, or the ends, zero if it is inside, and random ones.
gen_vals(min, max, range, weight) ==
    LET between(n) == IF n >= min /\ n <= max THEN <<n>> ELSE << >>
        at(k) == <<min + k, max - k>> \o between(k) \o between(-k) \o <<random_val(min, max, weight)>>
        ints == IF max - MAX_TEST_VALS <= min THEN [k \in 1..(max - min + 1) |-> min + k - 1]
                ELSE Concat([k \in 1..range |-> at(k - 1)])
    IN  IF min = 1 /\ max = 1 THEN float_vals(range) ELSE [k \in DOMAIN ints |-> Pattern(ints[k])]

\* The values per place of interest: the root of TEST_RANGE, at least one.
\* The exponent of the third is 0.333, so a cube has not quite its root.
arg_test_range(args) ==
    LET fits(r) == CASE args = 1 -> r <= TEST_RANGE
                     [] args = 2 -> r * r <= TEST_RANGE
                     [] OTHER -> r * r * r < TEST_RANGE \/ r = 1
    IN  CHOOSE r \in 1..TEST_RANGE : fits(r) /\ (r = TEST_RANGE \/ ~fits(r + 1))

\* The k-th call of the three nested loops, the last argument the fastest.
argumentsOf(k) ==
    LET size(a) == FoldFunction(LAMBDA x, y : x * y, 1,
                                [b \in (a + 1)..Len(vals) |-> Len(vals[b])])
    IN  [a \in DOMAIN vals |-> vals[a][((k \div size(a)) % Len(vals[a])) + 1]]

callsToDo == FoldFunction(LAMBDA x, y : x * y, 1, [a \in DOMAIN vals |-> Len(vals[a])])

-----------------------------------------------------------------------------
(* main: the options.                                                      *)

\* A number is taken only if the place for it still holds zero; what is
\* behind the digits of an integer is not looked at.
get_num_val(text, old) ==
    IF text.isfloat THEN text.whole ELSE old = 0 /\ text.fits

ParseOption ==
    /\ pc = "options" /\ argv # << >>
    /\ argv' = Tail(argv)
    /\ LET o == Head(argv) IN
        \/ /\ o.opt = "f" /\ options' = [options EXCEPT !.test_fname = o.name]
           /\ UNCHANGED pc
        \/ /\ o.opt = "r" /\ options' = [options EXCEPT !.global_rating = o.n]
           /\ pc' = IF o.n < 0 THEN "exit1" ELSE pc
        \/ /\ o.opt = "T" /\ options' = [options EXCEPT !.timeout_limit = o.n]
           /\ UNCHANGED pc
        \/ /\ o.opt = "arg"
           /\ LET ok == get_num_val(o.text, options.argval[o.place]) IN
                /\ pc' = IF ok THEN pc ELSE "exit0"
                /\ options' = [options EXCEPT
                        !.has_arg[o.place] = ok,
                        !.argval[o.place] = IF ok THEN o.text.val ELSE @]
        \/ o.opt = "h" /\ pc' = "exit1" /\ UNCHANGED options
    /\ UNCHANGED <<test_set, i, vals, calls, result, scoreVars, alarm, envbuf>>

StartTests ==
    /\ pc = "options" /\ argv = << >>
    /\ pc' = "loop" /\ i' = 1
    /\ UNCHANGED <<configVars, vals, calls, result, scoreVars, alarm, envbuf>>

-----------------------------------------------------------------------------
(* run_tests and test_function.                                            *)

t == test_set[i]

selected == options.test_fname \in {"", t.name}

SkipTest ==
    /\ pc = "loop" /\ i <= Len(test_set) /\ ~selected
    /\ i' = i + 1
    /\ UNCHANGED <<configVars, pc, vals, calls, result, scoreVars, alarm, envbuf>>

EnterTest ==
    /\ pc = "loop" /\ i <= Len(test_set) /\ selected
    /\ \E weight \in Weights :
        vals' = [a \in 1..t.args |->
                    IF options.has_arg[a] THEN <<options.argval[a]>>
                    ELSE gen_vals(t.min, t.max, arg_test_range(t.args), weight)]
    /\ calls' = 0 /\ pc' = "generated"
    /\ UNCHANGED <<configVars, i, result, scoreVars, alarm, envbuf>>

SetJump ==
    /\ pc = "generated" /\ options.timeout_limit > 0
    /\ envbuf' = i /\ pc' = "jumpset"
    /\ UNCHANGED <<configVars, i, vals, calls, result, scoreVars, alarm>>

NoTimeout ==
    /\ pc = "generated" /\ options.timeout_limit <= 0
    /\ pc' = "testing"
    /\ UNCHANGED <<configVars, i, vals, calls, result, scoreVars, alarm, envbuf>>

\* Mutant: the alarm is set for the first puzzle only.
SetAlarm_once ==
    /\ pc = "jumpset"
    /\ alarm' = (i = 1) /\ pc' = "testing"
    /\ UNCHANGED <<configVars, i, vals, calls, result, scoreVars, envbuf>>

SetAlarm ==
    /\ pc = "jumpset"
    /\ alarm' = TRUE /\ pc' = "testing"
    /\ UNCHANGED <<configVars, i, vals, calls, result, scoreVars, envbuf>>

\* One call; the first difference ends the test.
TestValues ==
    /\ pc = "testing" /\ calls < callsToDo
    /\ \E args \in {argumentsOf(calls)} : \E r \in {Solution(t.name, args)} :
        /\ r # Loop
        /\ IF r = Test(t.name, args)
           THEN calls' = calls + 1 /\ UNCHANGED <<pc, result>>
           ELSE /\ terrors' = 1 /\ cause' = "answer" /\ pc' = "tested"
                /\ UNCHANGED calls
    /\ UNCHANGED <<configVars, i, vals, scoreVars, alarm, envbuf>>

AllRight ==
    /\ pc = "testing" /\ calls = callsToDo
    /\ terrors' = 0 /\ cause' = "right" /\ pc' = "tested"
    /\ UNCHANGED <<configVars, i, vals, calls, scoreVars, alarm, envbuf>>

rating == IF options.global_rating # 0 THEN options.global_rating ELSE t.rating

Judge ==
    /\ pc = "tested"
    /\ points' = points + (IF terrors = 0 THEN rating ELSE 0)
    /\ max_points' = max_points + rating
    /\ verdicts' = Append(verdicts, [test |-> i, errors |-> terrors, cause |-> cause])
    /\ i' = i + 1 /\ pc' = "loop"
    /\ UNCHANGED <<configVars, vals, calls, result, alarm, envbuf>>

\* The exit status says nothing of the errors.
Finish ==
    /\ pc = "loop" /\ i > Len(test_set)
    /\ pc' = "exit0"
    /\ UNCHANGED <<configVars, i, vals, calls, result, scoreVars, alarm, envbuf>>

running == pc \notin {"exit0", "exit1", "crash"}

\* Mutant: the path after the jump returns the errors as they stand.
timedOut_counted(why) == terrors' = 0 /\ cause' = why /\ pc' = "tested"

\* sigsetjmp returns 1.
timedOut(why) == terrors' = 1 /\ cause' = why /\ pc' = "tested"

\* The handler jumps to the environment that test_function saved for this
\* puzzle.  Between sigsetjmp and alarm() it is still the alarm of another.
Timeout ==
    /\ alarm
    /\ \/ pc = "jumpset" /\ timedOut("stray")
       \/ pc = "testing" /\ timedOut("alarm")
    /\ alarm' = FALSE
    /\ UNCHANGED <<configVars, i, vals, calls, scoreVars, envbuf>>

\* The alarm of a puzzle already judged: the jump is into the frame of a call
\* that has returned.  That is undefined; what is found there is the frame of
\* the present call, the old one as it was, or neither.
LateTimeout ==
    /\ alarm /\ running /\ pc \notin {"jumpset", "testing"}
    /\ alarm' = FALSE
    /\ \/ pc = "generated" /\ timedOut("stray") /\ UNCHANGED i
       \/ pc # "generated" /\ timedOut("stray") /\ i' = envbuf
       \/ pc' = "crash" /\ UNCHANGED <<result, i>>
    /\ UNCHANGED <<configVars, vals, calls, scoreVars, envbuf>>

Init ==
    /\ test_set \in TestSets
    /\ argv \in CommandLines
    /\ options = [test_fname |-> "", has_arg |-> <<FALSE, FALSE, FALSE>>, argval |-> <<0, 0, 0>>,
                  global_rating |-> 0, timeout_limit |-> 10]
    /\ pc = "options" /\ i = 0 /\ vals = << >> /\ calls = 0 /\ terrors = 0 /\ cause = "right"
    /\ points = 0 /\ max_points = 0 /\ verdicts = << >>
    /\ alarm = FALSE /\ envbuf = 0

Run ==
    \/ ParseOption \/ StartTests \/ SkipTest \/ EnterTest \/ SetJump \/ NoTimeout
    \/ SetAlarm \/ TestValues \/ AllRight \/ Judge \/ Finish

Next == Run \/ Timeout \/ LateTimeout

\* The process runs, and an alarm that was set is delivered.
Spec == Init /\ [][Next]_vars /\ WF_vars(Run) /\ WF_vars(Timeout)

-----------------------------------------------------------------------------

\* The values that btest tries without -1, -2 and -3.
fixed == \E a \in 1..3 : options.has_arg[a]

passed == {verdicts[k].test : k \in {n \in DOMAIN verdicts : verdicts[n].errors = 0}}

judged == {verdicts[k].test : k \in DOMAIN verdicts}

strays == {k \in DOMAIN verdicts : verdicts[k].cause = "stray"}

wanted == {n \in DOMAIN test_set : options.test_fname \in {"", test_set[n].name}}

weightOf(n) == IF options.global_rating # 0 THEN options.global_rating ELSE test_set[n].rating

total(puzzles) == FoldFunction(+, 0, [n \in puzzles |-> weightOf(n)])

\* The score that run_tests prints is that of the puzzles, not of the calls of
\* test_function.  They are judged in the order of test_set, each selected one
\* at least once and no other; judged again is only a puzzle to which an alarm
\* has come back after its verdict, one time more per such alarm, and then it
\* fails, so that no puzzle earns its points twice.  The points to be had are
\* those of the puzzles unless an alarm has come late (btest.c 346-366, 397-438).
ScoreExact ==
    /\ judged \subseteq wanted
    /\ \A k, n \in DOMAIN verdicts : k < n =>
            \/ verdicts[k].test < verdicts[n].test
            \/ verdicts[k].test = verdicts[n].test /\ n \in strays
    /\ points = total(passed)
    /\ max_points >= total(judged) /\ (strays = {} => max_points = total(judged))
    /\ pc = "exit0" /\ argv = << >> /\ i > 0 => judged = wanted

\* A puzzle that never returns does not keep btest from ending, however many
\* there are, as long as there is a limit (btest.c, TIMEOUT_LIMIT: "Handle
\* infinite loops by setting upper limit on execution time").
Termination == (pc = "loop" /\ options.timeout_limit > 0) ~> ~running
=============================================================================
