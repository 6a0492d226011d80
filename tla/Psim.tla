-------------------------------- MODULE Psim --------------------------------
(***************************************************************************)
(* psim in TTY mode with the -t option (run_tty_sim of pipe/psim.c): run   *)
(* the pipeline under the instruction limit (sim_run_pipe), then step the  *)
(* instruction-set machine from the same memory (step_state) and compare   *)
(* registers, memory and condition codes.                                  *)
(*                                                                         *)
(* The machine is Pipe with the history of PipeISA: whether a store has    *)
(* hit an instruction already fetched, and whether a hazard has occurred   *)
(* that the design leaves to the program.                                  *)
(***************************************************************************)
EXTENDS PipeISA

CONSTANT instr_limit   \* the -l option

ASSUME LimitAssumption == instr_limit \in Nat

VARIABLES
    phase,         \* "pipe" (in sim_run_pipe), "isa" (in the -t loop), "done"
    icount,        \* instructions, as sim_run_pipe counts them
    ccount,        \* cycles of this run
    run_status,    \* what the last sim_step_pipe returned
    starting_up,   \* no instruction has reached write-back yet
    cycles,        \* CPI statistics
    instructions,
    isa_pc, isa_r, isa_m, isa_cc, isa_stat,   \* isa_state, and e
    step,          \* steps of the -t loop
    match          \* "ISA Check Succeeds"

run == <<icount, ccount, run_status>>
perf == <<starting_up, cycles, instructions>>
isa == <<isa_pc, isa_r, isa_m, isa_cc, isa_stat>>
pvars == <<ivars, phase, run, perf, isa, step, match>>

IsaState == INSTANCE ISA WITH
    pc <- isa_pc, r <- isa_r, m <- isa_m, cc <- isa_cc, stat <- isa_stat

\* sim_init, load_mem, and the copies that -t makes of the loaded state.
PsimInit ==
    /\ IInit
    /\ phase = "pipe"
    /\ icount = 0 /\ ccount = 0 /\ run_status = "AOK"
    /\ starting_up = TRUE /\ cycles = 0 /\ instructions = 0
    /\ isa_pc = 0 /\ isa_r = reg /\ isa_m = mem /\ isa_cc = cc /\ isa_stat = "AOK"
    /\ step = 0 /\ match = TRUE

\* How many instructions are ahead of one in memory, and of one in execute.
ahead_mem == IF W.stat # "BUB" THEN 1 ELSE 0
ahead_ex == ahead_mem + (IF m_stat # "BUB" THEN 1 ELSE 0)

\* The counters at the end of sim_step_pipe (bubbles count once one
\* instruction has reached write-back).
Perf ==
    IF W'.stat # "BUB"
    THEN /\ starting_up' = FALSE
         /\ instructions' = instructions + 1
         /\ cycles' = cycles + 1
    ELSE /\ UNCHANGED <<starting_up, instructions>>
         /\ cycles' = (IF starting_up THEN cycles ELSE cycles + 1)

\* Mutant: the tests that keep the writes of instructions past the limit out
\* are the wrong way round.
sim_step_pipe_swapped(max_instr) ==
    /\ Cycle(ahead_mem >= max_instr, ahead_ex >= max_instr)
    /\ Perf

sim_step_pipe(max_instr) ==
    /\ Cycle(ahead_mem < max_instr, ahead_ex < max_instr)
    /\ Perf

Running ==
    /\ icount < instr_limit
    /\ ccount < 5 * instr_limit
    /\ run_status \in {"AOK", "BUB"}

\* One turn of the loop of sim_run_pipe, which leaves by `break` on an error.
RunPipe ==
    /\ phase = "pipe" /\ Running
    /\ sim_step_pipe(instr_limit - icount)
    /\ smc' = (smc \/ OverwritesFetched)
    /\ unhandled' = (unhandled \/ HazardUnhandled)
    /\ run_status' = Stat'
    /\ icount' = (IF run_status' # "BUB" THEN icount + 1 ELSE icount)
    /\ ccount' = (IF run_status' \in {"AOK", "BUB"} THEN ccount + 1 ELSE ccount)
    /\ UNCHANGED <<phase, isa, step, match>>

RunEnds ==
    /\ phase = "pipe" /\ ~Running
    /\ phase' = "isa"
    /\ UNCHANGED <<ivars, run, perf, isa, step, match>>

\* Mutant: the -t loop does not count its steps.
StepIsa_uncounted ==
    /\ phase = "isa" /\ step < instr_limit /\ isa_stat = "AOK"
    /\ IsaState!Next
    /\ UNCHANGED <<ivars, phase, run, perf, step, match>>

StepIsa ==
    /\ phase = "isa" /\ step < instr_limit /\ isa_stat = "AOK"
    /\ IsaState!Next
    /\ step' = step + 1
    /\ UNCHANGED <<ivars, phase, run, perf, match>>

Compare ==
    /\ phase = "isa" /\ (step >= instr_limit \/ isa_stat # "AOK")
    /\ phase' = "done"
    /\ match' = (isa_r = reg /\ isa_m = mem /\ isa_cc = cc)
    /\ UNCHANGED <<ivars, run, perf, isa, step>>

PsimNext == RunPipe \/ RunEnds \/ StepIsa \/ Compare

PsimSpec == PsimInit /\ [][PsimNext]_pvars

PsimFairSpec == PsimSpec /\ WF_pvars(PsimNext)

-----------------------------------------------------------------------------

\* The designs have iaddq if the programs may: one without it stops there with
\* an invalid instruction, and the ISA goes on.
IaddqBuilt ==
    \A load \in Loads, w \in Word :
        Decode[w].icode = "IIADDQ" => "IIADDQ" \in load.design.iaddq

\* The instruction-set machine stopped at a call, pushq or popq whose stack
\* address is bad; it has then moved %rsp and PIPE has not.
IsaStackFault ==
    isa_stat = "ADR" /\ word_ok(isa_pc) /\ IsaState!I.icode \in {"ICALL", "IPUSHQ", "IPOPQ"}

\* A run that ends with an exception before the limit passes the -t check,
\* and the two machines stop for the same reason: bubbles only make the
\* pipeline later than the ISA, so the limit that let it finish lets the ISA
\* finish too (psim.c 230-269).
\* The instructions that the CPI line reports are the ones the program
\* executed: the ISA stops after as many steps (psim.c 732-739, 272-277).
\* A program that stores into instructions already fetched has no such
\* promise: PIPE executes what it fetched, the ISA what was stored.
CheckSucceeds ==
    phase = "done" /\ run_status \in Exception /\ ~smc /\ ~unhandled =>
        /\ instructions = step
        /\ ~IsaStackFault => match /\ isa_stat = run_status

\* A run that the limit cuts leaves a memory and a register file that the
\* program goes through: the stores that sim_step_pipe disables are a suffix
\* of the program's (psim.c 689-696).
RunLeavesPrefix ==
    /\ <>(phase # "pipe" /\ (smc \/ unhandled \/ isa_m = mem))
    /\ <>(phase # "pipe" /\ (smc \/ unhandled \/ isa_r = reg))

\* The simulator always finishes, whatever the program does.
Terminates == <>(phase = "done")
=============================================================================
