-------------------------------- MODULE Gui --------------------------------
(***************************************************************************)
(* psim -g: the simulator under the Tcl/Tk front end.  Part 3 of psim.c    *)
(* gives pipe.tcl the commands simCode, simReset and simRun, and mirrors   *)
(* the state into the windows by evaluating Tcl commands; pipe.tcl gives   *)
(* the user the buttons Load, Reset, Step, Go and Stop.                    *)
(*                                                                         *)
(* A command runs to its end before Tcl looks at the next event, except in *)
(* simGo: its loop calls `update` after each cycle, which runs the handler *)
(* of every button pressed meanwhile, simGo's own included.  What Reset    *)
(* and Load do is in steps all the same: they report in the middle, while  *)
(* the memory and the code window are not yet those of the new run.        *)
(*                                                                         *)
(* The machine is Pipe (with the history of PipeISA), unlimited: simRun    *)
(* passes an instruction limit of five more than its one cycle.            *)
(***************************************************************************)
EXTENDS PipeISA, Sequences

CONSTANTS
    Files,     \* the object files that can be opened, as in Pipe's Loads
    Cleared,   \* the registers that pipe.tcl's clearReg blanks
    MaxGo      \* bound on the calls of simGo that are nested in one another

ASSUME FilesAssumption == \A file \in Files : \A a \in DOMAIN file : file[a] \in Word

VARIABLES
    F_stat,          \* pc_curr->status
    fetched,         \* the C variable f_pc, which a reset leaves as it was
    post_load_mem,   \* the copy of mem that Reset goes back to
    shownReg,        \* .r.reg<id>: the registers that have a text
    shown,           \* the pipe registers, condition codes and status on display
    lines,           \* the addresses that have a line in the code window
    labels,          \* the stage letter at those lines that have one
    simGoOK,         \* pipe.tcl: should the simulator be running?
    simStat,         \* pipe.tcl: what the last simRun returned
    gos,             \* calls of simGo in progress, all of them in `update`
    cmd              \* what the command that is running does next, or "idle"

fetch_state == <<F_stat, fetched>>
machine == <<ivars, fetch_state>>
window == <<shownReg, shown, lines, labels>>
control == <<simGoOK, simStat, gos>>
gvars == <<machine, post_load_mem, window, control, cmd>>

-----------------------------------------------------------------------------
(* What the C code tells the windows: sim_report and set_reg_val.          *)

\* setReg for every register that a write-back writes.
signal_register_update(text) ==
    LET written == IF started THEN {W.dstE, W.dstM} \cap RegId ELSE {}
    IN  [id \in DOMAIN text \cup written |->
            IF id \in written THEN writeBack[id] ELSE text[id]]

\* Mutant: clearReg blanks nothing.
signal_register_clear_none(text) == text

\* clearReg of pipe.tcl, which does not know all registers.
signal_register_clear(text) == [id \in DOMAIN text \ Cleared |-> text[id]]

show_stat == IF started THEN Stat ELSE "AOK"

\* do_if_stage lets nothing follow what it cannot fetch: the next pc is a bubble.
pc_next_status == IF if_id_next.stat = "AOK" THEN "AOK" ELSE "BUB"

\* What the stages have computed for the pipe registers: bubbles after a reset.
\* That of the pc register is the only one whose status is AOK.
next_halves ==
    IF started
    THEN <<pc_next_status, f_predPC, if_id_next, id_ex_next, ex_mem_next, mem_wb_next>>
    ELSE <<"AOK", 0, bubble_if_id, bubble_id_ex, bubble_ex_mem, bubble_mem_wb>>

\* sim_report: both halves of every pipe register, and the status line.
report ==
    [current |-> <<F_stat, pipeRegs>>, next |-> next_halves, cc |-> cc, stat |-> show_stat]

\* The addresses that sim_report gives for a stage, where `fpc` is the one of
\* the last fetch; a bubble has none.
in_stage(s, fpc) ==
    CASE s = "F" -> IF F_stat # "BUB" THEN {fpc} ELSE {}
      [] s = "D" -> IF D.stat # "BUB" THEN {D.pc} ELSE {}
      [] s = "E" -> IF E.stat # "BUB" THEN {E.pc} ELSE {}
      [] s = "M" -> IF M.stat # "BUB" THEN {M.pc} ELSE {}
      [] s = "W" -> IF W.stat # "BUB" THEN {W.pc} ELSE {}

Stages == <<"F", "D", "E", "M", "W">>

\* report_pc and simLabel: an address in several stages keeps the last letter.
report_pc(addrs, fpc) ==
    LET at(a) == {i \in DOMAIN Stages : a \in in_stage(Stages[i], fpc)}
        last(a) == CHOOSE i \in at(a) : \A j \in at(a) : j <= i
    IN  [a \in {b \in addrs : at(b) # {}} |-> Stages[last(a)]]

noLabels == << >>

-----------------------------------------------------------------------------
(* The Tcl commands.                                                       *)

\* simRun 1: one call of sim_step_pipe.
simRun ==
    /\ UNCHANGED <<post_load_mem, lines, cmd>>
    /\ Cycle(TRUE, TRUE)
    /\ smc' = (smc \/ OverwritesFetched)
    /\ unhandled' = (unhandled \/ HazardUnhandled)
    /\ F_stat' = (IF started /\ pipe_cntl(F_stall, F_bubble) = "P_LOAD"
                  THEN pc_next_status ELSE F_stat)
    /\ fetched' = f_pc'
    /\ shownReg' = signal_register_update(shownReg)
    /\ shown' = report'
    /\ labels' = report_pc(lines, fetched)'
    /\ simStat' = Stat'

\* sim_reset: the machine but for its memory, and the report, which has the
\* pc fetched before and the letter F for it.
resetMachine ==
    /\ F_predPC' = 0 /\ D' = bubble_if_id /\ E' = bubble_id_ex
    /\ M' = bubble_ex_mem /\ W' = bubble_mem_wb
    /\ reg' = [id \in RegId |-> 0]
    /\ cc' = DEFAULT_CC /\ cc_in' = DEFAULT_CC
    /\ started' = FALSE /\ F_stat' = "AOK"
    /\ smc' = FALSE /\ unhandled' = FALSE
    /\ UNCHANGED <<design, mem, fetched>>
    /\ shownReg' = signal_register_clear(shownReg)
    /\ shown' = report'
    /\ labels' = report_pc(lines, fetched)'

\* load_mem on a memory that may hold an earlier program.
load_over(m, code) == [a \in Addr |-> IF a \in DOMAIN code THEN code[a] ELSE m[a]]

idle == cmd = "idle"

-----------------------------------------------------------------------------
(* The buttons.  Load and Reset run to their end before anything else.     *)

\* loadCode: clear the code window, and simCode up to sim_reset.
Load ==
    /\ idle /\ cmd' = "load"
    /\ lines' = {}
    /\ resetMachine
    /\ UNCHANGED <<post_load_mem, control>>

\* The file cannot be opened: simCode fails, and loadCode stops there.
LoadFails ==
    /\ idle
    /\ lines' = {} /\ labels' = noLabels
    /\ UNCHANGED <<machine, post_load_mem, shownReg, shown, control, cmd>>

\* The rest of simCode.
LoadMem ==
    /\ cmd = "load" /\ cmd' = "reset"
    /\ \E file \in Files : mem' = load_over(mem, file) /\ lines' = DOMAIN file
    /\ post_load_mem' = mem'
    /\ UNCHANGED <<design, pipeRegs, reg, cc, cc_in, started, smc, unhandled, fetch_state,
                   shownReg, shown, labels, control>>

\* simResetAll, up to the sim_reset of simReset.
simResetAll ==
    /\ cmd' = "restore"
    /\ simStat' = "AOK"
    /\ UNCHANGED <<post_load_mem, lines, simGoOK, gos>>
    /\ resetMachine

\* The button.
Reset == idle /\ simResetAll

\* The end of loadCode.
ResetLoaded == cmd = "reset" /\ simResetAll

\* Mutant: simReset leaves the memory as it is.
PutBack_kept ==
    /\ cmd = "restore" /\ cmd' = "label"
    /\ UNCHANGED <<machine, post_load_mem, window, control>>

\* The rest of simReset.
PutBack ==
    /\ cmd = "restore" /\ cmd' = "label"
    /\ mem' = post_load_mem
    /\ UNCHANGED <<design, pipeRegs, reg, cc, cc_in, started, smc, unhandled, fetch_state,
                   post_load_mem, window, control>>

\* Mutant: the letters were cleared before simReset.
ClearLabels_early ==
    /\ cmd = "label" /\ cmd' = "idle"
    /\ UNCHANGED <<machine, post_load_mem, window, control>>

\* The rest of simResetAll.
ClearLabels ==
    /\ cmd = "label" /\ cmd' = "idle"
    /\ labels' = noLabels
    /\ UNCHANGED <<machine, post_load_mem, shownReg, shown, lines, control>>

Finish == LoadMem \/ ResetLoaded \/ PutBack \/ ClearLabels

Step == idle /\ simRun /\ UNCHANGED <<simGoOK, gos>>

\* The body of simGo's loop.
goOn == simRun /\ simGoOK' = (Stat' = "AOK")

Go ==
    /\ idle /\ gos < MaxGo
    /\ goOn
    /\ gos' = gos + 1

Stop ==
    /\ idle
    /\ simGoOK' = FALSE
    /\ UNCHANGED <<machine, post_load_mem, window, simStat, gos, cmd>>

Button == Load \/ LoadFails \/ Reset \/ Step \/ Go \/ Stop

\* Mutant: the loop does not look at what simRun returns.
GoCycle_blind ==
    /\ idle /\ gos > 0 /\ simGoOK
    /\ simRun
    /\ UNCHANGED <<simGoOK, gos>>

\* `update` returns in the innermost simGo, which goes on or ends.
GoCycle ==
    /\ idle /\ gos > 0 /\ simGoOK
    /\ goOn
    /\ UNCHANGED gos

GoReturn ==
    /\ idle /\ gos > 0 /\ ~simGoOK
    /\ gos' = gos - 1
    /\ UNCHANGED <<machine, post_load_mem, window, simGoOK, simStat, cmd>>

-----------------------------------------------------------------------------

\* pipe.tcl has loaded the file that the command line names.
GuiInit ==
    /\ IInit
    /\ F_stat = "AOK" /\ fetched = 0
    /\ post_load_mem = mem
    /\ shownReg = << >>
    /\ shown = report
    /\ \E load \in Loads : mem = load_mem(load.code) /\ lines = DOMAIN load.code
    /\ labels = noLabels
    /\ simGoOK = FALSE /\ simStat = "AOK" /\ gos = 0
    /\ cmd = "idle"

GuiNext == Button \/ Finish \/ GoCycle \/ GoReturn

\* A command goes on to its end, and Tcl goes back to a simGo whose update has
\* no event left.
GuiSpec == GuiInit /\ [][GuiNext]_gvars /\ WF_gvars(Finish \/ GoCycle \/ GoReturn)

-----------------------------------------------------------------------------

\* A cycle after the exception: the excepting instruction writes its
\* registers after all, which a run in TTY mode stops short of.
LateWriteback ==
    /\ W.stat \in Exception
    /\ arch_reg' = writeBack
    /\ UNCHANGED <<arch_pc, arch_mem, cc, arch_stat>>

\* The machine at the start of the program of the last load.
Restarted ==
    /\ arch_pc = 0
    /\ arch_reg = [id \in RegId |-> 0]
    /\ arch_mem = post_load_mem
    /\ cc = DEFAULT_CC
    /\ arch_stat = "AOK"

\* Whatever buttons are pressed, whenever, and however many simGo loops are
\* nested: between commands the program's state moves only by whole ISA
\* instructions, and after an exception nothing but the excepting instruction's
\* own registers can change; at the end of a Reset or Load it is that of a
\* machine never run, on the image of the last load, which is the file over
\* the memory as it was (psim.c 848-863, 865-888, 917-938, pipe.tcl simGo).
SessionIsISA ==
    [][/\ idle /\ idle' /\ ~smc' /\ ~unhandled' =>
            [\/ Arch!Next \/ Arch!PreciseStackFault \/ MissingIaddq
             \/ LateWriteback]_(Arch!vars)
       /\ ~idle /\ idle' => Restarted'
       /\ post_load_mem' # post_load_mem =>
            \E file \in Files : post_load_mem' = load_over(mem, file)]_gvars

\* What the text of a register says; a blank stands for the 0 of a reset.
textOf(text, id) == IF id \in DOMAIN text THEN text[id] ELSE 0

\* The windows show the machine as it is: no pipe register, condition code or
\* status is a step behind or left from before a reset, not even while a
\* command replaces the memory; between commands the same holds of the stage
\* letters, although sim_reset draws an F at the pc fetched before it
\* (psim.c 456-484, 856).  A register's text is its value, unless it holds the 0
\* of a reset and clearReg does not reach it (pipe.tcl 72).
DisplayCurrent ==
    /\ \A id \in RegId : \/ reg[id] = textOf(shownReg, id)
                         \/ id \notin Cleared /\ reg[id] = 0
    /\ shown = report
    /\ idle => labels = IF started THEN report_pc(lines, f_pc) ELSE noLabels

\* An exception ends every simGo in progress, unless the user restarts the
\* machine, once no more calls are added (pipe.tcl simGo).
ExceptionEndsGo ==
    <>[][gos' <= gos]_gvars =>
        [](Stat \in Exception => <>(gos = 0 \/ Stat \notin Exception))
=============================================================================
