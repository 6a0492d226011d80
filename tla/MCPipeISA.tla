----------------------------- MODULE MCPipeISA -----------------------------
(***************************************************************************)
(* PIPE against the ISA on every program of two families: straight-line    *)
(* code dense in data hazards, and code with jumps, calls, returns and     *)
(* exceptions.  Every program first sets %rsp to the top of the memory.    *)
(* The solved design runs the densest programs; the others run programs    *)
(* with room between instructions, as nop-padded code meets few of the     *)
(* hazards that a design leaves alone.                                     *)
(***************************************************************************)
EXTENDS PipeISA, Programs

\* Every instruction of the tables names the registers it uses.
ASSUME WellEncoded

DensePrograms ==
    ProgramsOf({2, 3, 4, 5, 6, 7, 8, 9, 10, 11, 12}, 4)
        \cup ProgramsOf({3, 4, 7, 9, 11, 13, 14, 15, -1, -4, -5, -16}, 4)

PaddedPrograms ==
    ProgramsOf({-2, 2, 4, 7, 10}, 5) \cup ProgramsOf({-2, 3, 7, 11, 14, 15, -1, -5}, 4)

MCLoads ==
    [design : {full}, code : DensePrograms]
        \cup [design : {std, nt, btfnt, lf, nobypass, broken, oneWrite},
              code : PaddedPrograms]
=============================================================================
