------------------------------- MODULE MCPsim -------------------------------
(***************************************************************************)
(* psim -t on programs of up to three instructions after the one that sets *)
(* %rsp, with a limit that some of them reach and some do not.             *)
(***************************************************************************)
EXTENDS Psim, Programs

Pool == {0, 2, 3, 4, 6, 7, 9, 10, 13, 14, 15, -1, -16}

\* Every instruction of the tables names the registers it uses, and the design
\* that runs them has them all.
ASSUME WellEncoded /\ IaddqBuilt

MCLoads == [design : {full}, code : ProgramsOf(Pool, 3)]
=============================================================================
