------------------------------- MODULE MCGui -------------------------------
(***************************************************************************)
(* psim -g on three object files: one that overwrites its own data, and    *)
(* faults on a popq with two registers still to write; one that runs into  *)
(* what the file before it has left in memory; and one that may loop for   *)
(* ever.                                                                   *)
(***************************************************************************)
EXTENDS Gui, Programs, TLC

Faulting == (0 :> 1) @@ (1 :> 3) @@ (2 :> 2) @@ (3 :> 6) @@ (4 :> 10) @@ (5 :> 10) @@ (7 :> 5)

Leaving == (0 :> 2) @@ (1 :> 14) @@ (4 :> 9) @@ (5 :> -1)

Looping == (0 :> 13) @@ (2 :> 4) @@ (3 :> -4)

MCFiles == {Faulting, Leaving, Looping}

MCLoads == [design : {full}, code : {Faulting}]

\* rcx plays one of %r8 to %r14.
MCCleared == MCRegId \ {"rcx"}

ASSUME WellEncoded
=============================================================================
