------------------------------- MODULE MCSeq -------------------------------
(***************************************************************************)
(* SEQ against the ISA on programs of up to four instructions after the    *)
(* one that sets %rsp, loads and stores without a base register included.  *)
(***************************************************************************)
EXTENDS Seq, Programs

SeqDecode == [MCDecode EXCEPT
    ![8] = ins("IMRMOVQ", 0, "rcx", N, 7),
    ![6] = ins("IRMMOVQ", 0, "rax", N, 6)]

ASSUME NamesRegisters

Pool == {0, 2, 3, 4, 5, 6, 7, 8, 9, 10, 11, 12, 13, 14, 15, -1, -4, -5, -16}

MCDesigns == {full, std, plus_std}

MCCodes == ProgramsOf(Pool, 3)
=============================================================================
