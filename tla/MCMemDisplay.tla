---------------------------- MODULE MCMemDisplay ----------------------------
(* The memory window over two to four rows, with up to three stores. *)
EXTENDS MemDisplay
=============================================================================
