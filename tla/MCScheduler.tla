---------------------------- MODULE MCScheduler -----------------------------
(* schedule and scheduleFast on the listings of Listings. *)
EXTENDS FastScheduler, Listings

ASSUME ProgramsReadable
=============================================================================
