----------------------------- MODULE MCOutbreak -----------------------------
(***************************************************************************)
(* Two or three badges that play a round of two or three clock units.      *)
(* Every event comes from the badges themselves, so Evidence is given no   *)
(* bodies and no receipts of its own.                                      *)
(***************************************************************************)
EXTENDS Outbreak
=============================================================================
