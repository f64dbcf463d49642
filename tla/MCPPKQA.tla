------------------------------ MODULE MCPPKQA ------------------------------
(* Small instances of PPKQA for TLC.                                       *)
EXTENDS PPKQA, TLC

(* Worker processes are interchangeable. *)
WorkerSymmetry == Permutations(Workers)
=============================================================================
