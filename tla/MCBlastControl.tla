--------------------------- MODULE MCBlastControl ---------------------------
(* Small instances of BlastControl for TLC.                                *)
EXTENDS BlastControl, TLC

(* Connections of one kind, and rovers, are interchangeable (safety runs). *)
ConnectionSymmetry == Permutations(Operators) \cup Permutations(Expirers)
=============================================================================
