--------------------------- MODULE MCUploadIngest ---------------------------
(* Small instances of UploadIngest for TLC: one file per device, and one   *)
(* from before the ledger.                                                 *)
EXTENDS UploadIngest, TLC

CONSTANTS fBase, fRover, fOld, rover

SenderOf == [f \in Files |-> IF f = fBase THEN Base ELSE rover]

RequestSymmetry == Permutations(Requests)
=============================================================================
