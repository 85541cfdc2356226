------------------------- MODULE MCOperationsOutbox -------------------------
(* Small instances of OperationsOutbox for TLC. *)
EXTENDS OperationsOutbox, TLC

WorkerSymmetry == Permutations(Workers)
=============================================================================
