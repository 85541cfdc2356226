-------------------------- MODULE MCWebchatAiTurn ---------------------------
(* Finite instances of WebchatAiTurn for TLC. *)
EXTENDS WebchatAiTurn, TLC

WorkerSymmetry == Permutations(Workers)
=============================================================================
