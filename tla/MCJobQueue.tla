----------------------------- MODULE MCJobQueue -----------------------------
(***************************************************************************)
(* Finite instances of JobQueue for TLC.                                   *)
(***************************************************************************)
EXTENDS JobQueue, TLC

\* Workers differ in nothing but their name.
WorkerSymmetry == Permutations(Workers)

\* All rows share one dedupe key.
SharedKey == [j \in Jobs |-> "k"]

\* Row 1 and row 3 share a dedupe key, row 2 has one of its own.
HeldKey == [j \in Jobs |-> IF j = 2 THEN "own" ELSE "held"]
=============================================================================
