------------------------- MODULE MCOutboundDispatch -------------------------
(* Small instances of OutboundDispatch for TLC. *)
EXTENDS OutboundDispatch, TLC

WorkerSymmetry == Permutations(Workers)
=============================================================================
