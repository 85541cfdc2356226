-------------------------- MODULE MCVoiceCommands ---------------------------
(* Small instances of VoiceCommands for TLC. *)
EXTENDS VoiceCommands, TLC

WorkerSymmetry == Permutations(Workers)
=============================================================================
