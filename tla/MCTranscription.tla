--------------------------- MODULE MCTranscription ---------------------------
(***************************************************************************)
(* Instance of Transcription for TLC.                                      *)
(***************************************************************************)
EXTENDS Transcription, TLC

(* Identities of the same kind are interchangeable. *)
Symmetry == Permutations(Jobs) \cup Permutations(AudioAssets) \cup Permutations(Workers)
=============================================================================
