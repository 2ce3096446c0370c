----------------------------- MODULE MCWebEditor -----------------------------
(***************************************************************************)
(* An instance of WebEditor for TLC.                                       *)
(***************************************************************************)
EXTENDS WebEditor, TLC

Symmetry == Permutations(Calls) \cup Permutations(Jobs)
              \cup Permutations(AudioAssets) \cup Permutations(Keys)
=============================================================================
