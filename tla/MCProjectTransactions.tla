------------------------ MODULE MCProjectTransactions ------------------------
(***************************************************************************)
(* Instance of ProjectTransactions for TLC.                                *)
(***************************************************************************)
EXTENDS ProjectTransactions, TLC

(* Identities of the same kind are interchangeable. *)
Symmetry ==
  Permutations(Txs) \cup Permutations(AudioAssets) \cup Permutations(Jobs)
    \cup Permutations(Keys)
=============================================================================
