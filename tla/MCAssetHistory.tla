--------------------------- MODULE MCAssetHistory ---------------------------
(* AssetHistory for the checker. *)
EXTENDS AssetHistory, TLC

MCPlaces == {NotDeployed, [deployment |-> "deployed", area |-> "hall"]}

Symmetry == Permutations(Manual) \union Permutations(Drafts)
=============================================================================
