---------------------------- MODULE MCAssetStore ----------------------------
(* TLC instance of AssetStore: symmetric callers and UUIDs.                 *)
EXTENDS AssetStore, TLC

Symmetry == Permutations(Tasks) \union Permutations(Managers) \union Permutations(Uuids)

=============================================================================
