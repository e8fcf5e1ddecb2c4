------------------------------ MODULE DbCacheMC ------------------------------
(* Instances of DbCache for TLC. *)
EXTENDS DbCache, TLC

(* Nothing in DbCache tells one id, or one content, from another. *)
DocumentSymmetry == Permutations(Ids) \cup Permutations(Values)
=============================================================================
