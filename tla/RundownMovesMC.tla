-------------------------- MODULE RundownMovesMC --------------------------
(* The instances of RundownMoves for TLC: two rundowns, sorted r1, r2.     *)
EXTENDS RundownMoves, TLC

CONSTANTS r1, r2, p1, p2, f1

TwoInOrder == <<r1, r2>>
SymmetricPlaylists == Permutations({p1, p2})
=============================================================================
