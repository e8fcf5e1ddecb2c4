--------------------------- MODULE StudioLocksMC ---------------------------
(* Instances of StudioLocks for TLC: the studio and the ingest thread, a   *)
(* rundown and its playlist.                                               *)
EXTENDS StudioLocks, TLC

CONSTANTS studio, ingest, rundown, playlist, playlist2

(* An ingest job takes a playlist inside the rundown (commit.ts), and so   *)
(* does the studio's move of a rundown (rundownPlaylists.ts); a forced     *)
(* activation takes the other playlist inside its own (playout.ts).        *)
NestedLocks == {<<t, rundown, p>> : t \in Threads, p \in {playlist, playlist2}}
                 \cup {<<studio, playlist, playlist2>>}

ThreadSymmetry == Permutations(Threads)

(* Only is Array.filter. *)
ASSUME OnlyIsFilter ==
  \A n \in 0 .. 4 : \A q \in [1 .. n -> 1 .. 3], S \in SUBSET (1 .. 3) :
    Only(q, S) = SelectSeq(q, LAMBDA x : x \in S)
=============================================================================
