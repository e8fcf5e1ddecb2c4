------------------------------ MODULE PlayoutMC -----------------------------
EXTENDS Playout, TLC

CONSTANTS a1, a2, b1, c1
CONSTANTS p1, p2

OneStudio == [p \in Playlists |-> "studio"]
OwnStudios == [p \in Playlists |-> p]
ThreeParts == <<a1, a2, b1>>
TwoSegments == (a1 :> "A") @@ (a2 :> "A") @@ (b1 :> "B")
FourParts == <<a1, a2, b1, c1>>
ThreeSegments == TwoSegments @@ (c1 :> "C")
=============================================================================
