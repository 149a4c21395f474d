------------------------------ MODULE MCStage0 ------------------------------
(* One slot, two squashfs images for it and up to two generations.           *)
EXTENDS Stage0, TLC

CONSTANTS h1, h2, g1, g2

OneSlot == {"A"}
TwoStamps == {h1, h2}
OneGen == {g1}
TwoGens == {g1, g2}
Symmetry == Permutations({h1, h2}) \cup Permutations({g1, g2})
=============================================================================
