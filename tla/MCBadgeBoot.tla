----------------------------- MODULE MCBadgeBoot -----------------------------
(* Builds for TLC: two plain ones, the second of which needs 3 GiB slots, and *)
(* a signed one.                                                              *)
EXTENDS BadgeBoot

CONSTANTS i1, i2, s1

OneCore  == {"arm"}
BothCores == {"arm", "riscv"}
Plain  == {i1, i2}
Mixed  == {i1, s1}
Signed == {s1}
Big    == {i2}
None   == {}
=============================================================================
