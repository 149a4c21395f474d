------------------------------ MODULE MCSophDrm ------------------------------
(* Two RGB888 framebuffers of one pitch, an NV12 one with two CSCs, and two  *)
(* for the GOP.                                                              *)
EXTENDS SophDrm

CONSTANTS r1, r2, n1, x1, x2

ThreeVideo == {r1, r2, n1}
TwoGop == {x1, x2}
HowsOf(f) == IF f = n1 THEN {"nv12-601", "nv12-709"} ELSE {"rgb888"}
PitchOf(f) == IF f = n1 THEN 1280 ELSE 3840
=============================================================================
