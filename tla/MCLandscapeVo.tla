---------------------------- MODULE MCLandscapeVo ----------------------------
(* A small instance of LandscapeVo. *)
EXTENDS LandscapeVo
=============================================================================
