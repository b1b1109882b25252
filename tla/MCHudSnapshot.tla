--------------------------- MODULE MCHudSnapshot ---------------------------
(* HudSnapshot with the bounds of the configurations. *)
EXTENDS HudSnapshot
=============================================================================
