------------------------------ MODULE MCFFPlay ------------------------------
(* FFPlay with the bounds of MCFFPlay.cfg and MCFFPlayLive.cfg. *)
EXTENDS FFPlay
=============================================================================
