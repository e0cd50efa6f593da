------------------------- MODULE MCViralUploadEngine -------------------------
(* Small instances of the upload engine for TLC; the bounds are in the cfgs. *)
EXTENDS ViralUploadEngine
=============================================================================
