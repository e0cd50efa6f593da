------------------------ MODULE MCViralStorageEngine ------------------------
(* The instances of the storage engine that TLC explores. *)
EXTENDS ViralStorageEngine

CONSTANTS v1, v2

(* The server answers with a page of two videos. *)
MCBatches == {<<v1, v2>>}
=============================================================================
