--------------------------- MODULE MCFFPlayClaims ---------------------------
(* What the feed's README says of a pause and the player does not do. *)
EXTENDS MCFFPlay

VARIABLE wanted   \* history: the last start or pause the application called

ClaimInit == Init /\ wanted = "none"

ClaimNext ==
    \/ Start /\ wanted' = "start"
    \/ Pause /\ wanted' = "pause"
    \/ /\ Decode \/ VideoRefresh \/ ReadThread \/ MessageLoop \/ Joining \/ Shutdown \/ Closed
       /\ UNCHANGED wanted

ClaimSpec == ClaimInit /\ [][ClaimNext]_<<vars, wanted>>

(* "Pauses the previous video" (README.md:23): when every request has been  *)
(* executed, a player whose last call was a pause is to be paused.  The     *)
(* reading thread asks for a start of its own when it has waited for the    *)
(* first one, and that request may come after the pause.                    *)
PauseSticks == wanted = "pause" /\ msgs = <<>> /\ app = "idle" => play.pause_req
=============================================================================
