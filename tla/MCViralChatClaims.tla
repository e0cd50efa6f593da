-------------------------- MODULE MCViralChatClaims --------------------------
(* What the headers say of the chat engine and the code does not do. *)
EXTENDS MCViralChatEngine

(* "Auto-reconnect on network drop" (ViralChatEngine.h:9): until disconnect *)
(* is called, the background thread that reconnects is there.  A send that  *)
(* fails just before run() looks at the socket makes run() leave its loop.  *)
AutoReconnects ==
    loop = "exited" => control # "idle"

=============================================================================
