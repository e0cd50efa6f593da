-------------------------- MODULE MCViralChatEngine --------------------------
(* The instances of the chat engine that TLC explores. *)
EXTENDS ViralChatEngine, TLC

(* The sending threads run the same code; sound for safety only. *)
SenderSymmetry == Permutations(Senders)

=============================================================================
