-------------------------- MODULE MCViralFeedClaims --------------------------
EXTENDS MCViralFeed

(* README.md:21: scroll_to "Plays video at index".  A video the user stays  *)
(* on plays, unless the user pauses it or its file fails or ends.  The loop *)
(* thread runs viral_msg_loop on the argument ijkmp_msg_loop passes         *)
(* (ijkplayer.c:382), the player, and not on the MsgLoopArg the feed left   *)
(* in weak_thiz: what it reads there is no feed and no slot.                *)
PlaysAtIndex ==
    \A i \in UNION {0..Len(list) - 1 : list \in UrlLists} :
        (Idle /\ current_index = i)
            ~> (\/ current_index # i \/ userPaused \/ destroyed
                \/ LET mp == CurrentSlot.mp
                   IN  mp # NoPlayer => IsPlaying(players[mp]) \/ Failed(players[mp]))
=============================================================================
