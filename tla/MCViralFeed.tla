----------------------------- MODULE MCViralFeed -----------------------------
(***************************************************************************)
(* ViralFeed with rings of two and three slots and one preloaded video;    *)
(* three slots have the shape of the code's five and two (PoolSize = 2 *   *)
(* PreloadCount + 1).  The application appends to its list as the user     *)
(* scrolls on, so that with few players slots are recycled and released.   *)
(***************************************************************************)
EXTENDS ViralFeed

Feed(n) == [i \in 1..n |-> i]

Feed2 == {Feed(2)}
FeedGrows == {Feed(1), Feed(3)}
FeedGrowsOn == {Feed(1), Feed(3), Feed(4)}
=============================================================================
