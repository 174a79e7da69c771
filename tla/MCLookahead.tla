----------------------------- MODULE MCLookahead -----------------------------
(* Lookahead on a small pool, called at any of the times MCTimes. *)
EXTENDS Lookahead

MCTimes == 10..15
MCAnswers == {-1, 0, 2}

==============================================================================
