-------------------------- MODULE MCHostedLookahead --------------------------
(* HostedLookahead with a clock that runs from 20 to 32. *)
EXTENDS HostedLookahead

MCTimes == 20..32
MCAnswers == {-1, 2}

==============================================================================
