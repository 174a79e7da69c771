-------------------------- MODULE MCStuckButtonChain --------------------------
(* The chain with a clock that runs from 20 to 33. *)
EXTENDS StuckButtonChain

MCTimes == 20..33
MCStateAnswers == {-1, 2}
MCTimerAnswers == {-1}

==============================================================================
