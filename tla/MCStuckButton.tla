---------------------------- MODULE MCStuckButton ----------------------------
(* The inhibitor with two buttons; next_ may answer with an overdue, no, a zero
   and a real timeout, as the lookahead filter does. *)
EXTENDS StuckButton

MCAnswers == {-2, -1, 0, 2}

==============================================================================
