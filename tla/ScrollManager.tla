--------------------------- MODULE ScrollManager ---------------------------
(***************************************************************************)
(* What the touchpad's and the multitouch mouse's interpreters share:      *)
(* scrolls from moving fingers, and the fling of the last scrolls          *)
(* (ScrollManager and ScrollEventBuffer in src/src/immediate_interpreter.cc*)
(* with their default properties).  Of the buffer of scroll events only    *)
(* whether it is empty is told apart.  The operators are sets of outcomes. *)
(***************************************************************************)

\* The buffer starts anew unless the same fingers were scrolling; a scroll of
\* length zero is not put in.
Insert(buffered, continues, moved) == moved \/ (buffered /\ continues)

\* A finger is suspected to be leaving: the last scroll is repeated, if there is one.
DeadReckon(prev_scrolled, buffered) ==
  {[scroll |-> prev_scrolled, update |-> FALSE, buffered |-> buffered]}

\* known: every gesturing finger was there in the state before; free: one of them may
\* move; continues: the same fingers were scrolling.  A repeated scroll has to have
\* the direction of the finger's movement, if it moved.
ComputeScroll(known, free, continues, prev_scrolled, buffered) ==
  IF ~known
  THEN {[scroll |-> FALSE, update |-> FALSE, buffered |-> buffered]}
  ELSE DeadReckon(prev_scrolled, buffered) \cup
       (IF free THEN DeadReckon(FALSE, buffered) ELSE {}) \cup
       {[scroll |-> moved, update |-> TRUE,
         buffered |-> Insert(buffered, continues, moved)] :
          moved \in IF free THEN BOOLEAN ELSE {FALSE}}

\* The velocity of the fling; it is zero with no events, or slow ones.  A fling is only
\* computed after a scroll, so did_generate_scroll_, which is never reset, is set.
ComputeFling(buffered) == IF buffered THEN {"zero", "fling"} ELSE {"zero"}

UpdateScrollEventBuffer(type, buffered) == type = "scroll" /\ buffered
=============================================================================
